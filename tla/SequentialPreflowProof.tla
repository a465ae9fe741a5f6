----------------------- MODULE SequentialPreflowProof -----------------------
(***************************************************************************)
(* Proofs about SequentialPreflow, for every graph.                        *)
(*                                                                         *)
(* The code keeps no mark of which nodes are in the list: it relies on a   *)
(* node being in it exactly when it has excess, so that v->e == d tells a  *)
(* node that must be entered from one that must not.  That is the heart of *)
(* the invariant, and one lemma about push carries it for both loops.      *)
(***************************************************************************)
EXTENDS SequentialPreflow, FlowGraphProof

\* Until they are pushed along, the source's edges are empty, and so is the
\* source; and preflow returns when nothing is left to do.
StartOK ==
    p < Len(Adj[s]) =>
        e[s] = 0 /\ \A k \in p + 1 .. Len(Adj[s]) : f[Adj[s][k]] = 0

ResultOK == result # Running => p = Len(Adj[s]) /\ excess = << >> /\ result = e[t]

IInv ==
    /\ TypeOK
    /\ ListHoldsTheExcess
    /\ ListNeverRepeats
    /\ StartOK
    /\ ResultOK

-----------------------------------------------------------------------------

LEMMA EnteredFacts ==
    ASSUME NEW list \in Seq(Inner), NEW a \in Node
    PROVE  /\ Entered(list, a) \in Seq(Inner)
           /\ Range(Entered(list, a)) = Range(list) \cup ({a} \cap Inner)
           /\ IsInjective(list) /\ a \notin Range(list) => IsInjective(Entered(list, a))
<1>1. CASE a \in {s, t}
    BY <1>1, NodeFacts DEF Entered
<1>2. CASE a \notin {s, t}
    BY <1>2, NodeFacts, FrontFacts DEF Entered, InFront
<1> QED
    BY <1>1, <1>2

\* push, from a node a that is not in the list to v, keeps the list exact.
LEMMA PushFacts ==
    ASSUME NEW list \in Seq(Inner), NEW ex \in [Node -> Nat], f \in [Edge -> Int],
           NEW a \in Node, NEW x \in Incident(a), NEW v, v = Other(a, x),
           v \in Node, v # a,
           ex[a] > 0, FlowFrom(f, a, x) < Cap[x],
           IsInjective(list), a \notin Range(list),
           \A b \in Inner \ {a} : b \in Range(list) <=> ex[b] > 0,
           PushAlong(list, ex, a, x)
    PROVE  /\ e' = ExcessAfter(ex, a, x, Amount(f, ex, a, x))
           /\ f' = FlowAfter(f, a, x, Amount(f, ex, a, x))
           /\ e' \in [Node -> Nat]
           /\ f' \in [Edge -> Int]
           /\ \A y \in Edge \ {x} : f'[y] = f[y]
           /\ e'[a] = ex[a] - Amount(f, ex, a, x)
           /\ excess' \in Seq(Inner)
           /\ ListHoldsTheExcess'
           /\ ListNeverRepeats'
<1> DEFINE d == Amount(f, ex, a, x)
<1>1. /\ f' = FlowAfter(f, a, x, d) /\ e' = ExcessAfter(ex, a, x, d)
      /\ excess' = ListAfter(list, e', a, x, d)
    BY DEF PushAlong
<1>2. d \in Nat /\ d <= ex[a] /\ d > 0
    BY AmountFacts
<1>3. x \in Edge /\ ex[a] \in Nat /\ ex[v] \in Nat
    BY DEF Incident
<1> HIDE DEF d
<1>4. e' = [ex EXCEPT ![a] = @ - d, ![v] = @ + d]
    BY <1>1 DEF ExcessAfter
<1>5. /\ e'[a] = ex[a] - d /\ e'[v] = ex[v] + d
      /\ \A b \in Node \ {a, v} : e'[b] = ex[b]
      /\ e' \in [Node -> Nat]
    BY <1>2, <1>3, <1>4
<1>6. f' = [f EXCEPT ![x] = IF a = EdgeU[x] THEN @ + d ELSE @ - d]
    BY <1>1 DEF FlowAfter
<1>7. f' \in [Edge -> Int] /\ \A y \in Edge \ {x} : f'[y] = f[y]
    BY <1>2, <1>3, <1>6
<1> DEFINE one == IF e'[a] > 0 THEN Entered(list, a) ELSE list
<1>8. /\ one \in Seq(Inner) /\ IsInjective(one)
      /\ \A b : b \in Range(one) <=> b \in Range(list) \/ (b = a /\ a \in Inner /\ e'[a] > 0)
  <2> DEFINE new == Entered(list, a)
  <2>0. /\ new \in Seq(Inner) /\ IsInjective(new)
        /\ Range(new) = Range(list) \cup ({a} \cap Inner)
      BY EnteredFacts
  <2> HIDE DEF new
  <2>1. CASE e'[a] > 0
    <3>1. one = new
        BY <2>1 DEF new
    <3> QED
        BY <2>0, <2>1, <3>1
  <2>2. CASE ~(e'[a] > 0)
      BY <2>2
  <2> QED
      BY <2>1, <2>2
<1>9. excess' = IF e'[v] = d THEN Entered(one, v) ELSE one
    BY <1>1 DEF ListAfter, HadNoExcess
<1> HIDE DEF one
<1>10. e'[v] = d <=> ex[v] = 0
    BY <1>2, <1>3, <1>5
<1>11. ex[v] = 0 => v \notin Range(one)
  <2>1. ex[v] = 0 => v \notin Range(list)
      BY EntryIsInner
  <2> QED
      BY <2>1, <1>8
<1>12. /\ excess' \in Seq(Inner) /\ IsInjective(excess')
       /\ \A b : b \in Range(excess')
                 <=> b \in Range(one) \/ (b = v /\ v \in Inner /\ ex[v] = 0)
  <2> DEFINE new == Entered(one, v)
  <2>1. /\ new \in Seq(Inner) /\ Range(new) = Range(one) \cup ({v} \cap Inner)
        /\ ex[v] = 0 => IsInjective(new)
      BY <1>8, <1>11, EnteredFacts
  <2>2. excess' = IF ex[v] = 0 THEN new ELSE one
      BY <1>9, <1>10
  <2> HIDE DEF new
  <2> QED
      BY <2>1, <2>2, <1>8
<1>13. ASSUME NEW b \in Inner
       PROVE  b \in Range(excess') <=> e'[b] > 0
  <2>1. b \in Node
      BY NodeFacts
  <2>2. CASE b = a
      BY <2>2, <1>8, <1>12
  <2>3. CASE b = v
      BY <2>3, <1>2, <1>3, <1>5, <1>8, <1>12
  <2>4. CASE b # a /\ b # v
      BY <2>1, <2>4, <1>5, <1>8, <1>12
  <2> QED
      BY <2>2, <2>3, <2>4
<1> QED
    BY <1>1, <1>5, <1>7, <1>12, <1>13 DEF d, ListHoldsTheExcess, ListNeverRepeats

-----------------------------------------------------------------------------
(* The first loop *)

LEMMA InitialPushEffect ==
    ASSUME IInv, InitialPush
    PROVE  \E x \in Edge :
              /\ x = Adj[s][p + 1] /\ x \in Incident(s)
              /\ p + 1 \in 1 .. Len(Adj[s]) /\ p' = p + 1 /\ Len(Adj[s]) \in Nat
              /\ h' = h /\ result' = result
              /\ f' = FlowAfter(f, s, x, Cap[x]) /\ f' \in [Edge -> Int]
              /\ \A y \in Edge \ {x} : f'[y] = f[y]
              /\ e' = [e EXCEPT ![Other(s, x)] = @ + Cap[x]]
              /\ e' \in [Node -> Nat] /\ e'[s] = 0
              /\ excess' \in Seq(Inner) /\ ListHoldsTheExcess' /\ ListNeverRepeats'
<1>1. p \in Nat /\ Len(Adj[s]) \in Nat /\ p + 1 \in 1 .. Len(Adj[s]) /\ s \in Node
    BY NodeFacts, LengthFacts DEF InitialPush, IInv, TypeOK
<1>2. PICK x \in Edge : x = Adj[s][p + 1]
    BY <1>1, LinkFacts
<1>3. PICK v \in Node : v = Other(s, x)
    BY <1>1, <1>2, LinkFacts
<1>4. x \in Incident(s) /\ v # s
    BY <1>1, <1>2, <1>3, LinkFacts
<1>5. PICK list \in Seq(Inner) : list = excess
    BY DEF IInv, TypeOK
<1>6. e \in [Node -> Nat] /\ f \in [Edge -> Int] /\ Cap[x] \in Nat /\ Cap[x] > 0
    BY EdgeAssumption DEF IInv, TypeOK
<1>7. e[s] = 0 /\ f[x] = 0
  <2>1. p < Len(Adj[s]) /\ p + 1 \in p + 1 .. Len(Adj[s])
      BY <1>1
  <2> QED
      BY <2>1, <1>2 DEF IInv, StartOK
<1>8. PICK ex \in [Node -> Nat] : ex = [e EXCEPT ![s] = @ + Cap[x]]
  <2> DEFINE given == [e EXCEPT ![s] = @ + Cap[x]]
  <2>1. given \in [Node -> Nat]
      BY <1>1, <1>6
  <2> HIDE DEF given
  <2> QED
      BY <2>1 DEF given
<1>9. ex[s] = Cap[x] /\ \A b \in Node \ {s} : ex[b] = e[b]
    BY <1>1, <1>6, <1>7, <1>8
<1>10. PushAlong(list, ex, s, x) /\ p' = p + 1 /\ h' = h /\ result' = result
  <2>1. ex = [e EXCEPT ![s] = @ + Cap[Adj[s][p + 1]]]
      BY <1>2, <1>8
  <2>2. p' = p + 1 /\ h' = h /\ result' = result
      BY DEF InitialPush
  <2> QED
      BY <2>1, <2>2, <1>2, <1>5, Zenon DEF InitialPush, PushAlong
<1>11. IsInjective(list) /\ s \notin Range(list)
    BY <1>5, EntryIsInner, NodeFacts DEF IInv, ListNeverRepeats
<1>12. \A b \in Inner \ {s} : b \in Range(list) <=> ex[b] > 0
    BY <1>5, <1>9, NodeFacts DEF IInv, ListHoldsTheExcess
<1>13. FlowFrom(f, s, x) < Cap[x] /\ Amount(f, ex, s, x) = Cap[x]
    BY <1>6, <1>7, <1>9 DEF FlowFrom, Amount, Residual, Lesser
<1>14. /\ e' = ExcessAfter(ex, s, x, Cap[x]) /\ f' = FlowAfter(f, s, x, Cap[x])
       /\ e' \in [Node -> Nat] /\ f' \in [Edge -> Int]
       /\ \A y \in Edge \ {x} : f'[y] = f[y]
       /\ e'[s] = Cap[x] - Cap[x]
       /\ excess' \in Seq(Inner) /\ ListHoldsTheExcess' /\ ListNeverRepeats'
  <2>1. ex[s] > 0
      BY <1>6, <1>9
  <2>2. /\ e' = ExcessAfter(ex, s, x, Amount(f, ex, s, x))
        /\ f' = FlowAfter(f, s, x, Amount(f, ex, s, x))
        /\ e' \in [Node -> Nat] /\ f' \in [Edge -> Int]
        /\ \A y \in Edge \ {x} : f'[y] = f[y]
        /\ e'[s] = ex[s] - Amount(f, ex, s, x)
        /\ excess' \in Seq(Inner) /\ ListHoldsTheExcess' /\ ListNeverRepeats'
    <3>1. /\ list \in Seq(Inner) /\ ex \in [Node -> Nat] /\ f \in [Edge -> Int]
          /\ s \in Node /\ x \in Incident(s) /\ v = Other(s, x) /\ v \in Node /\ v # s
          /\ ex[s] > 0 /\ FlowFrom(f, s, x) < Cap[x]
          /\ IsInjective(list) /\ s \notin Range(list)
          /\ \A b \in Inner \ {s} : b \in Range(list) <=> ex[b] > 0
        BY <1>1, <1>3, <1>4, <1>5, <1>6, <1>8, <1>11, <1>12, <1>13, <2>1
    <3>2. PushAlong(list, ex, s, x)
        BY <1>10
    <3> QED
        BY ONLY <3>1, <3>2, PushFacts, SMTT(60)
  <2> QED
      BY <2>2, <1>9, <1>13
<1>15. e' = [e EXCEPT ![v] = @ + Cap[x]]
  <2>1. e' = [ex EXCEPT ![s] = @ - Cap[x], ![v] = @ + Cap[x]]
      BY <1>3, <1>14 DEF ExcessAfter
  <2>2. e'[s] = e[s] /\ e'[v] = e[v] + Cap[x]
      BY <2>1, <1>1, <1>4, <1>6, <1>7, <1>8, <1>9
  <2>3. \A b \in Node \ {s, v} : e'[b] = e[b]
      BY <2>1, <1>8, <1>9
  <2> QED
      BY <2>2, <2>3, <1>4, <1>6, <1>14
<1>16. e'[s] = 0
    BY <1>6, <1>14
<1> QED
    BY <1>1, <1>2, <1>3, <1>4, <1>10, <1>14, <1>15, <1>16

LEMMA InitialPushIInv ==
    ASSUME IInv, InitialPush
    PROVE  IInv'
<1>1. PICK x \in Edge :
         /\ x = Adj[s][p + 1] /\ x \in Incident(s)
         /\ p + 1 \in 1 .. Len(Adj[s]) /\ p' = p + 1 /\ Len(Adj[s]) \in Nat
         /\ h' = h /\ result' = result
         /\ f' = FlowAfter(f, s, x, Cap[x]) /\ f' \in [Edge -> Int]
         /\ \A y \in Edge \ {x} : f'[y] = f[y]
         /\ e' = [e EXCEPT ![Other(s, x)] = @ + Cap[x]]
         /\ e' \in [Node -> Nat] /\ e'[s] = 0
         /\ excess' \in Seq(Inner) /\ ListHoldsTheExcess' /\ ListNeverRepeats'
    BY InitialPushEffect
<1>2. p \in Nat
    BY LengthFacts, NodeFacts DEF IInv, TypeOK
<1>3. TypeOK'
    BY <1>1, <1>2 DEF IInv, TypeOK
<1>4. StartOK'
  <2> SUFFICES ASSUME p + 1 < Len(Adj[s]), NEW k \in p + 2 .. Len(Adj[s])
               PROVE  f'[Adj[s][k]] = 0
      BY <1>1, <1>2 DEF StartOK
  <2>1. /\ k \in 1 .. Len(Adj[s]) /\ k # p + 1 /\ k \in p + 1 .. Len(Adj[s])
        /\ p < Len(Adj[s])
      BY <1>1, <1>2
  <2>2. Adj[s][k] # x /\ Adj[s][k] \in Edge
      BY <2>1, <1>1, AdjAssumption, NodeFacts, LinkFacts
  <2>3. f[Adj[s][k]] = 0
      BY <2>1 DEF IInv, StartOK
  <2> QED
      BY <2>2, <2>3, <1>1
<1>5. ResultOK'
  <2>1. result = Running
      BY <1>1, <1>2 DEF IInv, ResultOK
  <2> QED
      BY <2>1, <1>1 DEF ResultOK
<1> QED
    BY <1>1, <1>3, <1>4, <1>5 DEF IInv

-----------------------------------------------------------------------------
(* The second loop *)

\* The chosen node has excess and leaves the list.
LEMMA ChosenFacts ==
    ASSUME IInv, InLoop
    PROVE  /\ Chosen \in Inner /\ Chosen \in Node /\ e[Chosen] > 0
           /\ Tail(excess) \in Seq(Inner)
           /\ IsInjective(Tail(excess))
           /\ Range(Tail(excess)) = Range(excess) \ {Chosen}
           /\ p = Len(Adj[s]) /\ result = Running
<1>1. /\ Chosen \in Inner /\ Chosen \in Range(excess)
      /\ Tail(excess) \in Seq(Inner)
      /\ IsInjective(Tail(excess))
      /\ Range(Tail(excess)) = Range(excess) \ {Chosen}
    BY LeaveFacts DEF IInv, TypeOK, ListNeverRepeats, InLoop, Chosen
<1>2. e[Chosen] > 0
    BY <1>1 DEF IInv, ListHoldsTheExcess
<1>3. p = Len(Adj[s]) /\ result = Running
    BY DEF IInv, ResultOK, InLoop
<1> QED
    BY <1>1, <1>2, <1>3, NodeFacts

LEMMA PushRoundEffect ==
    ASSUME IInv, PushRound
    PROVE  \E a \in Inner : \E x \in Incident(a) :
              /\ e[a] > 0 /\ Admissible(f, h, a, x)
              /\ e' = ExcessAfter(e, a, x, Amount(f, e, a, x))
              /\ f' = FlowAfter(f, a, x, Amount(f, e, a, x))
              /\ e' \in [Node -> Nat] /\ f' \in [Edge -> Int]
              /\ excess' \in Seq(Inner) /\ ListHoldsTheExcess' /\ ListNeverRepeats'
              /\ h' = h /\ p' = p /\ result' = result
<1>1. InLoop
    BY DEF PushRound
<1>2. PICK a \in Inner : a = Chosen
    BY <1>1, ChosenFacts
<1>3. PICK k \in 1 .. Len(Adj[Chosen]) :
        StopsAt(k) /\ PushAlong(Tail(excess), e, Chosen, Adj[Chosen][k])
    BY DEF PushRound
<1>4. PICK x \in Incident(a) : x = Adj[a][k]
    BY <1>1, <1>2, <1>3, ChosenFacts, LinkFacts
<1>5. PICK v \in Node : v = Other(a, x) /\ v # a
    BY <1>1, <1>2, <1>3, <1>4, ChosenFacts, LinkFacts
<1>6. Admissible(f, h, a, x)
    BY <1>2, <1>3, <1>4 DEF StopsAt
<1>7. PICK list \in Seq(Inner) : list = Tail(excess)
    BY <1>1, ChosenFacts
<1>8. PICK ex \in [Node -> Nat] : ex = e
    BY DEF IInv, TypeOK
<1>9. /\ list \in Seq(Inner) /\ ex \in [Node -> Nat] /\ f \in [Edge -> Int]
      /\ a \in Node /\ x \in Incident(a) /\ v = Other(a, x) /\ v \in Node /\ v # a
      /\ ex[a] > 0 /\ FlowFrom(f, a, x) < Cap[x]
      /\ IsInjective(list) /\ a \notin Range(list)
      /\ \A b \in Inner \ {a} : b \in Range(list) <=> ex[b] > 0
  <2>1. f \in [Edge -> Int] /\ FlowFrom(f, a, x) < Cap[x]
      BY <1>6 DEF IInv, TypeOK, Admissible
  <2>2. a \in Node /\ ex[a] > 0 /\ IsInjective(list) /\ Range(list) = Range(excess) \ {a}
      BY <1>1, <1>2, <1>7, <1>8, ChosenFacts
  <2>3. \A b \in Inner \ {a} : b \in Range(list) <=> ex[b] > 0
      BY <2>2, <1>8 DEF IInv, ListHoldsTheExcess
  <2> QED
      BY <2>1, <2>2, <2>3, <1>4, <1>5, <1>7, <1>8
<1>10. PushAlong(list, ex, a, x)
    BY <1>2, <1>3, <1>4, <1>7, <1>8, Zenon DEF PushAlong
<1>11. /\ e' = ExcessAfter(ex, a, x, Amount(f, ex, a, x))
       /\ f' = FlowAfter(f, a, x, Amount(f, ex, a, x))
       /\ e' \in [Node -> Nat] /\ f' \in [Edge -> Int]
       /\ excess' \in Seq(Inner) /\ ListHoldsTheExcess' /\ ListNeverRepeats'
    BY ONLY <1>9, <1>10, PushFacts, SMTT(60)
<1>12. h' = h /\ p' = p /\ result' = result
    BY DEF PushRound
<1> QED
    BY <1>6, <1>8, <1>9, <1>11, <1>12

LEMMA RelabelRoundEffect ==
    ASSUME IInv, RelabelRound
    PROVE  /\ \E a \in Inner :
                 /\ e[a] > 0
                 /\ \A x \in Incident(a) : ~Admissible(f, h, a, x)
                 /\ h' = [h EXCEPT ![a] = @ + 1]
           /\ excess' \in Seq(Inner) /\ ListHoldsTheExcess' /\ ListNeverRepeats'
           /\ e' = e /\ f' = f /\ p' = p /\ result' = result
<1>1. /\ InLoop /\ \A k \in 1 .. Len(Adj[Chosen]) : ~StopsAt(k)
      /\ h' = [h EXCEPT ![Chosen] = @ + 1]
      /\ excess' = Entered(Tail(excess), Chosen)
      /\ e' = e /\ f' = f /\ p' = p /\ result' = result
    BY DEF RelabelRound
<1>2. PICK a \in Inner : a = Chosen
    BY <1>1, ChosenFacts
<1>3. a \in Node /\ e[a] > 0
    BY <1>1, <1>2, ChosenFacts
<1>4. \A x \in Incident(a) : ~Admissible(f, h, a, x)
  <2> DEFINE Ks == {k \in 1 .. Len(Adj[a]) : Admissible(f, h, a, Adj[a][k])}
  <2>1. Ks \subseteq Nat
      OBVIOUS
  <2>2. Ks = {}
    <3> SUFFICES ASSUME Ks # {} PROVE FALSE
        OBVIOUS
    <3>1. PICK k \in Ks : \A j \in Ks : ~(j < k)
        BY <2>1, LeastNatural
    <3>2. \A j \in 1 .. k - 1 : j \in 1 .. Len(Adj[a]) /\ j < k
        BY <1>3, LengthFacts
    <3>3. StopsAt(k)
        BY <3>1, <3>2, <1>2 DEF StopsAt
    <3> QED
        BY <3>3, <1>1, <1>2
  <2> SUFFICES ASSUME NEW x \in Incident(a) PROVE ~Admissible(f, h, a, x)
      OBVIOUS
  <2>3. PICK k \in 1 .. Len(Adj[a]) : Adj[a][k] = x
      BY <1>3, AdjAssumption
  <2> QED
      BY <2>2, <2>3
<1>5. /\ excess' \in Seq(Inner) /\ IsInjective(excess')
      /\ Range(excess') = Range(excess)
  <2>1. /\ Tail(excess) \in Seq(Inner) /\ IsInjective(Tail(excess))
        /\ Range(Tail(excess)) = Range(excess) \ {a}
      BY <1>1, <1>2, ChosenFacts
  <2>2. /\ excess' \in Seq(Inner) /\ IsInjective(excess')
        /\ Range(excess') = (Range(excess) \ {a}) \cup ({a} \cap Inner)
      BY <2>1, <1>1, <1>2, <1>3, EnteredFacts
  <2>3. a \in Range(excess)
      BY <1>3 DEF IInv, ListHoldsTheExcess
  <2> QED
      BY <2>2, <2>3
<1>6. ListHoldsTheExcess' /\ ListNeverRepeats'
    BY <1>1, <1>5 DEF IInv, ListHoldsTheExcess, ListNeverRepeats
<1> QED
    BY <1>1, <1>2, <1>3, <1>4, <1>5, <1>6

-----------------------------------------------------------------------------

LEMMA InitIInv == Init => IInv
<1> SUFFICES ASSUME Init PROVE IInv
    OBVIOUS
<1>1. excess = << >> /\ << >> \in Seq(Inner) /\ Range(excess) = {} /\ IsInjective(excess)
    BY EmptyList DEF Init
<1>2. h \in [Node -> Nat] /\ e \in [Node -> Nat] /\ f \in [Edge -> Int]
    BY SizeAssumption DEF Init
<1>3. p \in 0 .. Len(Adj[s]) /\ p = 0 /\ result = Running
    BY NodeFacts, LengthFacts DEF Init
<1>4. \A k \in 1 .. Len(Adj[s]) : f[Adj[s][k]] = 0
    BY NodeFacts, LinkFacts DEF Init
<1>5. StartOK
    BY <1>3, <1>4, NodeFacts DEF Init, StartOK
<1>6. ListHoldsTheExcess
    BY <1>1, NodeFacts DEF Init, ListHoldsTheExcess
<1> QED
    BY <1>1, <1>2, <1>3, <1>5, <1>6 DEF IInv, TypeOK, ListNeverRepeats, ResultOK

LEMMA NextIInv == IInv /\ [Next]_vars => IInv'
<1> SUFFICES ASSUME IInv, [Next]_vars PROVE IInv'
    OBVIOUS
<1> USE DEF IInv
<1>0. p \in Nat /\ Len(Adj[s]) \in Nat
    BY NodeFacts, LengthFacts DEF TypeOK
<1>1. CASE InitialPush
    BY <1>1, InitialPushIInv
<1>2. CASE PushRound
  <2>1. /\ e' \in [Node -> Nat] /\ f' \in [Edge -> Int]
        /\ excess' \in Seq(Inner) /\ ListHoldsTheExcess' /\ ListNeverRepeats'
        /\ h' = h /\ p' = p /\ result' = result
      BY <1>2, PushRoundEffect
  <2>2. p = Len(Adj[s]) /\ result = Running
      BY <1>2, ChosenFacts DEF PushRound
  <2> QED
      BY <2>1, <2>2, <1>0 DEF TypeOK, StartOK, ResultOK
<1>3. CASE RelabelRound
  <2>1. PICK a \in Inner :
                          /\ e[a] > 0
                          /\ \A x \in Incident(a) : ~Admissible(f, h, a, x)
                          /\ h' = [h EXCEPT ![a] = h[a] + 1]
      BY <1>3, RelabelRoundEffect
  <2>2. h' \in [Node -> Nat]
    <3>1. h \in [Node -> Nat] /\ a \in Node
        BY <2>1, NodeFacts DEF TypeOK
    <3>2. h' = [h EXCEPT ![a] = h[a] + 1]
        BY <2>1
    <3>3. h[a] + 1 \in Nat
        BY <3>1
    <3> HIDE DEF IInv
    <3> QED
        BY ONLY <3>1, <3>2, <3>3, Zenon
  <2>3. /\ excess' \in Seq(Inner) /\ ListHoldsTheExcess' /\ ListNeverRepeats'
        /\ e' = e /\ f' = f /\ p' = p /\ result' = result
      BY <1>3, RelabelRoundEffect
  <2>4. p = Len(Adj[s]) /\ result = Running
      BY <1>3, ChosenFacts DEF RelabelRound
  <2> QED
      BY <2>2, <2>3, <2>4, <1>0 DEF TypeOK, StartOK, ResultOK
<1>4. CASE Return
  <2>1. e[t] \in Nat
      BY NodeFacts DEF TypeOK
  <2>2. /\ p = Len(Adj[s]) /\ excess = << >> /\ result' = e[t]
        /\ h' = h /\ e' = e /\ f' = f /\ excess' = excess /\ p' = p
      BY <1>4 DEF Return
  <2>3. ListHoldsTheExcess' /\ ListNeverRepeats'
      BY <2>2 DEF ListHoldsTheExcess, ListNeverRepeats
  <2>4. TypeOK' /\ ResultOK'
      BY <2>1, <2>2 DEF TypeOK, ResultOK
  <2>5. StartOK'
      BY <2>2, <1>0 DEF StartOK
  <2> QED
      BY <2>3, <2>4, <2>5
<1>5. CASE UNCHANGED vars
    BY <1>5 DEF vars, TypeOK, ListHoldsTheExcess, ListNeverRepeats, StartOK, ResultOK
<1> QED
    BY <1>1, <1>2, <1>3, <1>4, <1>5 DEF Next

\* The inductive invariant holds of every reachable state.
THEOREM Invariance == Spec => []IInv
BY InitIInv, NextIInv, PTL DEF Spec

\* No excess is ever negative (assertions d >= 0 and u->e >= 0 of push).
THEOREM TypeCorrect == Spec => []TypeOK
BY Invariance, PTL DEF IInv

\* The list is exactly the set of nodes with excess: enter_excess neither misses
\* a node nor enters one twice.
THEOREM ListAlwaysExact == Spec => [](ListHoldsTheExcess /\ ListNeverRepeats)
BY Invariance, PTL DEF IInv

-----------------------------------------------------------------------------
(* Refinement: the loop runs PreflowPush *)

Pending == {Adj[s][k] : k \in p + 1 .. Len(Adj[s])}

\* PreflowPush is about the same graph: its definitions are those of FlowGraph.
LEMMA SameGraph ==
    /\ PP!Node = Node /\ PP!Edge = Edge /\ PP!s = s /\ PP!Inner = Inner
    /\ \A a : PP!Incident(a) = Incident(a)
    /\ \A a, x : PP!Other(a, x) = Other(a, x)
    /\ \A fl, ht, a, x : PP!Admissible(fl, ht, a, x) = Admissible(fl, ht, a, x)
    /\ \A fl, ex, a, x : PP!Amount(fl, ex, a, x) = Amount(fl, ex, a, x)
    /\ \A fl, a, x, c : PP!FlowAfter(fl, a, x, c) = FlowAfter(fl, a, x, c)
    /\ \A ex, a, x, c : PP!ExcessAfter(ex, a, x, c) = ExcessAfter(ex, a, x, c)
<1>1. PP!Node = Node /\ PP!Edge = Edge /\ PP!s = s /\ PP!t = t
    BY DEF PP!Node, Node, PP!Edge, Edge, PP!s, s, PP!t, t
<1>2. PP!Inner = Inner
    BY <1>1 DEF PP!Inner, Inner
<1>3. \A a : PP!Incident(a) = Incident(a)
    BY <1>1 DEF PP!Incident, Incident
<1>4. \A a, x : PP!Other(a, x) = Other(a, x)
    BY DEF PP!Other, Other
<1>5. \A fl, a, x : PP!FlowFrom(fl, a, x) = FlowFrom(fl, a, x)
    BY DEF PP!FlowFrom, FlowFrom
<1>6. \A fl, a, x : PP!Residual(fl, a, x) = Residual(fl, a, x)
    BY <1>5 DEF PP!Residual, Residual
<1>7. \A fl, ht, a, x : PP!Admissible(fl, ht, a, x) = Admissible(fl, ht, a, x)
    BY <1>4, <1>5 DEF PP!Admissible, Admissible
<1>8. \A j, k : PP!Lesser(j, k) = Lesser(j, k)
    BY DEF PP!Lesser, Lesser
<1>9. \A fl, ex, a, x : PP!Amount(fl, ex, a, x) = Amount(fl, ex, a, x)
    BY <1>6, <1>8 DEF PP!Amount, Amount
<1>10. \A fl, a, x, c : PP!FlowAfter(fl, a, x, c) = FlowAfter(fl, a, x, c)
    BY DEF PP!FlowAfter, FlowAfter
<1>11. \A ex, a, x, c : PP!ExcessAfter(ex, a, x, c) = ExcessAfter(ex, a, x, c)
    BY <1>4 DEF PP!ExcessAfter, ExcessAfter
<1> QED
    BY <1>1, <1>2, <1>3, <1>4, <1>7, <1>9, <1>10, <1>11

LEMMA InitRefines == Init => PP!Init
<1> SUFFICES ASSUME Init PROVE PP!Init
    OBVIOUS
<1>1. {Adj[s][k] : k \in p + 1 .. Len(Adj[s])} = Incident(s)
  <2>1. p + 1 = 1
      BY DEF Init
  <2>2. \A x \in Incident(s) : \E k \in 1 .. Len(Adj[s]) : Adj[s][k] = x
      BY AdjAssumption, NodeFacts
  <2>3. \A k \in 1 .. Len(Adj[s]) : Adj[s][k] \in Incident(s)
      BY AdjAssumption, NodeFacts
  <2> QED
      BY <2>1, <2>2, <2>3
<1> QED
    BY <1>1, SameGraph DEF Init, PP!Init

LEMMA InitialPushRefines ==
    ASSUME IInv, InitialPush
    PROVE  \E x \in Edge : PP!Saturate(x)
<1>1. PICK x \in Edge :
         /\ x = Adj[s][p + 1] /\ p + 1 \in 1 .. Len(Adj[s]) /\ p' = p + 1
         /\ h' = h /\ f' = FlowAfter(f, s, x, Cap[x])
         /\ e' = [e EXCEPT ![Other(s, x)] = @ + Cap[x]]
    BY InitialPushEffect
<1>2. p \in Nat /\ Len(Adj[s]) \in Nat
    BY NodeFacts, LengthFacts DEF IInv, TypeOK
<1>3. \A k \in p + 1 .. Len(Adj[s]) : k = p + 1 \/ k \in p + 2 .. Len(Adj[s])
    BY <1>2
<1>4. \A k \in p + 2 .. Len(Adj[s]) : k \in p + 1 .. Len(Adj[s]) /\ Adj[s][k] # x
  <2> SUFFICES ASSUME NEW k \in p + 2 .. Len(Adj[s])
               PROVE  k \in p + 1 .. Len(Adj[s]) /\ Adj[s][k] # x
      OBVIOUS
  <2>1. k \in 1 .. Len(Adj[s]) /\ k # p + 1 /\ k \in p + 1 .. Len(Adj[s])
      BY <1>2
  <2> QED
      BY <2>1, <1>1, AdjAssumption, NodeFacts
<1>5. x \in Pending /\ Pending' = Pending \ {x}
  <2>1. Pending = {Adj[s][k] : k \in p + 1 .. Len(Adj[s])} /\ p + 1 \in p + 1 .. Len(Adj[s])
      BY <1>1, <1>2 DEF Pending
  <2>2. p' + 1 = p + 2
      BY <1>1, <1>2
  <2>3. Pending' = {Adj[s][k] : k \in p + 2 .. Len(Adj[s])}
      BY <2>2 DEF Pending
  <2> QED
      BY <2>1, <2>3, <1>1, <1>3, <1>4
<1>6. PP!Saturate(x)
    BY <1>1, <1>5, SameGraph DEF PP!Saturate, Pending
<1> QED
    BY <1>6

LEMMA NothingPending ==
    ASSUME IInv, InLoop
    PROVE  Pending = {}
<1>1. p = Len(Adj[s]) /\ Len(Adj[s]) \in Nat
    BY NodeFacts, LengthFacts DEF InLoop
<1>2. p + 1 .. Len(Adj[s]) = {}
    BY <1>1
<1> QED
    BY <1>2 DEF Pending

LEMMA PushRoundRefines ==
    ASSUME IInv, PushRound
    PROVE  PP!Next
<1>1. PICK a \in Inner : \E x \in Incident(a) :
         /\ e[a] > 0 /\ Admissible(f, h, a, x)
         /\ e' = ExcessAfter(e, a, x, Amount(f, e, a, x))
         /\ f' = FlowAfter(f, a, x, Amount(f, e, a, x))
         /\ h' = h /\ p' = p
    BY PushRoundEffect
<1>2. PICK x \in Incident(a) :
         /\ e[a] > 0 /\ Admissible(f, h, a, x)
         /\ e' = ExcessAfter(e, a, x, Amount(f, e, a, x))
         /\ f' = FlowAfter(f, a, x, Amount(f, e, a, x))
         /\ h' = h /\ p' = p
    BY <1>1
<1>3. Pending = {} /\ Pending' = Pending
    BY <1>2, NothingPending DEF Pending, PushRound
<1>4. PP!Push(a, x)
    BY <1>2, <1>3, SameGraph DEF PP!Push, Pending
<1> QED
    BY <1>4, SameGraph DEF PP!Next

LEMMA RelabelRoundRefines ==
    ASSUME IInv, RelabelRound
    PROVE  PP!Next
<1>1. PICK a \in Inner :
         /\ e[a] > 0 /\ \A x \in Incident(a) : ~Admissible(f, h, a, x)
         /\ h' = [h EXCEPT ![a] = @ + 1]
    BY RelabelRoundEffect
<1>2. e' = e /\ f' = f /\ p' = p
    BY RelabelRoundEffect
<1>3. Pending = {} /\ Pending' = Pending
    BY <1>2, NothingPending DEF Pending, RelabelRound
<1>4. PP!Relabel(a)
    BY <1>1, <1>2, <1>3, SameGraph DEF PP!Relabel, Pending
<1> QED
    BY <1>4, SameGraph DEF PP!Next

LEMMA NextRefines == IInv /\ [Next]_vars => [PP!Next]_(PP!vars)
<1> SUFFICES ASSUME IInv, [Next]_vars PROVE [PP!Next]_(PP!vars)
    OBVIOUS
<1>1. CASE InitialPush
    BY <1>1, InitialPushRefines, SameGraph DEF PP!Next
<1>2. CASE PushRound
    BY <1>2, PushRoundRefines
<1>3. CASE RelabelRound
    BY <1>3, RelabelRoundRefines
<1>4. CASE Return \/ UNCHANGED vars
    BY <1>4 DEF Return, vars, PP!vars
<1> QED
    BY <1>1, <1>2, <1>3, <1>4 DEF Next

\* Every round of the loops is a step of the algorithm: a push along an
\* admissible edge, or a relabelling of a node that has none.
THEOREM Refinement == Spec => ImplementsPreflowPush
<1>1. Spec => PP!Init /\ [][PP!Next]_(PP!vars)
    BY Invariance, InitRefines, NextRefines, PTL DEF Spec
<1> QED
    BY <1>1 DEF ImplementsPreflowPush, PP!Spec

-----------------------------------------------------------------------------
(* What is proved of the algorithm holds of the program *)

Algorithm == INSTANCE PreflowPushProof WITH pending <- Pending

\* The same module instantiated twice: all definitions unfold to one text.
LEMMA SameInit == PP!Init => Algorithm!Init
BY Zenon DEF PP!Init, PP!Node, PP!Edge, PP!s, PP!t, PP!Inner, PP!Incident,
         PP!Other, PP!FlowFrom, PP!Residual, PP!Admissible, PP!Lesser,
         PP!Amount, PP!FlowAfter, PP!ExcessAfter, Algorithm!Init,
         Algorithm!Node, Algorithm!Edge, Algorithm!s, Algorithm!t,
         Algorithm!Inner, Algorithm!Incident, Algorithm!Other,
         Algorithm!FlowFrom, Algorithm!Residual, Algorithm!Admissible,
         Algorithm!Lesser, Algorithm!Amount, Algorithm!FlowAfter,
         Algorithm!ExcessAfter, Pending

LEMMA SameNext == [PP!Next]_(PP!vars) => [Algorithm!Next]_(Algorithm!vars)
BY Zenon DEF PP!vars, Algorithm!vars, PP!Saturate, PP!Push, PP!Relabel, PP!Next, PP!Node, PP!Edge, PP!s,
         PP!t, PP!Inner, PP!Incident, PP!Other, PP!FlowFrom, PP!Residual,
         PP!Admissible, PP!Lesser, PP!Amount, PP!FlowAfter, PP!ExcessAfter,
         Algorithm!Saturate, Algorithm!Push, Algorithm!Relabel,
         Algorithm!Next, Algorithm!Node, Algorithm!Edge, Algorithm!s,
         Algorithm!t, Algorithm!Inner, Algorithm!Incident, Algorithm!Other,
         Algorithm!FlowFrom, Algorithm!Residual, Algorithm!Admissible,
         Algorithm!Lesser, Algorithm!Amount, Algorithm!FlowAfter,
         Algorithm!ExcessAfter, Pending

LEMMA RunsTheAlgorithm == Spec => Algorithm!Spec
<1>1. PP!Init /\ [][PP!Next]_(PP!vars) => Algorithm!Init /\ [][Algorithm!Next]_(Algorithm!vars)
    BY SameInit, SameNext, PTL
<1> QED
    BY <1>1, Refinement DEF ImplementsPreflowPush, PP!Spec, Algorithm!Spec

\* The assumptions of the instance are those of this module.
LEMMA SameInput ==
    /\ Algorithm!Node = Node /\ Algorithm!Edge = Edge
    /\ \A a : Algorithm!Incident(a) = Incident(a)
<1>1. Algorithm!Node = Node /\ Algorithm!Edge = Edge
    BY DEF Algorithm!Node, Node, Algorithm!Edge, Edge
<1> QED
    BY <1>1 DEF Algorithm!Incident, Incident

\* The reference value of the instance is that of this module.
LEMMA SameAnswer == Algorithm!MaxFlowValue = MaxFlowValue
<1>1. Algorithm!Node = Node /\ Algorithm!Edge = Edge /\ Algorithm!s = s /\ Algorithm!t = t
    BY DEF Algorithm!Node, Node, Algorithm!Edge, Edge, Algorithm!s, s, Algorithm!t, t
<1>2. Algorithm!Cuts = Cuts
    BY <1>1, Zenon DEF Algorithm!Cuts, Cuts
<1>3. \A S : Algorithm!Crossing(S) = Crossing(S)
    BY <1>1, Zenon DEF Algorithm!Crossing, Crossing
<1>4. \A S, g : Algorithm!SumOver(S, g) = SumOver(S, g)
    BY Zenon DEF Algorithm!SumOver, SumOver, Algorithm!Sets!MapThenSumSet,
        Sets!MapThenSumSet, Algorithm!Sets!MapThenFoldSet, Sets!MapThenFoldSet
<1> QED
    BY <1>2, <1>3, <1>4, Zenon DEF Algorithm!MaxFlowValue, MaxFlowValue, Algorithm!Sets!Min, Sets!Min

\* preflow returns the value of a maximum flow.
THEOREM AnswerAlwaysMaxFlow == Spec => []AnswerIsMaxFlow
<1>1. Algorithm!Spec => []Algorithm!AnswerIsMaxFlow
    BY Algorithm!AnswerAlwaysMaxFlow, SameInput, SizeAssumption, EdgeAssumption,
       AdjAssumption
<1>2. IInv /\ Algorithm!AnswerIsMaxFlow => AnswerIsMaxFlow
  <2> SUFFICES ASSUME IInv, Algorithm!AnswerIsMaxFlow, result # Running
               PROVE  result = MaxFlowValue
      BY DEF AnswerIsMaxFlow
  <2>1. p = Len(Adj[s]) /\ excess = << >> /\ result = e[t]
      BY DEF IInv, ResultOK
  <2>2. Pending = {}
    <3>1. Len(Adj[s]) \in Nat
        BY NodeFacts, LengthFacts
    <3>2. p + 1 .. Len(Adj[s]) = {}
        BY <2>1, <3>1
    <3> QED
        BY <3>2 DEF Pending
  <2>3. ASSUME NEW a \in Inner PROVE e[a] = 0
    <3>1. a \notin Range(excess)
        BY <2>1, EmptyList
    <3>2. e[a] \in Nat /\ ~(e[a] > 0)
        BY <3>1, NodeFacts DEF IInv, TypeOK, ListHoldsTheExcess
    <3> QED
        BY <3>2
  <2>4. Algorithm!Inner = Inner /\ Algorithm!t = t
      BY DEF Algorithm!Inner, Inner, Algorithm!Node, Node, Algorithm!s, s, Algorithm!t, t
  <2>5. Algorithm!Done
      BY <2>2, <2>3, <2>4 DEF Algorithm!Done
  <2> QED
      BY <2>1, <2>4, <2>5, SameAnswer DEF Algorithm!AnswerIsMaxFlow
<1> QED
    BY <1>1, <1>2, RunsTheAlgorithm, Invariance, PTL

\* No edge carries more than its capacity (assertion abs(e->f) <= e->c of push), and no
\* height reaches 2N.
THEOREM BoundsAlwaysRespected == Spec => [](PP!CapacityRespected /\ PP!HeightBound)
<1>1. Algorithm!Spec => []Algorithm!CapacityRespected /\ []Algorithm!HeightBound
    BY Algorithm!CapacityAlwaysRespected, Algorithm!HeightAlwaysBounded, SameInput,
       SizeAssumption, EdgeAssumption, AdjAssumption
<1>2. /\ Algorithm!CapacityRespected => PP!CapacityRespected
      /\ Algorithm!HeightBound => PP!HeightBound
    BY DEF Algorithm!CapacityRespected, PP!CapacityRespected, Algorithm!Edge, PP!Edge,
        Algorithm!HeightBound, PP!HeightBound, Algorithm!Node, PP!Node
<1> QED
    BY <1>1, <1>2, RunsTheAlgorithm, PTL

LEMMA SameLimit == Algorithm!SourceCapacity = SourceCapacity
<1>1. Algorithm!Incident(Algorithm!s) = Incident(s)
    BY SameInput DEF Algorithm!s, s
<1>2. \A S, g : Algorithm!SumOver(S, g) = SumOver(S, g)
    BY Zenon DEF Algorithm!SumOver, SumOver, Algorithm!Sets!MapThenSumSet,
        Sets!MapThenSumSet, Algorithm!Sets!MapThenFoldSet, Sets!MapThenFoldSet
<1> QED
    BY <1>1, <1>2, Zenon DEF Algorithm!SourceCapacity, SourceCapacity

ExcessBound == \A a \in Node : e[a] <= SourceCapacity

\* No node has more than the edges of the source can carry together, so a sum of
\* capacities that fits an int is all that u->e, v->e and s->e need.
THEOREM ExcessAlwaysBounded == Spec => []ExcessBound
<1>1. Algorithm!Spec => []Algorithm!ExcessBound
    BY Algorithm!ExcessAlwaysBounded, SameInput, SizeAssumption, EdgeAssumption,
       AdjAssumption
<1>2. Algorithm!ExcessBound => ExcessBound
    BY SameInput, SameLimit DEF Algorithm!ExcessBound, ExcessBound
<1> QED
    BY <1>1, <1>2, RunsTheAlgorithm, PTL

=============================================================================
