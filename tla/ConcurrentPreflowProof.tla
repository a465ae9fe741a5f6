----------------------- MODULE ConcurrentPreflowProof -----------------------
(***************************************************************************)
(* Proofs about ConcurrentPreflow, for every graph and number of threads.  *)
(***************************************************************************)
EXTENDS ConcurrentPreflow, FlowGraphProof, FiniteSetTheorems

\* Where a worker has a node, and where it has an edge too.
Working == {"scan", "second", "test", "enter", "unlock",
            "relabel", "reenter", "unlock_u"}
OnEdge  == {"second", "test", "enter", "unlock"}

\* The locks w holds, by where it is.
HeldLocks(w) ==
    CASE pc[w] = "second" -> {First(w)}
      [] pc[w] \in {"test", "enter", "unlock"} -> {u[w], V(w)}
      [] pc[w] \in {"relabel", "reenter", "unlock_u"} -> {u[w]}
      [] OTHER -> {}

LocksOK == \A w \in Worker : \A a \in Node : node_lock[a] = w <=> a \in HeldLocks(w)

\* What the locals of a worker are worth, by where it is.
LocalOK(w) ==
    /\ pc[w] \in Working =>
          u[w] \in Inner /\ edges[w] <= Len(Adj[u[w]]) /\ active_before[w]
    /\ pc[w] \in OnEdge => edges[w] >= 1
    /\ pc[w] = "relabel" => edges[w] = Len(Adj[u[w]])
    /\ pc[w] = "enter" => d[w] > 0
    /\ pc[w] \in {"unborn", "wait", "exited"} => ~active_before[w]

LocalsOK == \A w \in Worker : LocalOK(w)

MainOK ==
    /\ main = "push" =>
          /\ \A w \in Worker : pc[w] = "unborn"
          /\ i = 0
          /\ e[s] = 0
          /\ \A k \in p + 1 .. Len(Adj[s]) : f[Adj[s][k]] = 0
    /\ main # "push" => p = Len(Adj[s])
    /\ main = "create" => \A w \in Worker : pc[w] = "unborn" <=> w > i
    /\ main \in {"join", "returned"} => \A w \in Worker : w <= i => pc[w] = "exited"
    /\ main = "returned" => i = T /\ result = e[t]

\* Once a thread has returned, nobody will ever find work again.
ExitOK ==
    (\E w \in Worker : pc[w] = "exited") =>
        excess = << >> /\ \A w \in Worker : ~active_before[w]

IInv ==
    /\ TypeOK
    /\ LocalsOK
    /\ LocksOK
    /\ MainOK
    /\ ListNeverRepeats
    /\ ExcessHasOneKeeper
    /\ PassedEdgesStayInadmissible
    /\ ActiveCountIsExact
    /\ ExitOK

-----------------------------------------------------------------------------
(* The graph *)

LEMMA GraphFacts ==
    /\ s \in Node /\ t \in Node /\ s # t
    /\ \A a : a \in Inner <=> a \in Node /\ a \notin {s, t}
    /\ Node \subseteq Int
    /\ 0 \notin Worker /\ Free \notin Worker /\ NoNode \notin Node /\ Worker \subseteq Int
BY SizeAssumption DEF Node, Inner, s, t, Worker, Free, NoNode

-----------------------------------------------------------------------------
(* The list of nodes with excess *)

LEMMA EnteredFacts ==
    ASSUME NEW list \in Seq(Inner), NEW a \in Node
    PROVE  /\ Entered(list, a) \in Seq(Inner)
           /\ Range(Entered(list, a)) = Range(list) \cup ({a} \cap Inner)
           /\ IsInjective(list) /\ a \notin Range(list) => IsInjective(Entered(list, a))
           /\ Entered(list, a) = << >> => list = << >> /\ a \notin Inner
<1>1. CASE a \in {s, t}
    BY <1>1, GraphFacts DEF Entered
<1>2. CASE a \notin {s, t}
    BY <1>2, GraphFacts, FrontFacts DEF Entered, InFront
<1> QED
    BY <1>1, <1>2

-----------------------------------------------------------------------------
(* What a worker's step leaves alone *)

\* The others keep their locals; at most they are woken.
OthersOnlyWake(w) ==
    \A z \in Worker \ {w} :
        /\ u'[z] = u[z] /\ edges'[z] = edges[z] /\ d'[z] = d[z]
        /\ active_before'[z] = active_before[z]
        /\ pc'[z] = pc[z] \/ (pc[z] = "wait" /\ pc'[z] = "take")

LEMMA BroadcastFacts ==
    ASSUME NEW pcs \in [Worker -> PC]
    PROVE  /\ Broadcast(pcs) \in [Worker -> PC]
           /\ \A z \in Worker : \/ Broadcast(pcs)[z] = pcs[z] /\ pcs[z] # "wait"
                                \/ pcs[z] = "wait" /\ Broadcast(pcs)[z] = "take"
BY DEF Broadcast, PC

LEMMA SignalledFacts ==
    ASSUME NEW pcs \in [Worker -> PC], NEW new \in Signalled(pcs)
    PROVE  /\ new \in [Worker -> PC]
           /\ \A z \in Worker : \/ new[z] = pcs[z]
                                \/ pcs[z] = "wait" /\ new[z] = "take"
BY DEF Signalled, PC

LEMMA ExitFrame ==
    ASSUME TypeOK, NEW w \in Worker, Exit(w)
    PROVE  /\ pc[w] = "take" /\ pc'[w] = "exited"
           /\ pc' \in [Worker -> PC]
           /\ \A z \in Worker \ {w} : pc'[z] = pc[z] \/ (pc[z] = "wait" /\ pc'[z] = "take")
<1> DEFINE done == [pc EXCEPT ![w] = "exited"]
<1>1. /\ pc[w] = "take"
      /\ done \in [Worker -> PC] /\ done[w] = "exited"
      /\ \A z \in Worker \ {w} : done[z] = pc[z]
      /\ pc' \in Signalled(done)
    BY DEF Exit, LeavePool, At, TypeOK, PC
<1> HIDE DEF done
<1> QED
    BY <1>1, SignalledFacts

LEMMA EnterPushedFrame ==
    ASSUME TypeOK, NEW w \in Worker, EnterPushed(w)
    PROVE  /\ pc[w] = "enter" /\ pc'[w] = "unlock"
           /\ pc' \in [Worker -> PC]
           /\ \A z \in Worker \ {w} : pc'[z] = pc[z] \/ (pc[z] = "wait" /\ pc'[z] = "take")
<1> DEFINE done == [pc EXCEPT ![w] = "unlock"]
<1>1. /\ pc[w] = "enter"
      /\ done \in [Worker -> PC] /\ done[w] = "unlock"
      /\ \A z \in Worker \ {w} : done[z] = pc[z]
      /\ pc' = done \/ pc' = Broadcast(done)
    BY DEF EnterPushed, At, TypeOK, PC
<1> HIDE DEF done
<1> QED
    BY <1>1, BroadcastFacts

LEMMA EnterRelabelledFrame ==
    ASSUME TypeOK, NEW w \in Worker, EnterRelabelled(w)
    PROVE  /\ pc[w] = "reenter" /\ pc'[w] = "unlock_u"
           /\ pc' \in [Worker -> PC]
           /\ \A z \in Worker \ {w} : pc'[z] = pc[z] \/ (pc[z] = "wait" /\ pc'[z] = "take")
<1> DEFINE done == [pc EXCEPT ![w] = "unlock_u"]
<1>1. /\ pc[w] = "reenter"
      /\ done \in [Worker -> PC] /\ done[w] = "unlock_u"
      /\ \A z \in Worker \ {w} : done[z] = pc[z]
      /\ pc' = done \/ pc' = Broadcast(done)
    BY DEF EnterRelabelled, At, TypeOK, PC
<1> HIDE DEF done
<1> QED
    BY <1>1, BroadcastFacts

LEMMA WorkerFrame ==
    ASSUME TypeOK, NEW w \in Worker, WorkerStep(w) \/ SpuriousWakeup(w)
    PROVE  /\ main \in {"create", "join"}
           /\ UNCHANGED <<main, p, i, result>>
           /\ OthersOnlyWake(w)
<1> USE DEF TypeOK, OthersOnlyWake, At, Goto, graphVars, poolVars, localVars, mainVars
<1>1. CASE TakeNode(w)
    BY <1>1 DEF TakeNode
<1>2. CASE Exit(w)
    BY <1>2, ExitFrame DEF Exit, LeavePool
<1>3. CASE Wait(w)
    BY <1>3 DEF Wait, LeavePool
<1>4. CASE LockFirst(w)
    BY <1>4 DEF LockFirst
<1>5. CASE LockSecond(w) \/ Skip(w) \/ LockForRelabel(w) \/ Relabel(w) \/ SpuriousWakeup(w)
    BY <1>5 DEF LockSecond, Skip, PassOver, LockForRelabel, Relabel, SpuriousWakeup
<1>6. CASE Push(w)
    BY <1>6 DEF Push
<1>7. CASE EnterPushed(w)
    BY <1>7, EnterPushedFrame DEF EnterPushed
<1>8. CASE FinishPush(w)
    BY <1>8 DEF FinishPush
<1>9. CASE EnterRelabelled(w)
    BY <1>9, EnterRelabelledFrame DEF EnterRelabelled
<1>10. CASE FinishRelabel(w)
    BY <1>10 DEF FinishRelabel
<1> QED
    BY <1>1, <1>2, <1>3, <1>4, <1>5, <1>6, <1>7, <1>8, <1>9, <1>10 DEF WorkerStep

\* So their locks, their passed links and the edges in their hands stay.
LEMMA OthersKeep ==
    ASSUME NEW w \in Worker, OthersOnlyWake(w), NEW z \in Worker \ {w}
    PROVE  /\ X(z)' = X(z) /\ V(z)' = V(z)
           /\ HeldLocks(z)' = HeldLocks(z)
           /\ Passed(z)' = Passed(z)
           /\ pc[z] # "enter" => Owned(z)' = Owned(z)
           /\ pc[z] = "enter" /\ e'[u[z]] = e[u[z]] /\ e'[V(z)] = e[V(z)]
                  => Owned(z)' = Owned(z)
<1>1. /\ u'[z] = u[z] /\ edges'[z] = edges[z] /\ d'[z] = d[z]
      /\ pc'[z] = pc[z] \/ (pc[z] = "wait" /\ pc'[z] = "take")
    BY DEF OthersOnlyWake
<1>2. X(z)' = X(z) /\ V(z)' = V(z)
    BY <1>1 DEF X, V
<1>3. CASE pc'[z] = pc[z]
  <2>1. HeldLocks(z)' = HeldLocks(z)
      BY <1>1, <1>2, <1>3 DEF HeldLocks, First
  <2>2. Passed(z)' = Passed(z)
      BY <1>1, <1>2, <1>3 DEF Passed
  <2>3. pc[z] # "enter" => Owned(z)' = Owned(z)
      BY <1>1, <1>3 DEF Owned
  <2>4. pc[z] = "enter" /\ e'[u[z]] = e[u[z]] /\ e'[V(z)] = e[V(z)]
            => Owned(z)' = Owned(z)
    <3> SUFFICES ASSUME pc[z] = "enter", e'[u[z]] = e[u[z]], e'[V(z)] = e[V(z)]
                 PROVE  Owned(z)' = Owned(z)
        OBVIOUS
    <3>1. Owned(z) = {a \in Inner : \/ a = u[z] /\ e[a] > 0
                                    \/ a = V(z) /\ e[a] = d[z]}
        BY DEF Owned
    <3>2. Owned(z)' = {a \in Inner : \/ a = u[z] /\ e'[a] > 0
                                     \/ a = V(z) /\ e'[a] = d[z]}
        BY <1>1, <1>2, <1>3 DEF Owned
    <3> QED
        BY <3>1, <3>2
  <2> QED
      BY <1>2, <2>1, <2>2, <2>3, <2>4
<1>4. CASE pc[z] = "wait" /\ pc'[z] = "take"
    BY <1>2, <1>4 DEF HeldLocks, Passed, Owned
<1> QED
    BY <1>1, <1>2, <1>3, <1>4

-----------------------------------------------------------------------------
(* What a worker has in hand *)

LEMMA InHand ==
    ASSUME TypeOK, LocalsOK, NEW w \in Worker, pc[w] \in OnEdge
    PROVE  /\ u[w] \in Inner /\ u[w] \in Node
           /\ edges[w] \in 1 .. Len(Adj[u[w]])
           /\ X(w) \in Edge /\ X(w) \in Incident(u[w])
           /\ u[w] \in {EdgeU[X(w)], EdgeV[X(w)]}
           /\ V(w) \in Node /\ V(w) # u[w]
           /\ Other(V(w), X(w)) = u[w]
<1>1. u[w] \in Inner /\ u[w] \in Node /\ edges[w] \in 1 .. Len(Adj[u[w]])
    BY GraphFacts, LengthFacts DEF TypeOK, LocalsOK, LocalOK, OnEdge, Working
<1>2. /\ X(w) \in Edge /\ X(w) \in Incident(u[w])
      /\ u[w] \in {EdgeU[X(w)], EdgeV[X(w)]}
      /\ V(w) \in Node /\ V(w) # u[w]
    BY <1>1, LinkFacts DEF X, V
<1>3. Other(V(w), X(w)) = u[w]
    BY <1>2, EdgeAssumption DEF V, Other
<1> QED
    BY <1>1, <1>2, <1>3

\* What Push does to the graph, in the case it is called.
LEMMA PushEffect ==
    ASSUME TypeOK, LocalsOK, NEW w \in Worker, Push(w)
    PROVE  LET amount == Amount(f, e, u[w], X(w))
           IN  /\ amount \in Nat
               /\ amount <= e[u[w]]
               /\ e[u[w]] > 0 => amount > 0
               /\ e' = [e EXCEPT ![u[w]] = @ - amount, ![V(w)] = @ + amount]
               /\ e'[u[w]] = e[u[w]] - amount
               /\ e'[V(w)] = e[V(w)] + amount
               /\ \A a \in Node \ {u[w], V(w)} : e'[a] = e[a]
               /\ f' \in [Edge -> Int]
               /\ \A x \in Edge \ {X(w)} : f'[x] = f[x]
               /\ d' = [d EXCEPT ![w] = amount]
               /\ pc[w] = "test"
               /\ pc' = [pc EXCEPT ![w] = IF e'[u[w]] > 0 \/ e'[V(w)] = amount
                                          THEN "enter" ELSE "unlock"]
               /\ h[u[w]] > h[V(w)]
<1> DEFINE amount == Amount(f, e, u[w], X(w))
<1>1. /\ pc[w] = "test"
      /\ h[u[w]] > h[V(w)] /\ FlowFrom(f, u[w], X(w)) < Cap[X(w)]
      /\ f' = FlowAfter(f, u[w], X(w), amount)
      /\ e' = [e EXCEPT ![u[w]] = @ - amount, ![V(w)] = @ + amount]
      /\ d' = [d EXCEPT ![w] = amount]
      /\ pc' = [pc EXCEPT ![w] = IF e'[u[w]] > 0 \/ e'[V(w)] = amount
                                 THEN "enter" ELSE "unlock"]
    BY DEF Push, At, Goto, Admissible, ExcessAfter, V
<1>2. /\ u[w] \in Node /\ X(w) \in Edge /\ V(w) \in Node /\ V(w) # u[w]
    BY <1>1, InHand DEF OnEdge
<1>3. /\ f[X(w)] \in Int /\ Cap[X(w)] \in Nat /\ e[u[w]] \in Nat /\ e[V(w)] \in Nat
    BY <1>2, EdgeAssumption DEF TypeOK
<1>4. /\ amount \in Nat /\ amount <= e[u[w]] /\ (e[u[w]] > 0 => amount > 0)
    BY <1>1, <1>3 DEF Amount, Lesser, Residual, FlowFrom
<1> HIDE DEF amount
<1>5. f' = [f EXCEPT ![X(w)] = IF u[w] = EdgeU[X(w)] THEN @ + amount ELSE @ - amount]
    BY <1>1 DEF FlowAfter
<1>6. /\ f' \in [Edge -> Int]
      /\ \A x \in Edge \ {X(w)} : f'[x] = f[x]
    BY <1>2, <1>3, <1>4, <1>5 DEF TypeOK
<1>7. /\ e'[u[w]] = e[u[w]] - amount
      /\ e'[V(w)] = e[V(w)] + amount
      /\ \A a \in Node \ {u[w], V(w)} : e'[a] = e[a]
    BY <1>1, <1>2, <1>3, <1>4 DEF TypeOK
<1> QED
    BY <1>1, <1>4, <1>6, <1>7 DEF amount

\* What an initial push does: it saturates the edge.
LEMMA InitialPushEffect ==
    ASSUME TypeOK, MainOK, InitialPush
    PROVE  LET x == Adj[s][p + 1]
               v == Other(s, x)
           IN  /\ main = "push" /\ p' = p + 1
               /\ p + 1 \in 1 .. Len(Adj[s])
               /\ x \in Edge /\ x \in Incident(s)
               /\ v \in Node /\ v # s
               /\ f' = FlowAfter(f, s, x, Cap[x])
               /\ f' \in [Edge -> Int]
               /\ \A y \in Edge \ {x} : f'[y] = f[y]
               /\ e' = [e EXCEPT ![v] = @ + Cap[x]]
               /\ e'[v] = e[v] + Cap[x] /\ Cap[x] \in Nat /\ Cap[x] > 0
               /\ e[s] = 0
               /\ excess' = IF e[v] = 0 THEN Entered(excess, v) ELSE excess
<1> DEFINE x == Adj[s][p + 1]
           v == Other(s, x)
           given == [e EXCEPT ![s] = @ + Cap[x]]
           amount == Amount(f, given, s, x)
<1>1. /\ main = "push" /\ p' = p + 1
      /\ f' = FlowAfter(f, s, x, amount)
      /\ e' = ExcessAfter(given, s, x, amount)
      /\ excess' = IF e'[v] = amount THEN Entered(excess, v) ELSE excess
    BY DEF InitialPush
<1>2. p + 1 \in 1 .. Len(Adj[s]) /\ p + 1 \in p + 1 .. Len(Adj[s])
    BY GraphFacts, LengthFacts DEF InitialPush, TypeOK
<1>3. /\ x \in Edge /\ x \in Incident(s) /\ v \in Node /\ v # s /\ s \in Node
    BY <1>2, GraphFacts, LinkFacts
<1>4. /\ f[x] = 0 /\ e[s] = 0 /\ e[v] \in Nat /\ Cap[x] \in Nat /\ Cap[x] > 0
    BY <1>1, <1>2, <1>3, EdgeAssumption DEF MainOK, TypeOK
<1>5. given[s] = Cap[x] /\ given[v] = e[v]
    BY <1>3, <1>4 DEF TypeOK
<1>6. amount = Cap[x]
    BY <1>4, <1>5 DEF Amount, Lesser, Residual, FlowFrom
<1>7. e' = [given EXCEPT ![s] = @ - Cap[x], ![v] = @ + Cap[x]]
    BY <1>1, <1>6 DEF ExcessAfter
<1> HIDE DEF x, v, amount
<1>8. e' = [e EXCEPT ![v] = @ + Cap[x]]
    BY <1>3, <1>4, <1>7 DEF TypeOK
<1>9. e'[v] = e[v] + Cap[x] /\ (e'[v] = Cap[x] <=> e[v] = 0)
    BY <1>3, <1>4, <1>8 DEF TypeOK
<1>10. f' = [f EXCEPT ![x] = IF s = EdgeU[x] THEN @ + Cap[x] ELSE @ - Cap[x]]
    BY <1>1, <1>6 DEF FlowAfter
<1>11. /\ f' \in [Edge -> Int]
       /\ \A y \in Edge \ {x} : f'[y] = f[y]
    BY <1>3, <1>4, <1>10 DEF TypeOK
<1> QED
    BY <1>1, <1>2, <1>3, <1>4, <1>6, <1>8, <1>9, <1>11 DEF x, v

-----------------------------------------------------------------------------
(* The count of active threads *)

Active == {w \in Worker : active_before[w]}

LEMMA ActiveFacts ==
    /\ IsFiniteSet(Active)
    /\ Cardinality(Active) \in Nat
    /\ \A w \in Active : Cardinality(Active) > 0
<1>1. IsFiniteSet(Worker)
    BY FS_Interval, ThreadAssumption DEF Worker
<1>2. IsFiniteSet(Active)
    BY <1>1, FS_Subset DEF Active
<1>3. Cardinality(Active) \in Nat /\ (Cardinality(Active) = 0 <=> Active = {})
    BY <1>2, FS_CardinalityType, FS_EmptySet
<1> QED
    BY <1>2, <1>3

\* Leaving the pool discounts a worker once, and only if it was counted.
LEMMA LeavePoolEffect ==
    ASSUME TypeOK, ActiveCountIsExact, NEW w \in Worker, LeavePool(w)
    PROVE  /\ active_thread' \in Nat
           /\ active_thread' = ActiveAfterLeaving(w)
           /\ ActiveCountIsExact'
           /\ active_thread' = 0 => \A z \in Worker : ~active_before'[z]
<1>1. /\ active_thread' = ActiveAfterLeaving(w)
      /\ active_before' = [active_before EXCEPT ![w] = FALSE]
      /\ active_thread = Cardinality(Active)
    BY DEF LeavePool, ActiveCountIsExact, Active
<1>2. Active' = Active \ {w}
    BY <1>1 DEF Active, TypeOK
<1>3. IsFiniteSet(Active) /\ Cardinality(Active) \in Nat
    BY ActiveFacts
<1>4. Cardinality(Active \ {w}) = IF w \in Active THEN Cardinality(Active) - 1
                                                 ELSE Cardinality(Active)
    BY <1>3, FS_RemoveElement
<1>5. active_thread' = Cardinality(Active')
    BY <1>1, <1>2, <1>4 DEF ActiveAfterLeaving, Active
<1>6. IsFiniteSet(Active') /\ Cardinality(Active') \in Nat
      /\ (Cardinality(Active') = 0 <=> Active' = {})
    BY <1>2, <1>3, FS_RemoveElement, FS_CardinalityType, FS_EmptySet
<1> QED
    BY <1>1, <1>5, <1>6 DEF ActiveCountIsExact, Active

\* Taking a node counts a worker once, however often it takes one.
LEMMA TakeNodeCount ==
    ASSUME TypeOK, ActiveCountIsExact, NEW w \in Worker, TakeNode(w)
    PROVE  active_thread' \in Nat /\ ActiveCountIsExact'
<1>1. /\ active_thread' = IF active_before[w] THEN active_thread ELSE active_thread + 1
      /\ active_before' = [active_before EXCEPT ![w] = TRUE]
      /\ active_thread = Cardinality(Active)
    BY DEF TakeNode, ActiveCountIsExact, Active
<1>2. Active' = Active \cup {w}
    BY <1>1 DEF Active, TypeOK
<1>3. IsFiniteSet(Active) /\ Cardinality(Active) \in Nat
    BY ActiveFacts
<1>4. Cardinality(Active \cup {w}) = IF w \in Active THEN Cardinality(Active)
                                                   ELSE Cardinality(Active) + 1
    BY <1>3, FS_AddElement
<1>5. active_thread' = Cardinality(Active')
    BY <1>1, <1>2, <1>4 DEF Active
<1>6. active_thread' \in Nat
    BY <1>1 DEF TypeOK
<1> QED
    BY <1>5, <1>6 DEF ActiveCountIsExact, Active

LEMMA WorkerActiveCount ==
    ASSUME TypeOK, ActiveCountIsExact, NEW w \in Worker,
           WorkerStep(w) \/ SpuriousWakeup(w)
    PROVE  active_thread' \in Nat /\ ActiveCountIsExact'
<1>1. CASE TakeNode(w)
    BY <1>1, TakeNodeCount
<1>2. CASE Exit(w) \/ Wait(w)
    BY <1>2, LeavePoolEffect DEF Exit, Wait
<1>3. CASE UNCHANGED <<active_thread, active_before>>
    BY <1>3 DEF ActiveCountIsExact, TypeOK
<1>4. \/ LockFirst(w) \/ LockSecond(w) \/ Skip(w) \/ SpuriousWakeup(w)
      \/ LockForRelabel(w) \/ Relabel(w) \/ FinishRelabel(w)
      => UNCHANGED <<active_thread, active_before>>
    BY DEF LockFirst, LockSecond, Skip, PassOver, SpuriousWakeup, LockForRelabel,
        Relabel, FinishRelabel, poolVars
<1>5. Push(w) \/ EnterPushed(w) \/ FinishPush(w) \/ EnterRelabelled(w)
      => UNCHANGED <<active_thread, active_before>>
    BY DEF Push, EnterPushed, FinishPush, EnterRelabelled, poolVars
<1> QED
    BY <1>1, <1>2, <1>3, <1>4, <1>5 DEF WorkerStep

-----------------------------------------------------------------------------
(* The type invariant *)

LEMMA MainTypeOK ==
    ASSUME TypeOK, MainOK, MainStep
    PROVE  TypeOK'
<1>1. CASE InitialPush
  <2>1. Entered(excess, Other(s, Adj[s][p + 1])) \in Seq(Inner)
      BY <1>1, InitialPushEffect, EnteredFacts DEF TypeOK
  <2>2. excess' \in Seq(Inner)
      BY <1>1, <2>1, InitialPushEffect DEF TypeOK
  <2>3. f' \in [Edge -> Int] /\ e' \in [Node -> Nat]
    <3> DEFINE v == Other(s, Adj[s][p + 1])
               c == Cap[Adj[s][p + 1]]
    <3>1. /\ f' \in [Edge -> Int]
          /\ e' = [e EXCEPT ![v] = @ + c]
          /\ v \in Node /\ c \in Nat
        BY <1>1, InitialPushEffect
    <3> HIDE DEF v, c
    <3> QED
        BY <3>1 DEF TypeOK
  <2>4. p' \in 0 .. Len(Adj[s])
      BY <1>1, InitialPushEffect, GraphFacts, LengthFacts DEF TypeOK
  <2> QED
      BY <1>1, <2>2, <2>3, <2>4 DEF InitialPush, TypeOK, localVars
<1>2. CASE CreateThread
  <2>1. i + 1 \in 1 .. T /\ i' = i + 1
      BY <1>2, ThreadAssumption DEF CreateThread, TypeOK
  <2>2. pc' \in [Worker -> PC]
      BY <1>2 DEF CreateThread, TypeOK, PC
  <2>3. i' \in 0 .. T
      BY <2>1, ThreadAssumption
  <2> QED
      BY <1>2, <2>2, <2>3 DEF CreateThread, NotMains, TypeOK, graphVars, poolVars, localVars
<1>3. CASE InitialPushesDone \/ CreateFails
    BY <1>3 DEF InitialPushesDone, CreateFails, NotMains, TypeOK,
        graphVars, poolVars, localVars
<1>4. CASE AllCreated \/ JoinThread
  <2>1. i' \in 0 .. T
      BY <1>4, ThreadAssumption DEF AllCreated, JoinThread, JoinNext, TypeOK
  <2> QED
      BY <1>4, <2>1 DEF AllCreated, JoinThread, JoinNext, NotMains, TypeOK,
          graphVars, poolVars, localVars
<1>5. CASE Return
  <2>1. result' \in Nat
      BY <1>5, GraphFacts DEF Return, TypeOK
  <2> QED
      BY <1>5, <2>1 DEF Return, NotMains, TypeOK, graphVars, poolVars, localVars
<1> QED
    BY <1>1, <1>2, <1>3, <1>4, <1>5 DEF MainStep

LEMMA WorkerTypeOK ==
    ASSUME TypeOK, LocalsOK, ListNeverRepeats, ActiveCountIsExact,
           NEW w \in Worker, WorkerStep(w) \/ SpuriousWakeup(w)
    PROVE  TypeOK'
<1>a. /\ active_thread' \in Nat
      /\ UNCHANGED <<main, p, i, result>>
    BY WorkerActiveCount, WorkerFrame
<1> USE <1>a DEF TypeOK, At, Goto, graphVars, poolVars, localVars, mainVars
<1>1. CASE TakeNode(w)
  <2>1. Head(excess) \in Inner /\ Tail(excess) \in Seq(Inner)
      BY <1>1, LeaveFacts DEF TakeNode, ListNeverRepeats
  <2>2. u' \in [Worker -> Inner \cup {NoNode}] /\ excess' \in Seq(Inner)
      BY <1>1, <2>1 DEF TakeNode
  <2>3. /\ pc' \in [Worker -> PC] /\ edges' \in [Worker -> Nat]
        /\ active_before' \in [Worker -> BOOLEAN]
        /\ UNCHANGED <<h, e, f, node_lock, d>>
      BY <1>1 DEF TakeNode, PC
  <2> QED
      BY <2>2, <2>3
<1>2. CASE Exit(w) \/ Wait(w)
  <2>1. pc' \in [Worker -> PC]
      BY <1>2, ExitFrame DEF Wait, PC
  <2>2. /\ active_before' \in [Worker -> BOOLEAN]
        /\ UNCHANGED <<h, e, f, excess, node_lock, u, edges, d>>
      BY <1>2 DEF Exit, Wait, LeavePool
  <2> QED
      BY <2>1, <2>2
<1>3. CASE SpuriousWakeup(w)
    BY <1>3 DEF SpuriousWakeup, PC
<1>4. CASE LockFirst(w)
  <2>1. pc' \in [Worker -> PC]
      BY <1>4 DEF LockFirst, PC
  <2>2. edges' \in [Worker -> Nat]
      BY <1>4 DEF LockFirst
  <2>3. node_lock' \in [Node -> Worker \cup {Free}]
    <3> DEFINE a == LowerFirst(u[w], Other(u[w], Adj[u[w]][edges[w] + 1]))
    <3>1. node_lock' = [node_lock EXCEPT ![a] = w]
        BY <1>4 DEF LockFirst
    <3> HIDE DEF a
    <3> QED
        BY <3>1
  <2> QED
      BY <1>4, <2>1, <2>2, <2>3 DEF LockFirst
<1>5. CASE LockSecond(w) \/ Skip(w) \/ LockForRelabel(w)
  <2>1. /\ pc' \in [Worker -> PC]
        /\ node_lock' \in [Node -> Worker \cup {Free}]
      BY <1>5 DEF LockSecond, Skip, PassOver, UnlockBoth, LockForRelabel, PC
  <2> QED
      BY <1>5, <2>1 DEF LockSecond, Skip, PassOver, LockForRelabel
<1>6. CASE Push(w)
  <2> DEFINE amount == Amount(f, e, u[w], X(w))
  <2>1. /\ amount \in Nat /\ amount <= e[u[w]] /\ e[u[w]] \in Nat /\ e[V(w)] \in Nat
        /\ e' = [e EXCEPT ![u[w]] = @ - amount, ![V(w)] = @ + amount]
        /\ f' \in [Edge -> Int]
        /\ d' = [d EXCEPT ![w] = amount]
        /\ pc' = [pc EXCEPT ![w] = IF e'[u[w]] > 0 \/ e'[V(w)] = amount
                                   THEN "enter" ELSE "unlock"]
        /\ u[w] \in Node /\ V(w) \in Node /\ V(w) # u[w]
        /\ e'[u[w]] = e[u[w]] - amount /\ e'[V(w)] = e[V(w)] + amount
        /\ \A a \in Node \ {u[w], V(w)} : e'[a] = e[a]
      BY <1>6, PushEffect, InHand DEF OnEdge
  <2> HIDE DEF amount
  <2>2. e' \in [Node -> Nat]
    <3>1. \A a \in Node : e'[a] \in Nat
        BY <2>1
    <3>2. e' = [a \in Node |-> e'[a]]
        BY <2>1
    <3> QED
        BY <3>1, <3>2
  <2>3. d' \in [Worker -> Nat] /\ pc' \in [Worker -> PC]
      BY <2>1 DEF PC
  <2> QED
      BY <1>6, <2>1, <2>2, <2>3 DEF Push
<1>7. CASE EnterPushed(w)
  <2>1. u[w] \in Node /\ V(w) \in Node
      BY <1>7, InHand DEF EnterPushed, OnEdge
  <2>2. excess' \in Seq(Inner)
      BY <1>7, <2>1, EnteredFacts DEF EnterPushed
  <2> QED
      BY <1>7, <2>2, EnterPushedFrame DEF EnterPushed
<1>8. CASE FinishPush(w)
  <2>1. /\ pc' \in [Worker -> PC]
        /\ node_lock' \in [Node -> Worker \cup {Free}]
      BY <1>8 DEF FinishPush, UnlockBoth, PC
  <2> QED
      BY <1>8, <2>1 DEF FinishPush
<1>9. CASE Relabel(w)
  <2>1. h' \in [Node -> Nat]
    <3>1. h' = [h EXCEPT ![u[w]] = h[u[w]] + 1]
        BY <1>9 DEF Relabel
    <3>2. u[w] \in Node
        BY <1>9, GraphFacts DEF Relabel, LocalsOK, LocalOK, Working
    <3>3. h[u[w]] + 1 \in Nat
        BY <3>2
    <3> QED
        BY <3>1, <3>3
  <2>2. pc' \in [Worker -> PC]
      BY <1>9 DEF Relabel, PC
  <2> QED
      BY <1>9, <2>1, <2>2 DEF Relabel
<1>10. CASE EnterRelabelled(w)
  <2>1. u[w] \in Node
      BY <1>10, GraphFacts DEF EnterRelabelled, LocalsOK, LocalOK, Working
  <2>2. excess' \in Seq(Inner)
      BY <1>10, <2>1, EnteredFacts DEF EnterRelabelled
  <2> QED
      BY <1>10, <2>2, EnterRelabelledFrame DEF EnterRelabelled
<1>11. CASE FinishRelabel(w)
  <2>1. /\ pc' \in [Worker -> PC]
        /\ node_lock' \in [Node -> Worker \cup {Free}]
      BY <1>11 DEF FinishRelabel, PC
  <2> QED
      BY <1>11, <2>1 DEF FinishRelabel
<1> QED
    BY <1>1, <1>2, <1>3, <1>4, <1>5, <1>6, <1>7, <1>8, <1>9, <1>10, <1>11 DEF WorkerStep

-----------------------------------------------------------------------------
(* The locals of the workers *)

LEMMA WorkerLocalsOK ==
    ASSUME TypeOK, LocalsOK, ListNeverRepeats, ExcessHasOneKeeper,
           NEW w \in Worker, WorkerStep(w) \/ SpuriousWakeup(w)
    PROVE  LocalsOK'
<1>a. OthersOnlyWake(w)
    BY WorkerFrame
<1>b. ASSUME NEW z \in Worker \ {w} PROVE LocalOK(z)'
    BY <1>a DEF OthersOnlyWake, LocalsOK, LocalOK, Working, OnEdge
<1>c. LocalOK(w)
    BY DEF LocalsOK
<1> USE DEF TypeOK, At, Goto, localVars, poolVars, LocalOK, Working, OnEdge
<1>1. CASE TakeNode(w)
  <2>1. /\ pc'[w] = "scan" /\ u'[w] = Head(excess) /\ edges'[w] = 0 /\ active_before'[w]
        /\ Head(excess) \in Inner /\ Head(excess) \in Node
      BY <1>1, LeaveFacts, GraphFacts DEF TakeNode, ListNeverRepeats
  <2>2. Len(Adj[Head(excess)]) \in Nat
      BY <2>1, LengthFacts
  <2>3. LocalOK(w)'
      BY <2>1, <2>2
  <2> QED
      BY <1>b, <2>3 DEF LocalsOK
<1>2. CASE Exit(w) \/ Wait(w)
  <2>1. pc'[w] \in {"exited", "wait"} /\ ~active_before'[w]
      BY <1>2, ExitFrame DEF Exit, Wait, LeavePool
  <2>2. LocalOK(w)'
      BY <2>1
  <2> QED
      BY <1>b, <2>2 DEF LocalsOK
<1>3. CASE SpuriousWakeup(w)
  <2>1. LocalOK(w)'
      BY <1>3 DEF SpuriousWakeup
  <2> QED
      BY <1>b, <2>1 DEF LocalsOK
<1>4. CASE LockFirst(w)
  <2>1. /\ pc[w] = "scan" /\ pc'[w] = "second" /\ u'[w] = u[w]
        /\ edges'[w] = edges[w] + 1 /\ edges[w] < Len(Adj[u[w]])
        /\ active_before'[w] = active_before[w]
      BY <1>4 DEF LockFirst
  <2>2. u[w] \in Inner /\ Len(Adj[u[w]]) \in Nat /\ edges[w] \in Nat /\ active_before[w]
      BY <2>1, <1>c, GraphFacts, LengthFacts
  <2>3. LocalOK(w)'
      BY <2>1, <2>2
  <2> QED
      BY <1>b, <2>3 DEF LocalsOK
<1>5. CASE LockSecond(w) \/ Skip(w)
  <2>1. LocalOK(w)'
      BY <1>5, <1>c DEF LockSecond, Skip, PassOver
  <2> QED
      BY <1>b, <2>1 DEF LocalsOK
<1>6. CASE LockForRelabel(w)
  <2>1. LocalOK(w)'
      BY <1>6, <1>c DEF LockForRelabel, NoLinkLeft
  <2> QED
      BY <1>b, <2>1 DEF LocalsOK
<1>7. CASE Push(w)
  <2> DEFINE amount == Amount(f, e, u[w], X(w))
  <2>1. e[u[w]] > 0
      BY <1>7, <1>c DEF Push, ExcessHasOneKeeper, Owned
  <2>2. /\ amount > 0 /\ d'[w] = amount
        /\ pc[w] = "test" /\ pc'[w] \in {"enter", "unlock"}
      BY <1>7, <2>1, PushEffect
  <2> HIDE DEF amount
  <2>3. LocalOK(w)'
      BY <1>7, <1>c, <2>2 DEF Push
  <2> QED
      BY <1>b, <2>3 DEF LocalsOK
<1>8. CASE EnterPushed(w)
  <2>1. LocalOK(w)'
      BY <1>8, <1>c, EnterPushedFrame DEF EnterPushed
  <2> QED
      BY <1>b, <2>1 DEF LocalsOK
<1>9. CASE FinishPush(w) \/ FinishRelabel(w)
  <2>1. LocalOK(w)'
      BY <1>9 DEF FinishPush, FinishRelabel
  <2> QED
      BY <1>b, <2>1 DEF LocalsOK
<1>10. CASE Relabel(w)
  <2>1. LocalOK(w)'
      BY <1>10, <1>c DEF Relabel
  <2> QED
      BY <1>b, <2>1 DEF LocalsOK
<1>11. CASE EnterRelabelled(w)
  <2>1. LocalOK(w)'
      BY <1>11, <1>c, EnterRelabelledFrame DEF EnterRelabelled
  <2> QED
      BY <1>b, <2>1 DEF LocalsOK
<1> QED
    BY <1>1, <1>2, <1>3, <1>4, <1>5, <1>6, <1>7, <1>8, <1>9, <1>10, <1>11 DEF WorkerStep

LEMMA MainLocalsOK ==
    ASSUME TypeOK, LocalsOK, MainStep
    PROVE  LocalsOK'
<1> USE DEF LocalsOK, LocalOK, localVars, poolVars, NotMains
<1>1. CASE CreateThread
  <2>1. /\ UNCHANGED <<u, edges, d, active_before>>
        /\ pc' = [pc EXCEPT ![i + 1] = "take"]
      BY <1>1 DEF CreateThread
  <2>2. \A w \in Worker : pc'[w] = pc[w] \/ pc'[w] = "take"
      BY <2>1 DEF TypeOK
  <2> QED
      BY <2>1, <2>2 DEF Working, OnEdge
<1>2. CASE ~CreateThread
    BY <1>2 DEF MainStep, InitialPush, InitialPushesDone, CreateFails, AllCreated,
        JoinThread, JoinNext, Return
<1> QED
    BY <1>1, <1>2

-----------------------------------------------------------------------------
(* The node locks *)

\* A worker only takes locks that are free and only frees its own.
LockChange(w) ==
    \A a \in Node :
        /\ node_lock'[a] = w <=> a \in HeldLocks(w)'
        /\ \/ node_lock'[a] = node_lock[a]
           \/ node_lock[a] \in {Free, w} /\ node_lock'[a] \in {Free, w}

LEMMA LockStep ==
    ASSUME TypeOK, LocksOK, NEW w \in Worker, OthersOnlyWake(w), LockChange(w)
    PROVE  LocksOK'
<1> SUFFICES ASSUME NEW z \in Worker, NEW a \in Node
             PROVE  node_lock'[a] = z <=> a \in HeldLocks(z)'
    BY DEF LocksOK
<1>1. CASE z = w
    BY <1>1 DEF LockChange
<1>2. CASE z # w
  <2>1. HeldLocks(z)' = HeldLocks(z)
      BY <1>2, OthersKeep
  <2>2. node_lock[a] = z <=> a \in HeldLocks(z)
      BY DEF LocksOK
  <2>3. z # Free
      BY GraphFacts
  <2> QED
      BY <1>2, <2>1, <2>2, <2>3 DEF LockChange
<1> QED
    BY <1>1, <1>2

LEMMA WorkerLocksOK ==
    ASSUME TypeOK, LocalsOK, LocksOK,
           NEW w \in Worker, WorkerStep(w) \/ SpuriousWakeup(w)
    PROVE  LocksOK'
<1>a. OthersOnlyWake(w)
    BY WorkerFrame
<1> SUFFICES LockChange(w)
    BY <1>a, LockStep
<1>b. \A a \in Node : node_lock[a] = w <=> a \in HeldLocks(w)
    BY DEF LocksOK
<1>c. w # Free /\ w \in Int
    BY GraphFacts
<1> USE DEF At, Goto, localVars, poolVars
<1>1. CASE TakeNode(w) \/ Exit(w) \/ Wait(w) \/ SpuriousWakeup(w)
  <2>1. /\ node_lock' = node_lock
        /\ pc[w] \in {"take", "wait"}
        /\ pc'[w] \in {"scan", "exited", "wait", "take"}
      BY <1>1, ExitFrame DEF TakeNode, Exit, Wait, LeavePool, SpuriousWakeup, TypeOK
  <2>2. HeldLocks(w) = {} /\ HeldLocks(w)' = {}
      BY <2>1 DEF HeldLocks
  <2> QED
      BY <1>b, <2>1, <2>2 DEF LockChange
<1>2. CASE LockFirst(w)
  <2> DEFINE x == Adj[u[w]][edges[w] + 1]
             a == LowerFirst(u[w], Other(u[w], x))
  <2>1. /\ pc[w] = "scan" /\ pc'[w] = "second" /\ u'[w] = u[w]
        /\ edges'[w] = edges[w] + 1 /\ edges[w] < Len(Adj[u[w]])
        /\ node_lock[a] = Free /\ node_lock' = [node_lock EXCEPT ![a] = w]
      BY <1>2 DEF LockFirst, TypeOK
  <2>2. HeldLocks(w) = {}
      BY <2>1 DEF HeldLocks
  <2>3. HeldLocks(w)' = {LowerFirst(u'[w], V(w)')}
      BY <2>1 DEF HeldLocks, First
  <2>4. LowerFirst(u'[w], V(w)') = a
      BY <2>1 DEF V, X
  <2>5. u[w] \in Node /\ edges[w] + 1 \in 1 .. Len(Adj[u[w]])
      BY <2>1, GraphFacts, LengthFacts DEF LocalsOK, LocalOK, Working, TypeOK
  <2>6. a \in Node
      BY <2>5, LinkFacts DEF LowerFirst, Lesser
  <2> HIDE DEF a
  <2>7. \A b \in Node : node_lock'[b] = IF b = a THEN w ELSE node_lock[b]
      BY <2>1, <2>6 DEF TypeOK
  <2> QED
      BY <1>b, <1>c, <2>1, <2>2, <2>3, <2>4, <2>6, <2>7 DEF LockChange
<1>3. CASE LockSecond(w)
  <2>1. /\ pc[w] = "second" /\ pc'[w] = "test"
        /\ u' = u /\ edges' = edges
        /\ node_lock[Second(w)] = Free /\ node_lock' = [node_lock EXCEPT ![Second(w)] = w]
      BY <1>3 DEF LockSecond, TypeOK
  <2>2. u[w] \in Node /\ V(w) \in Node
      BY <2>1, InHand DEF OnEdge
  <2>3. HeldLocks(w) = {First(w)} /\ HeldLocks(w)' = {u[w], V(w)}
      BY <2>1 DEF HeldLocks, V, X
  <2>4. /\ {u[w], V(w)} = {First(w), Second(w)}
        /\ Second(w) \in Node
      BY <2>2 DEF LowerFirst, Lesser, First, Second
  <2>5. \A b \in Node : node_lock'[b] = IF b = Second(w) THEN w ELSE node_lock[b]
      BY <2>1, <2>4 DEF TypeOK
  <2> QED
      BY <1>b, <1>c, <2>1, <2>3, <2>4, <2>5 DEF LockChange
<1>4. CASE Skip(w) \/ FinishPush(w)
  <2>1. /\ pc[w] \in {"test", "unlock"} /\ pc'[w] \in {"scan", "take"}
        /\ node_lock' = [node_lock EXCEPT ![u[w]] = Free, ![V(w)] = Free]
      BY <1>4 DEF Skip, PassOver, FinishPush, UnlockBoth, TypeOK
  <2>2. u[w] \in Node /\ V(w) \in Node
      BY <2>1, InHand DEF OnEdge
  <2>3. HeldLocks(w) = {u[w], V(w)} /\ HeldLocks(w)' = {}
      BY <2>1 DEF HeldLocks
  <2>4. \A b \in Node : node_lock'[b] = IF b \in {u[w], V(w)} THEN Free ELSE node_lock[b]
      BY <2>1, <2>2 DEF TypeOK
  <2> QED
      BY <1>b, <1>c, <2>3, <2>4 DEF LockChange
<1>5. CASE Push(w) \/ EnterPushed(w)
  <2>1. /\ pc[w] \in {"test", "enter"} /\ pc'[w] \in {"enter", "unlock"}
        /\ u' = u /\ edges' = edges /\ node_lock' = node_lock
      BY <1>5, EnterPushedFrame, PushEffect DEF Push, EnterPushed, TypeOK
  <2>2. HeldLocks(w) = {u[w], V(w)} /\ HeldLocks(w)' = {u[w], V(w)}
      BY <2>1 DEF HeldLocks, V, X
  <2> QED
      BY <1>b, <2>1, <2>2 DEF LockChange
<1>6. CASE LockForRelabel(w)
  <2>1. /\ pc[w] = "scan" /\ pc'[w] = "relabel" /\ u' = u
        /\ node_lock[u[w]] = Free /\ node_lock' = [node_lock EXCEPT ![u[w]] = w]
      BY <1>6 DEF LockForRelabel, TypeOK
  <2>2. u[w] \in Node
      BY <2>1, GraphFacts DEF LocalsOK, LocalOK, Working
  <2>3. HeldLocks(w) = {} /\ HeldLocks(w)' = {u[w]}
      BY <2>1 DEF HeldLocks
  <2>4. \A b \in Node : node_lock'[b] = IF b = u[w] THEN w ELSE node_lock[b]
      BY <2>1, <2>2 DEF TypeOK
  <2> QED
      BY <1>b, <1>c, <2>1, <2>3, <2>4 DEF LockChange
<1>7. CASE Relabel(w) \/ EnterRelabelled(w)
  <2>1. /\ pc[w] \in {"relabel", "reenter"} /\ pc'[w] \in {"reenter", "unlock_u"}
        /\ u' = u /\ node_lock' = node_lock
      BY <1>7, EnterRelabelledFrame DEF Relabel, EnterRelabelled, TypeOK
  <2>2. HeldLocks(w) = {u[w]} /\ HeldLocks(w)' = {u[w]}
      BY <2>1 DEF HeldLocks
  <2> QED
      BY <1>b, <2>1, <2>2 DEF LockChange
<1>8. CASE FinishRelabel(w)
  <2>1. /\ pc[w] = "unlock_u" /\ pc'[w] = "take"
        /\ node_lock' = [node_lock EXCEPT ![u[w]] = Free]
      BY <1>8 DEF FinishRelabel, TypeOK
  <2>2. u[w] \in Node
      BY <2>1, GraphFacts DEF LocalsOK, LocalOK, Working
  <2>3. HeldLocks(w) = {u[w]} /\ HeldLocks(w)' = {}
      BY <2>1 DEF HeldLocks
  <2>4. \A b \in Node : node_lock'[b] = IF b = u[w] THEN Free ELSE node_lock[b]
      BY <2>1, <2>2 DEF TypeOK
  <2> QED
      BY <1>b, <1>c, <2>3, <2>4 DEF LockChange
<1> QED
    BY <1>1, <1>2, <1>3, <1>4, <1>5, <1>6, <1>7, <1>8 DEF WorkerStep

\* Two workers never hold the same node, so what one changes under its locks
\* the other does not see change.
LEMMA HeldLocksDisjoint ==
    ASSUME LocksOK, NEW w \in Worker, NEW z \in Worker \ {w}
    PROVE  HeldLocks(w) \cap HeldLocks(z) \cap Node = {}
BY DEF LocksOK

-----------------------------------------------------------------------------
(* main, and the threads that have returned *)

\* Where workers that move come from and go to.
LEMMA WorkerLabels ==
    ASSUME TypeOK, NEW w \in Worker, WorkerStep(w) \/ SpuriousWakeup(w)
    PROVE  /\ pc[w] \notin {"unborn", "exited"} /\ pc'[w] # "unborn"
           /\ pc'[w] = "exited" => Exit(w)
           /\ pc[w] \in {"take", "wait"} =>
                 TakeNode(w) \/ Exit(w) \/ Wait(w) \/ SpuriousWakeup(w)
<1> USE DEF TypeOK, At, Goto
<1>1. CASE TakeNode(w) \/ Wait(w) \/ SpuriousWakeup(w)
    BY <1>1 DEF TakeNode, Wait, LeavePool, SpuriousWakeup
<1>2. CASE Exit(w)
    BY <1>2, ExitFrame
<1>3. CASE LockFirst(w) \/ LockSecond(w) \/ Skip(w)
    BY <1>3 DEF LockFirst, LockSecond, Skip, PassOver
<1>4. CASE Push(w) \/ FinishPush(w)
    BY <1>4 DEF Push, FinishPush
<1>5. CASE EnterPushed(w) \/ EnterRelabelled(w)
    BY <1>5, EnterPushedFrame, EnterRelabelledFrame
<1>6. CASE LockForRelabel(w) \/ Relabel(w) \/ FinishRelabel(w)
    BY <1>6 DEF LockForRelabel, Relabel, FinishRelabel
<1> QED
    BY <1>1, <1>2, <1>3, <1>4, <1>5, <1>6 DEF WorkerStep

LEMMA WorkerMainOK ==
    ASSUME TypeOK, MainOK, NEW w \in Worker, WorkerStep(w) \/ SpuriousWakeup(w)
    PROVE  MainOK'
<1>1. /\ main \in {"create", "join"} /\ UNCHANGED <<main, p, i, result>>
      /\ pc[w] \notin {"unborn", "exited"} /\ pc'[w] # "unborn"
      /\ \A z \in Worker \ {w} : /\ pc'[z] = "unborn" <=> pc[z] = "unborn"
                                 /\ pc[z] = "exited" => pc'[z] = "exited"
    BY WorkerFrame, WorkerLabels DEF OthersOnlyWake
<1> QED
    BY <1>1 DEF MainOK

LEMMA MainMainOK ==
    ASSUME TypeOK, MainOK, MainStep
    PROVE  MainOK'
<1> USE ThreadAssumption, GraphFacts DEF NotMains, graphVars, poolVars, localVars
<1>1. CASE InitialPush
  <2>1. /\ main' = "push" /\ p' = p + 1 /\ p \in Nat /\ i' = 0 /\ pc' = pc
        /\ p + 1 \in 1 .. Len(Adj[s])
        /\ e'[s] = 0
        /\ \A y \in Edge \ {Adj[s][p + 1]} : f'[y] = f[y]
    <3> DEFINE v == Other(s, Adj[s][p + 1])
    <3>1. v # s /\ e' = [e EXCEPT ![v] = @ + Cap[Adj[s][p + 1]]] /\ e[s] = 0
        BY <1>1, InitialPushEffect
    <3>2. e'[s] = 0
        BY <3>1 DEF TypeOK
    <3>3. main' = "push" /\ i' = 0 /\ pc' = pc /\ p \in Nat
        BY <1>1, LengthFacts DEF InitialPush, MainOK, TypeOK
    <3>4. /\ p' = p + 1 /\ p + 1 \in 1 .. Len(Adj[s])
          /\ \A y \in Edge \ {Adj[s][p + 1]} : f'[y] = f[y]
        BY <1>1, InitialPushEffect
    <3> QED
        BY <3>2, <3>3, <3>4
  <2>2. Len(Adj[s]) \in Nat
      BY LengthFacts
  <2>3. ASSUME NEW k \in p + 2 .. Len(Adj[s]) PROVE f'[Adj[s][k]] = 0
    <3>1. k \in 1 .. Len(Adj[s]) /\ k # p + 1 /\ k \in p + 1 .. Len(Adj[s])
        BY <2>1, <2>2
    <3>2. Adj[s][k] # Adj[s][p + 1] /\ Adj[s][k] \in Edge
        BY <2>1, <3>1, AdjAssumption, LinkFacts
    <3> QED
        BY <1>1, <2>1, <3>1, <3>2 DEF InitialPush, MainOK
  <2>4. \A k \in p' + 1 .. Len(Adj[s]) : f'[Adj[s][k]] = 0
      BY <2>1, <2>2, <2>3
  <2>5. \A w \in Worker : pc'[w] = "unborn"
      BY <1>1, <2>1 DEF InitialPush, MainOK
  <2> QED
      BY <2>1, <2>4, <2>5 DEF MainOK
<1>2. CASE InitialPushesDone
    BY <1>2 DEF InitialPushesDone, MainOK, Worker
<1>3. CASE CreateThread
  <2>1. /\ main = "create" /\ main' = "create" /\ p' = p /\ i' = i + 1
        /\ pc' = [pc EXCEPT ![i + 1] = "take"] /\ i \in Nat
      BY <1>3 DEF CreateThread, TypeOK
  <2>2. \A w \in Worker : pc'[w] = "unborn" <=> w > i + 1
      BY <2>1 DEF MainOK, TypeOK
  <2> QED
      BY <2>1, <2>2 DEF MainOK
<1>4. CASE CreateFails \/ Return
    BY <1>4 DEF CreateFails, Return, MainOK
<1>5. CASE AllCreated
    BY <1>5 DEF AllCreated, MainOK, Worker
<1>6. CASE JoinThread
  <2>1. /\ main = "join" /\ main' = "join" /\ p' = p /\ i' = i + 1
        /\ pc' = pc /\ i \in Nat /\ pc[i + 1] = "exited"
      BY <1>6 DEF JoinThread, JoinNext, TypeOK
  <2>2. \A w \in Worker : w <= i + 1 => w <= i \/ w = i + 1
      BY <2>1
  <2> QED
      BY <2>1, <2>2 DEF MainOK
<1> QED
    BY <1>1, <1>2, <1>3, <1>4, <1>5, <1>6 DEF MainStep

LEMMA WorkerExitOK ==
    ASSUME TypeOK, LocalsOK, ActiveCountIsExact, ExitOK,
           NEW w \in Worker, WorkerStep(w) \/ SpuriousWakeup(w)
    PROVE  ExitOK'
<1>1. /\ pc[w] \notin {"unborn", "exited"}
      /\ pc'[w] = "exited" => Exit(w)
      /\ \A z \in Worker \ {w} : pc'[z] = "exited" => pc[z] = "exited"
    BY WorkerFrame, WorkerLabels DEF OthersOnlyWake
<1>2. CASE Exit(w)
  <2>1. /\ LeavePool(w) /\ ActiveAfterLeaving(w) = 0
        /\ excess' = << >>
      BY <1>2 DEF Exit, LeavePool, At
  <2> QED
      BY <2>1, LeavePoolEffect DEF ExitOK
<1>3. CASE TakeNode(w)
    BY <1>1, <1>3, ExitFrame DEF TakeNode, ExitOK, Exit, LeavePool, At
<1>4. CASE Wait(w) \/ SpuriousWakeup(w)
  <2>1. /\ \A z \in Worker : active_before'[z] => active_before[z]
        /\ excess' = excess /\ pc'[w] # "exited"
      BY <1>4 DEF Wait, LeavePool, SpuriousWakeup, At, Goto, TypeOK, poolVars
  <2> QED
      BY <1>1, <2>1 DEF ExitOK
<1>5. CASE pc[w] \notin {"take", "wait"}
  <2>1. pc[w] \in Working
      BY <1>1, <1>5 DEF TypeOK, PC, Working
  <2>2. active_before[w] /\ ~Exit(w)
      BY <2>1, <1>5, ExitFrame DEF LocalsOK, LocalOK
  <2>3. \A z \in Worker : pc'[z] # "exited"
      BY <1>1, <2>2 DEF ExitOK
  <2> QED
      BY <2>3 DEF ExitOK
<1> QED
    BY <1>2, <1>3, <1>4, <1>5, WorkerLabels

LEMMA MainExitOK ==
    ASSUME TypeOK, MainOK, ExitOK, MainStep
    PROVE  ExitOK'
<1>1. CASE InitialPush
    BY <1>1 DEF InitialPush, MainOK, ExitOK
<1>2. CASE ~InitialPush
  <2>1. UNCHANGED <<excess, active_before>>
      BY <1>2 DEF MainStep, InitialPushesDone, CreateThread, CreateFails, AllCreated,
          JoinThread, JoinNext, Return, NotMains, poolVars
  <2>2. \A z \in Worker : pc'[z] = pc[z] \/ pc'[z] = "take"
      BY <1>2 DEF MainStep, InitialPushesDone, CreateThread, CreateFails, AllCreated,
          JoinThread, JoinNext, Return, TypeOK
  <2> QED
      BY <2>1, <2>2 DEF ExitOK
<1> QED
    BY <1>1, <1>2

-----------------------------------------------------------------------------
(* One keeper for every node with excess *)

\* A step that leaves the excess alone only moves nodes between the list and
\* the worker that takes it.
KeeperMove(w) ==
    /\ e' = e
    /\ Owned(w)' \cup Range(excess') = Owned(w) \cup Range(excess)
    /\ Owned(w)' \cap Range(excess') = {}

LEMMA KeeperMoveOK ==
    ASSUME ExcessHasOneKeeper, NEW w \in Worker, OthersOnlyWake(w), KeeperMove(w)
    PROVE  ExcessHasOneKeeper'
<1>1. \A z \in Worker \ {w} : Owned(z)' = Owned(z)
    BY OthersKeep DEF KeeperMove
<1>2. /\ e' = e
      /\ Owned(w)' \cup Range(excess') = Owned(w) \cup Range(excess)
      /\ Owned(w)' \cap Range(excess') = {}
    BY DEF KeeperMove
<1> DEFINE R == Range(excess)
           Q == Range(excess')
<1>3. /\ \A a \in Inner : e[a] > 0 <=> a \in R \/ \E z \in Worker : a \in Owned(z)
      /\ \A z \in Worker : Owned(z) \cap R = {}
      /\ \A y, z \in Worker : y # z => Owned(y) \cap Owned(z) = {}
    BY DEF ExcessHasOneKeeper
<1>4. Owned(w)' \cup Q = Owned(w) \cup R /\ Owned(w)' \cap Q = {}
    BY <1>2
<1> HIDE DEF R, Q
<1>5. \A a \in Inner : e'[a] > 0 <=> a \in Q \/ \E z \in Worker : a \in Owned(z)'
  <2> SUFFICES ASSUME NEW a \in Inner
               PROVE  e[a] > 0 <=> a \in Q \/ \E z \in Worker : a \in Owned(z)'
      BY <1>2
  <2>1. (a \in Q \/ \E z \in Worker : a \in Owned(z)')
        <=> (a \in Q \/ a \in Owned(w)' \/ \E z \in Worker \ {w} : a \in Owned(z))
      BY <1>1
  <2>2. (a \in R \/ \E z \in Worker : a \in Owned(z))
        <=> (a \in R \/ a \in Owned(w) \/ \E z \in Worker \ {w} : a \in Owned(z))
      OBVIOUS
  <2> QED
      BY <2>1, <2>2, <1>3, <1>4
<1>6. \A z \in Worker : Owned(z)' \cap Q = {}
    BY <1>1, <1>3, <1>4
<1>7. \A y, z \in Worker : y # z => Owned(y)' \cap Owned(z)' = {}
  <2>1. \A z \in Worker \ {w} : Owned(w)' \cap Owned(z)' = {}
      BY <1>1, <1>3, <1>4
  <2>2. \A y, z \in Worker \ {w} : y # z => Owned(y)' \cap Owned(z)' = {}
      BY <1>1, <1>3
  <2> QED
      BY <2>1, <2>2
<1> QED
    BY <1>5, <1>6, <1>7 DEF ExcessHasOneKeeper, Q

LEMMA PushKeeper ==
    ASSUME TypeOK, LocalsOK, LocksOK, ExcessHasOneKeeper, NEW w \in Worker, Push(w)
    PROVE  ExcessHasOneKeeper'
<1> DEFINE a == u[w]
           b == V(w)
           amount == Amount(f, e, u[w], X(w))
           R == Range(excess)
<1>1. /\ pc[w] = "test" /\ a \in Inner /\ a \in Node /\ b \in Node /\ b # a
    BY PushEffect, InHand DEF OnEdge
<1>2. Owned(w) = {a}
    BY <1>1 DEF Owned
<1>3. /\ \A c \in Inner : e[c] > 0 <=> c \in R \/ \E z \in Worker : c \in Owned(z)
      /\ \A z \in Worker : Owned(z) \cap R = {}
      /\ \A y, z \in Worker : y # z => Owned(y) \cap Owned(z) = {}
    BY DEF ExcessHasOneKeeper
<1>4. e[a] > 0 /\ e[a] \in Nat /\ e[b] \in Nat
    BY <1>1, <1>2, <1>3 DEF TypeOK
<1>5. /\ amount \in Nat /\ amount > 0 /\ amount <= e[a]
      /\ e'[a] = e[a] - amount
      /\ e'[b] = e[b] + amount
      /\ \A c \in Node \ {a, b} : e'[c] = e[c]
      /\ d'[w] = amount
      /\ pc'[w] = IF e'[a] > 0 \/ e'[b] = amount THEN "enter" ELSE "unlock"
    BY <1>4, PushEffect DEF TypeOK
<1>6. u'[w] = a /\ V(w)' = b /\ excess' = excess
    BY DEF Push, V, X, poolVars
<1>7. Owned(w)' = {c \in Inner : \/ c = a /\ e'[a] > 0
                                 \/ c = b /\ e[b] = 0}
  <2>1. (e'[b] = amount) <=> e[b] = 0
      BY <1>4, <1>5
  <2>2. CASE pc'[w] = "enter"
      BY <2>1, <2>2, <1>5, <1>6 DEF Owned
  <2>3. CASE pc'[w] = "unlock"
    <3>1. ~(e'[a] > 0) /\ e[b] # 0
        BY <2>1, <2>3, <1>5
    <3>2. Owned(w)' = {}
        BY <2>3 DEF Owned
    <3> QED
        BY <3>1, <3>2
  <2> QED
      BY <2>2, <2>3, <1>5
<1>8. ASSUME NEW z \in Worker \ {w} PROVE Owned(z)' = Owned(z)
  <2>1. OthersOnlyWake(w)
      BY WorkerFrame DEF WorkerStep
  <2>2. CASE pc[z] # "enter"
      BY <2>1, <2>2, OthersKeep
  <2>3. CASE pc[z] = "enter"
    <3>1. u[z] \in Node /\ V(z) \in Node /\ HeldLocks(z) = {u[z], V(z)}
        BY <2>3, InHand DEF OnEdge, HeldLocks
    <3>2. HeldLocks(w) = {a, b}
        BY <1>1 DEF HeldLocks
    <3>3. u[z] \notin {a, b} /\ V(z) \notin {a, b}
        BY <3>1, <3>2, HeldLocksDisjoint
    <3>4. e'[u[z]] = e[u[z]] /\ e'[V(z)] = e[V(z)]
        BY <3>1, <3>3, <1>5
    <3> QED
        BY <2>1, <2>3, <3>4, OthersKeep
  <2> QED
      BY <2>2, <2>3
<1> HIDE DEF a, b, amount, R
<1>9. ASSUME NEW c \in Inner
      PROVE  e'[c] > 0 <=> c \in R \/ \E z \in Worker : c \in Owned(z)'
  <2>1. (\E z \in Worker : c \in Owned(z)')
        <=> c \in Owned(w)' \/ \E z \in Worker \ {w} : c \in Owned(z)
      BY <1>8
  <2>2. (\E z \in Worker : c \in Owned(z))
        <=> c = a \/ \E z \in Worker \ {w} : c \in Owned(z)
      BY <1>2
  <2>3. CASE c = a
    <3>1. c \notin R /\ ~\E z \in Worker \ {w} : c \in Owned(z)
        BY <2>3, <1>2, <1>3
    <3> QED
        BY <2>1, <2>3, <3>1, <1>1, <1>7
  <2>4. CASE c = b
    <3>1. e'[c] > 0
        BY <2>4, <1>4, <1>5
    <3>2. e[b] = 0 => c \in Owned(w)'
        BY <2>4, <1>7
    <3>3. e[b] > 0 => c \in R \/ \E z \in Worker \ {w} : c \in Owned(z)
        BY <2>2, <2>4, <1>1, <1>3
    <3> QED
        BY <2>1, <3>1, <3>2, <3>3, <1>4
  <2>5. CASE c \notin {a, b}
    <3>1. e'[c] = e[c] /\ c \notin Owned(w)'
        BY <2>5, <1>5, <1>7, GraphFacts
    <3> QED
        BY <2>1, <2>2, <2>5, <3>1, <1>3
  <2> QED
      BY <2>3, <2>4, <2>5
<1>10. \A z \in Worker : Owned(z)' \cap R = {}
  <2>1. Owned(w)' \cap R = {}
    <3> SUFFICES ASSUME NEW c \in Owned(w)', c \in R PROVE FALSE
        OBVIOUS
    <3>1. c \in Inner /\ (c = a \/ (c = b /\ e[b] = 0))
        BY <1>7
    <3>2. c # a
        BY <1>2, <1>3
    <3>3. e[c] > 0
        BY <3>1, <1>3
    <3> QED
        BY <3>1, <3>2, <3>3
  <2> QED
      BY <2>1, <1>3, <1>8
<1>11. \A y, z \in Worker : y # z => Owned(y)' \cap Owned(z)' = {}
  <2>1. ASSUME NEW z \in Worker \ {w} PROVE Owned(w)' \cap Owned(z)' = {}
    <3> SUFFICES ASSUME NEW c \in Owned(w)', c \in Owned(z) PROVE FALSE
        BY <1>8
    <3>1. c \in Inner /\ (c = a \/ (c = b /\ e[b] = 0))
        BY <1>7
    <3>2. c # a
        BY <1>2, <1>3
    <3>3. e[c] > 0
        BY <3>1, <1>3
    <3> QED
        BY <3>1, <3>2, <3>3
  <2>2. \A y, z \in Worker \ {w} : y # z => Owned(y)' \cap Owned(z)' = {}
      BY <1>3, <1>8
  <2> QED
      BY <2>1, <2>2
<1> QED
    BY <1>6, <1>9, <1>10, <1>11 DEF ExcessHasOneKeeper, R

LEMMA WorkerKeeper ==
    ASSUME TypeOK, LocalsOK, LocksOK, ListNeverRepeats, ExcessHasOneKeeper,
           NEW w \in Worker, WorkerStep(w) \/ SpuriousWakeup(w)
    PROVE  ListNeverRepeats' /\ ExcessHasOneKeeper'
<1>a. OthersOnlyWake(w)
    BY WorkerFrame
<1>b. Owned(w) \cap Range(excess) = {}
    BY DEF ExcessHasOneKeeper
<1> USE DEF At, Goto, graphVars, poolVars, localVars
<1>1. CASE TakeNode(w)
  <2>1. /\ pc[w] = "take" /\ pc'[w] = "scan" /\ u'[w] = Head(excess)
        /\ excess' = Tail(excess) /\ e' = e
      BY <1>1 DEF TakeNode, TypeOK
  <2>2. /\ Head(excess) \in Range(excess)
        /\ Range(excess') = Range(excess) \ {Head(excess)}
        /\ IsInjective(excess')
      BY <1>1, <2>1, LeaveFacts DEF TakeNode, ListNeverRepeats, TypeOK
  <2>3. Owned(w) = {} /\ Owned(w)' = {Head(excess)}
      BY <2>1 DEF Owned
  <2>4. KeeperMove(w)
      BY <2>1, <2>2, <2>3 DEF KeeperMove
  <2> QED
      BY <1>a, <2>2, <2>4, KeeperMoveOK DEF ListNeverRepeats
<1>2. CASE e' = e /\ excess' = excess /\ Owned(w)' = Owned(w)
  <2>1. KeeperMove(w)
      BY <1>2, <1>b DEF KeeperMove
  <2> QED
      BY <1>a, <1>2, <2>1, KeeperMoveOK DEF ListNeverRepeats
<1>3. CASE Exit(w) \/ Wait(w) \/ SpuriousWakeup(w)
  <2>1. /\ pc[w] \in {"take", "wait"} /\ pc'[w] \in {"exited", "wait", "take"}
        /\ e' = e /\ excess' = excess
      BY <1>3, ExitFrame DEF Exit, Wait, LeavePool, SpuriousWakeup, TypeOK
  <2> QED
      BY <1>2, <2>1 DEF Owned
<1>4. CASE LockFirst(w)
  <2>1. /\ pc[w] = "scan" /\ pc'[w] = "second"
        /\ e' = e /\ excess' = excess /\ u' = u
      BY <1>4 DEF LockFirst, TypeOK
  <2> QED
      BY <1>2, <2>1 DEF Owned
<1>5. CASE LockSecond(w) \/ Skip(w) \/ LockForRelabel(w)
  <2>1. /\ pc[w] \in {"second", "test", "scan"} /\ pc'[w] \in {"test", "scan", "relabel"}
        /\ e' = e /\ excess' = excess /\ u' = u
      BY <1>5 DEF LockSecond, Skip, PassOver, LockForRelabel, TypeOK
  <2> QED
      BY <1>2, <2>1 DEF Owned
<1>6. CASE Push(w)
    BY <1>6, PushKeeper DEF Push, ListNeverRepeats
<1>7. CASE EnterPushed(w)
  <2> DEFINE a == u[w]
             b == V(w)
             one == IF e[a] > 0 THEN Entered(excess, a) ELSE excess
             two == IF e[b] = d[w] THEN Entered(one, b) ELSE one
  <2>1. /\ pc[w] = "enter" /\ pc'[w] = "unlock" /\ e' = e /\ excess' = two
      BY <1>7, EnterPushedFrame DEF EnterPushed, HadNoExcess
  <2>2. a \in Inner /\ a \in Node /\ b \in Node /\ a # b
      BY <2>1, InHand DEF OnEdge
  <2>3. /\ Owned(w) = {c \in Inner : \/ c = a /\ e[c] > 0
                                     \/ c = b /\ e[c] = d[w]}
        /\ Owned(w)' = {}
      BY <2>1 DEF Owned
  <2> HIDE DEF a, b
  <2>4. /\ one \in Seq(Inner) /\ IsInjective(one)
        /\ Range(one) = Range(excess) \cup {c \in {a} : e[a] > 0}
    <3>1. excess \in Seq(Inner) /\ IsInjective(excess)
        BY DEF TypeOK, ListNeverRepeats
    <3>2. CASE e[a] > 0
      <4>1. a \notin Range(excess) /\ {c \in {a} : e[a] > 0} = {a} /\ {a} \cap Inner = {a}
          BY <3>2, <1>b, <2>2, <2>3
      <4>2. one = Entered(excess, a)
          BY <3>2
      <4> HIDE DEF one
      <4> QED
          BY <2>2, <3>1, <4>1, <4>2, EnteredFacts
    <3>3. CASE ~(e[a] > 0)
      <4>1. one = excess /\ {c \in {a} : e[a] > 0} = {}
          BY <3>3
      <4> QED
          BY <3>1, <4>1
    <3> QED
        BY <3>2, <3>3
  <2> HIDE DEF one
  <2>5. e[b] = d[w] /\ b \in Inner => b \notin Range(one)
      BY <1>b, <2>2, <2>3, <2>4
  <2>6. e[b] = d[w] /\ b \notin Inner => b \notin Range(one)
      BY <2>4 DEF Range
  <2>7. /\ IsInjective(two)
        /\ Range(two) = Range(one) \cup {c \in {b} \cap Inner : e[b] = d[w]}
      BY <2>2, <2>4, <2>5, <2>6, EnteredFacts
  <2> HIDE DEF two
  <2>8. Range(two) = Range(excess) \cup Owned(w)
      BY <2>2, <2>3, <2>4, <2>7
  <2>9. KeeperMove(w)
      BY <2>1, <2>3, <2>8 DEF KeeperMove
  <2> QED
      BY <1>a, <2>1, <2>7, <2>9, KeeperMoveOK DEF ListNeverRepeats
<1>8. CASE FinishPush(w) \/ FinishRelabel(w)
  <2>1. /\ pc[w] \in {"unlock", "unlock_u"} /\ pc'[w] = "take"
        /\ e' = e /\ excess' = excess
      BY <1>8 DEF FinishPush, FinishRelabel, TypeOK
  <2> QED
      BY <1>2, <2>1 DEF Owned
<1>9. CASE Relabel(w)
  <2>1. /\ pc[w] = "relabel" /\ pc'[w] = "reenter"
        /\ e' = e /\ excess' = excess /\ u' = u
      BY <1>9 DEF Relabel, TypeOK
  <2> QED
      BY <1>2, <2>1 DEF Owned
<1>10. CASE EnterRelabelled(w)
  <2>1. /\ pc[w] = "reenter" /\ pc'[w] = "unlock_u" /\ e' = e
        /\ excess' = Entered(excess, u[w])
      BY <1>10, EnterRelabelledFrame DEF EnterRelabelled
  <2>2. u[w] \in Inner /\ u[w] \in Node
      BY <2>1, GraphFacts DEF LocalsOK, LocalOK, Working
  <2>3. Owned(w) = {u[w]} /\ Owned(w)' = {}
      BY <2>1 DEF Owned
  <2>4. /\ IsInjective(excess')
        /\ Range(excess') = Range(excess) \cup {u[w]}
      BY <1>b, <2>1, <2>2, <2>3, EnteredFacts DEF TypeOK, ListNeverRepeats
  <2>5. KeeperMove(w)
      BY <2>1, <2>3, <2>4 DEF KeeperMove
  <2> QED
      BY <1>a, <2>4, <2>5, KeeperMoveOK DEF ListNeverRepeats
<1> QED
    BY <1>1, <1>3, <1>4, <1>5, <1>6, <1>7, <1>8, <1>9, <1>10 DEF WorkerStep

-----------------------------------------------------------------------------
(* The edges passed over *)

\* Whoever passes over links has its node to itself.
LEMMA PassedOwner ==
    ASSUME TypeOK, LocalsOK, NEW z \in Worker, NEW k \in 1 .. Passed(z)
    PROVE  /\ u[z] \in Inner /\ u[z] \in Node /\ Owned(z) = {u[z]}
           /\ pc[z] \in {"scan", "relabel", "second", "test"}
           /\ k \in 1 .. Len(Adj[u[z]])
           /\ Adj[u[z]][k] \in Edge
           /\ u[z] \in {EdgeU[Adj[u[z]][k]], EdgeV[Adj[u[z]][k]]}
<1>1. pc[z] \in {"scan", "relabel", "second", "test"}
    BY DEF Passed
<1>2. u[z] \in Inner /\ u[z] \in Node /\ edges[z] <= Len(Adj[u[z]]) /\ edges[z] \in Nat
    BY <1>1, GraphFacts DEF LocalsOK, LocalOK, Working, TypeOK
<1>3. Owned(z) = {u[z]}
    BY <1>1 DEF Owned
<1>4. k \in 1 .. Len(Adj[u[z]])
    BY <1>1, <1>2, LengthFacts DEF Passed
<1> QED
    BY <1>1, <1>2, <1>3, <1>4, LinkFacts

\* A push or a relabel of another node never makes an edge of c admissible: a
\* push along the edge comes from the higher node, and heights only grow.
LEMMA StaysInadmissible ==
    ASSUME TypeOK, LocalsOK, NEW w \in Worker, Push(w) \/ Relabel(w),
           NEW x \in Edge, NEW c \in {EdgeU[x], EdgeV[x]}, c # u[w],
           ~Admissible(f, h, c, x)
    PROVE  ~Admissible(f', h', c, x)
<1>1. c \in Node /\ Other(c, x) \in Node /\ Other(c, x) # c
    BY EdgeAssumption DEF Other
<1>2. CASE Push(w)
  <2>1. /\ h' = h /\ h[u[w]] > h[V(w)] /\ h \in [Node -> Nat]
        /\ \A y \in Edge \ {X(w)} : f'[y] = f[y]
      BY <1>2, PushEffect DEF Push, TypeOK
  <2>2. CASE x # X(w)
      BY <2>1, <2>2 DEF Admissible, FlowFrom
  <2>3. CASE x = X(w)
    <3>1. /\ u[w] \in {EdgeU[x], EdgeV[x]} /\ u[w] \in Node
          /\ V(w) = Other(u[w], x) /\ V(w) \in Node
        BY <1>2, <2>3, PushEffect, InHand DEF OnEdge, V
    <3>2. c = V(w) /\ Other(c, x) = u[w]
        BY <3>1, EndPoints
    <3> QED
        BY <2>1, <3>1, <3>2 DEF Admissible
  <2> QED
      BY <2>2, <2>3
<1>3. CASE Relabel(w)
  <2>1. /\ h' = [h EXCEPT ![u[w]] = h[u[w]] + 1] /\ f' = f /\ h \in [Node -> Nat]
      BY <1>3 DEF Relabel, TypeOK
  <2>2. h'[c] = h[c] /\ h'[Other(c, x)] >= h[Other(c, x)]
      BY <1>1, <2>1
  <2>3. h[c] \in Nat /\ h[Other(c, x)] \in Nat /\ h'[Other(c, x)] \in Nat
      BY <1>1, <2>1
  <2> QED
      BY <2>1, <2>2, <2>3 DEF Admissible, FlowFrom
<1> QED
    BY <1>2, <1>3

LEMMA OthersPassed ==
    ASSUME TypeOK, LocalsOK, ExcessHasOneKeeper, PassedEdgesStayInadmissible,
           NEW w \in Worker, WorkerStep(w) \/ SpuriousWakeup(w),
           NEW z \in Worker \ {w}, NEW k \in 1 .. Passed(z)'
    PROVE  ~Admissible(f', h', u'[z], Adj[u'[z]][k])
<1>1. Passed(z)' = Passed(z) /\ u'[z] = u[z]
    BY WorkerFrame, OthersKeep DEF OthersOnlyWake
<1> DEFINE x == Adj[u[z]][k]
<1>2. ~Admissible(f, h, u[z], x)
    BY <1>1 DEF PassedEdgesStayInadmissible
<1>3. CASE Push(w) \/ Relabel(w)
  <2>1. x \in Edge /\ u[z] \in {EdgeU[x], EdgeV[x]} /\ Owned(z) = {u[z]}
      BY <1>1, PassedOwner
  <2>2. Owned(w) = {u[w]}
      BY <1>3 DEF Push, Relabel, At, Owned
  <2>3. u[z] # u[w]
      BY <2>1, <2>2 DEF ExcessHasOneKeeper
  <2> HIDE DEF x
  <2>4. ~Admissible(f', h', u[z], x)
      BY <1>2, <1>3, <2>1, <2>3, StaysInadmissible
  <2> QED
      BY <1>1, <2>4 DEF x
<1>4. CASE f' = f /\ h' = h
    BY <1>1, <1>2, <1>4
<1>5. TakeNode(w) \/ Exit(w) \/ Wait(w) \/ SpuriousWakeup(w) \/ LockFirst(w)
      => f' = f /\ h' = h
    BY DEF TakeNode, Exit, Wait, LeavePool, SpuriousWakeup, LockFirst, graphVars
<1>6. LockSecond(w) \/ Skip(w) \/ EnterPushed(w) \/ FinishPush(w)
      => f' = f /\ h' = h
    BY DEF LockSecond, Skip, PassOver, EnterPushed, FinishPush, graphVars
<1>7. LockForRelabel(w) \/ EnterRelabelled(w) \/ FinishRelabel(w)
      => f' = f /\ h' = h
    BY DEF LockForRelabel, EnterRelabelled, FinishRelabel, graphVars
<1> QED
    BY <1>3, <1>4, <1>5, <1>6, <1>7 DEF WorkerStep

LEMMA OwnPassed ==
    ASSUME TypeOK, LocalsOK, PassedEdgesStayInadmissible,
           NEW w \in Worker, WorkerStep(w) \/ SpuriousWakeup(w),
           NEW k \in 1 .. Passed(w)'
    PROVE  ~Admissible(f', h', u'[w], Adj[u'[w]][k])
<1> USE DEF At, Goto, TypeOK, graphVars, localVars
<1>a. pc'[w] \in {"scan", "relabel", "second", "test"}
    BY DEF Passed
<1>b. \A l \in 1 .. Passed(w) : ~Admissible(f, h, u[w], Adj[u[w]][l])
    BY DEF PassedEdgesStayInadmissible
<1>1. CASE TakeNode(w)
  <2>1. Passed(w)' = 0
      BY <1>1 DEF TakeNode, Passed
  <2> QED
      BY <2>1
<1>2. CASE LockFirst(w)
  <2>1. /\ pc[w] = "scan" /\ pc'[w] = "second" /\ edges'[w] = edges[w] + 1
        /\ f' = f /\ h' = h /\ u' = u /\ edges[w] \in Nat
      BY <1>2 DEF LockFirst
  <2>2. Passed(w)' = Passed(w)
      BY <2>1 DEF Passed
  <2> QED
      BY <1>b, <2>1, <2>2
<1>3. CASE LockSecond(w) \/ LockForRelabel(w)
  <2>1. /\ \/ pc[w] = "scan" /\ pc'[w] = "relabel"
           \/ pc[w] = "second" /\ pc'[w] = "test"
        /\ f' = f /\ h' = h /\ u' = u /\ edges' = edges
      BY <1>3 DEF LockSecond, LockForRelabel
  <2>2. Passed(w)' = Passed(w)
      BY <2>1 DEF Passed
  <2> QED
      BY <1>b, <2>1, <2>2
<1>4. CASE Skip(w)
  <2>1. /\ pc[w] = "test" /\ pc'[w] = "scan"
        /\ f' = f /\ h' = h /\ u' = u /\ edges' = edges
        /\ ~Admissible(f, h, u[w], Adj[u[w]][edges[w]])
      BY <1>4 DEF Skip, PassOver, X
  <2>2. Passed(w)' = edges[w] /\ Passed(w) = edges[w] - 1 /\ edges[w] \in Nat
      BY <2>1 DEF Passed
  <2>3. k \in 1 .. Passed(w) \/ k = edges[w]
      BY <2>2
  <2> QED
      BY <1>b, <2>1, <2>3
<1>5. Exit(w) \/ EnterPushed(w) \/ EnterRelabelled(w)
      => pc'[w] \in {"exited", "unlock", "unlock_u"}
    BY ExitFrame, EnterPushedFrame, EnterRelabelledFrame
<1>6. Wait(w) \/ SpuriousWakeup(w) \/ Push(w)
      => pc'[w] \in {"wait", "take", "enter", "unlock"}
    BY DEF Wait, SpuriousWakeup, Push
<1>7. FinishPush(w) \/ Relabel(w) \/ FinishRelabel(w)
      => pc'[w] \in {"take", "reenter"}
    BY DEF FinishPush, Relabel, FinishRelabel
<1> QED
    BY <1>a, <1>1, <1>2, <1>3, <1>4, <1>5, <1>6, <1>7 DEF WorkerStep

LEMMA WorkerPassed ==
    ASSUME TypeOK, LocalsOK, ExcessHasOneKeeper, PassedEdgesStayInadmissible,
           NEW w \in Worker, WorkerStep(w) \/ SpuriousWakeup(w)
    PROVE  PassedEdgesStayInadmissible'
BY OthersPassed, OwnPassed DEF PassedEdgesStayInadmissible

-----------------------------------------------------------------------------
(* The steps of main *)

LEMMA MainRest ==
    ASSUME IInv, MainStep
    PROVE  /\ LocksOK' /\ ListNeverRepeats' /\ ExcessHasOneKeeper'
           /\ PassedEdgesStayInadmissible' /\ ActiveCountIsExact'
<1> USE DEF IInv
<1>1. CASE InitialPush
  <2> DEFINE x == Adj[s][p + 1]
             v == Other(s, x)
  <2>1. /\ main = "push" /\ v \in Node /\ v # s
        /\ e' = [e EXCEPT ![v] = @ + Cap[x]]
        /\ e'[v] = e[v] + Cap[x] /\ Cap[x] \in Nat /\ Cap[x] > 0
        /\ excess' = IF e[v] = 0 THEN Entered(excess, v) ELSE excess
      BY <1>1, InitialPushEffect
  <2>2. \A w \in Worker : pc[w] = "unborn" /\ pc'[w] = "unborn"
      BY <1>1, <2>1 DEF MainOK, InitialPush
  <2>3. \A w \in Worker : /\ Owned(w) = {} /\ Owned(w)' = {}
                          /\ Passed(w)' = 0
                          /\ HeldLocks(w) = {} /\ HeldLocks(w)' = {}
      BY <2>2 DEF Owned, Passed, HeldLocks
  <2>4. \A a \in Inner : e[a] > 0 <=> a \in Range(excess)
      BY <2>3 DEF ExcessHasOneKeeper
  <2> HIDE DEF v, x
  <2>5. e[v] \in Nat /\ \A a \in Node \ {v} : e'[a] = e[a]
      BY <2>1 DEF TypeOK
  <2>6. v \in Inner /\ e[v] = 0 => v \notin Range(excess)
      BY <2>4
  <2>7. v \notin Inner => v \notin Range(excess)
      BY DEF Range, TypeOK
  <2>8. /\ IsInjective(excess')
        /\ Range(excess') = Range(excess) \cup {c \in {v} \cap Inner : e[v] = 0}
    <3>1. excess \in Seq(Inner) /\ IsInjective(excess)
        BY DEF TypeOK, ListNeverRepeats
    <3>2. CASE e[v] = 0
        BY <2>1, <2>6, <2>7, <3>1, <3>2, EnteredFacts
    <3>3. CASE e[v] # 0
        BY <2>1, <3>1, <3>3
    <3> QED
        BY <3>2, <3>3
  <2>9. \A a \in Inner : e'[a] > 0 <=> a \in Range(excess')
    <3> SUFFICES ASSUME NEW a \in Inner PROVE e'[a] > 0 <=> a \in Range(excess')
        OBVIOUS
    <3>1. CASE a = v
      <4>1. e'[v] > 0 /\ (e[v] = 0 \/ e[v] > 0)
          BY <2>1, <2>5
      <4> QED
          BY <3>1, <4>1, <2>4, <2>8
    <3>2. CASE a # v
        BY <3>2, <2>4, <2>5, <2>8, GraphFacts
    <3> QED
        BY <3>1, <3>2
  <2>10. ExcessHasOneKeeper'
      BY <2>3, <2>9 DEF ExcessHasOneKeeper
  <2>11. LocksOK' /\ ActiveCountIsExact'
      BY <1>1, <2>3 DEF InitialPush, LocksOK, ActiveCountIsExact
  <2>12. PassedEdgesStayInadmissible'
      BY <2>3 DEF PassedEdgesStayInadmissible
  <2> QED
      BY <2>8, <2>10, <2>11, <2>12 DEF ListNeverRepeats
<1>2. CASE ~InitialPush
  <2>1. UNCHANGED <<h, e, f, excess, active_thread, active_before, node_lock, u, edges, d>>
      BY <1>2 DEF MainStep, InitialPushesDone, CreateThread, CreateFails, AllCreated,
          JoinThread, JoinNext, Return, NotMains, graphVars, poolVars, localVars
  <2>2. \A z \in Worker : pc'[z] = pc[z] \/ (pc[z] = "unborn" /\ pc'[z] = "take")
    <3>1. CASE CreateThread
      <4>1. /\ main = "create" /\ pc' = [pc EXCEPT ![i + 1] = "take"] /\ i \in Nat
          BY <3>1 DEF CreateThread, TypeOK
      <4>2. \A z \in Worker : z # i + 1 => pc'[z] = pc[z]
          BY <4>1 DEF TypeOK
      <4>3. \A z \in Worker : z = i + 1 => pc[z] = "unborn" /\ pc'[z] = "take"
          BY <4>1 DEF MainOK, TypeOK
      <4> QED
          BY <4>2, <4>3
    <3>2. CASE ~CreateThread
        BY <1>2, <3>2 DEF MainStep, InitialPushesDone, CreateFails, AllCreated,
            JoinThread, JoinNext, Return
    <3> QED
        BY <3>1, <3>2
  <2>3. \A z \in Worker : X(z)' = X(z) /\ V(z)' = V(z)
      BY <2>1 DEF X, V
  <2>4. ASSUME NEW z \in Worker
        PROVE  Owned(z)' = Owned(z) /\ Passed(z)' = Passed(z) /\ HeldLocks(z)' = HeldLocks(z)
    <3>1. CASE pc'[z] = pc[z]
      <4>1. Owned(z)' = Owned(z)
          BY <2>1, <2>3, <3>1 DEF Owned
      <4>2. Passed(z)' = Passed(z)
          BY <2>1, <3>1 DEF Passed
      <4>3. HeldLocks(z)' = HeldLocks(z)
          BY <2>1, <2>3, <3>1 DEF HeldLocks, First
      <4> QED
          BY <4>1, <4>2, <4>3
    <3>2. CASE pc[z] = "unborn" /\ pc'[z] = "take"
        BY <3>2 DEF Owned, Passed, HeldLocks
    <3> QED
        BY <2>2, <3>1, <3>2
  <2>5. ExcessHasOneKeeper'
      BY <2>1, <2>4 DEF ExcessHasOneKeeper
  <2>6. PassedEdgesStayInadmissible'
      BY <2>1, <2>4 DEF PassedEdgesStayInadmissible
  <2>7. LocksOK' /\ ActiveCountIsExact' /\ ListNeverRepeats'
      BY <2>1, <2>4 DEF LocksOK, ActiveCountIsExact, ListNeverRepeats
  <2> QED
      BY <2>5, <2>6, <2>7
<1> QED
    BY <1>1, <1>2

-----------------------------------------------------------------------------
(* The invariant is inductive *)

LEMMA InitIInv == Init => IInv
<1> SUFFICES ASSUME Init PROVE IInv
    OBVIOUS
<1>1. TypeOK
  <2>1. h \in [Node -> Nat] /\ e \in [Node -> Nat] /\ f \in [Edge -> Int]
      BY SizeAssumption DEF Init
  <2>2. excess \in Seq(Inner) /\ active_thread \in Nat
      BY EmptyList DEF Init
  <2>3. /\ node_lock \in [Node -> Worker \cup {Free}]
        /\ pc \in [Worker -> PC] /\ active_before \in [Worker -> BOOLEAN]
        /\ u \in [Worker -> Inner \cup {NoNode}]
        /\ edges \in [Worker -> Nat] /\ d \in [Worker -> Nat]
      BY DEF Init, PC
  <2>4. /\ p \in 0 .. Len(Adj[s]) /\ i \in 0 .. T
        /\ main = "push" /\ result = NoNode
      BY GraphFacts, LengthFacts, ThreadAssumption DEF Init
  <2> QED
      BY <2>1, <2>2, <2>3, <2>4 DEF TypeOK
<1>2. \A w \in Worker : pc[w] = "unborn" /\ active_before[w] = FALSE
    BY DEF Init
<1>3. LocalsOK /\ ExitOK
    BY <1>2 DEF LocalsOK, LocalOK, ExitOK, Working, OnEdge
<1>4. \A w \in Worker : HeldLocks(w) = {} /\ Owned(w) = {} /\ Passed(w) = 0
    BY <1>2 DEF HeldLocks, Owned, Passed
<1>5. LocksOK
    BY <1>4, GraphFacts DEF LocksOK, Init
<1>6. MainOK
    BY <1>1, <1>2, GraphFacts, LinkFacts DEF MainOK, Init
<1>7. ListNeverRepeats /\ ExcessHasOneKeeper
    BY <1>4, EmptyList, GraphFacts DEF Init, ListNeverRepeats, ExcessHasOneKeeper
<1>8. PassedEdgesStayInadmissible
    BY <1>4 DEF PassedEdgesStayInadmissible
<1>9. ActiveCountIsExact
  <2>1. {w \in Worker : active_before[w]} = {}
      BY <1>2
  <2> QED
      BY <2>1, FS_EmptySet DEF ActiveCountIsExact, Init
<1> QED
    BY <1>1, <1>3, <1>5, <1>6, <1>7, <1>8, <1>9 DEF IInv

LEMMA NextIInv == IInv /\ [Next]_vars => IInv'
<1> SUFFICES ASSUME IInv, [Next]_vars PROVE IInv'
    OBVIOUS
<1>1. CASE MainStep
  <2>1. TypeOK' /\ LocalsOK' /\ MainOK' /\ ExitOK'
      BY <1>1, MainTypeOK, MainLocalsOK, MainMainOK, MainExitOK DEF IInv
  <2> QED
      BY <1>1, <2>1, MainRest DEF IInv
<1>2. ASSUME NEW w \in Worker, WorkerStep(w) \/ SpuriousWakeup(w)
      PROVE  IInv'
  <2> USE <1>2 DEF IInv
  <2>1. TypeOK'
      BY WorkerTypeOK
  <2>2. LocalsOK'
      BY WorkerLocalsOK
  <2>3. LocksOK' /\ MainOK' /\ ExitOK'
      BY WorkerLocksOK, WorkerMainOK, WorkerExitOK
  <2>4. ListNeverRepeats' /\ ExcessHasOneKeeper'
      BY WorkerKeeper
  <2>5. PassedEdgesStayInadmissible' /\ ActiveCountIsExact'
      BY WorkerPassed, WorkerActiveCount
  <2> QED
      BY <2>1, <2>2, <2>3, <2>4, <2>5
<1>3. CASE UNCHANGED vars
  <2>1. UNCHANGED <<h, e, f, excess, active_thread, node_lock, pc, active_before,
                    u, edges, d, main, p, i, result>>
      BY <1>3 DEF vars
  <2>2. TypeOK' /\ MainOK' /\ ExitOK' /\ ListNeverRepeats' /\ ActiveCountIsExact'
      BY <2>1 DEF IInv, TypeOK, MainOK, ExitOK, ListNeverRepeats, ActiveCountIsExact
  <2>3. LocalsOK' /\ LocksOK'
      BY <2>1 DEF IInv, LocalsOK, LocalOK, LocksOK, HeldLocks, First, V, X
  <2>4. ExcessHasOneKeeper'
      BY <2>1 DEF IInv, ExcessHasOneKeeper, Owned, V, X
  <2>5. PassedEdgesStayInadmissible'
      BY <2>1 DEF IInv, PassedEdgesStayInadmissible, Passed
  <2> QED
      BY <2>2, <2>3, <2>4, <2>5 DEF IInv
<1> QED
    BY <1>1, <1>2, <1>3 DEF Next, Ended

\* Everything below follows from this one: the invariant of the worker pool.
THEOREM Invariance == Spec => []IInv
BY InitIInv, NextIInv, PTL DEF Spec

\* Every variable keeps its type; no node is left owing flow.
THEOREM TypeCorrect == Spec => []TypeOK
BY Invariance, PTL DEF IInv

\* The intrusive list of enter_excess and leave_excess never holds a node twice.
THEOREM ListAlwaysSound == Spec => []ListNeverRepeats
BY Invariance, PTL DEF IInv

\* No node with excess is lost, and no two workers handle the same one.
THEOREM OneKeeperAlways == Spec => []ExcessHasOneKeeper
BY Invariance, PTL DEF IInv

\* Dropping the locks between two edges of a scan does no harm: an edge passed
\* over stays inadmissible until its node is relabelled.
THEOREM PassedEdgesAlwaysInadmissible == Spec => []PassedEdgesStayInadmissible
BY Invariance, PTL DEF IInv

\* active_thread is the number of threads counted in.
THEOREM ActiveCountAlwaysExact == Spec => []ActiveCountIsExact
BY Invariance, PTL DEF IInv

LEMMA ExitMeansDrained == IInv => NobodyLeavesEarly
<1> SUFFICES ASSUME IInv, NEW w \in Worker, pc[w] = "exited", NEW a \in Inner
             PROVE  e[a] = 0
    BY DEF NobodyLeavesEarly
<1>1. excess = << >> /\ \A z \in Worker : ~active_before[z]
    BY DEF IInv, ExitOK
<1>2. \A z \in Worker : Owned(z) = {}
    BY <1>1 DEF IInv, LocalsOK, LocalOK, Working, Owned
<1>3. Range(excess) = {}
    BY <1>1, EmptyList
<1>4. ~(e[a] > 0)
    BY <1>2, <1>3 DEF IInv, ExcessHasOneKeeper
<1>5. e[a] \in Nat
    BY GraphFacts DEF IInv, TypeOK
<1> QED
    BY <1>4, <1>5

\* When a thread returns, no node but source and sink has excess: the termination
\* protocol of active_thread and excess_cond never lets one go too early.
THEOREM NobodyEverLeavesEarly == Spec => []NobodyLeavesEarly
BY Invariance, ExitMeansDrained, PTL

-----------------------------------------------------------------------------
(* Deadlock: no ring of workers *)

\* A worker that holds a lock and waits holds that of an edge's lower node and
\* waits for that of the higher.
LEMMA WaitsUpwards ==
    ASSUME IInv, NEW w \in Worker, pc[w] = "second"
    PROVE  /\ HeldLocks(w) = {First(w)} /\ Wanted(w) = {Second(w)}
           /\ First(w) \in Node /\ Second(w) \in Node /\ First(w) < Second(w)
<1>1. u[w] \in Node /\ V(w) \in Node /\ u[w] # V(w)
    BY InHand DEF IInv, OnEdge
<1>2. HeldLocks(w) = {First(w)} /\ Wanted(w) = {Second(w)}
    BY DEF HeldLocks, Wanted
<1>3. u[w] \in Int /\ V(w) \in Int
    BY <1>1, GraphFacts
<1> QED
    BY <1>1, <1>2, <1>3 DEF First, Second, LowerFirst, Lesser

\* Whom a worker waits for, if that one waits too, waits higher up.
LEMMA WaitingClimbs ==
    ASSUME IInv, NEW w \in Worker, NEW z \in Worker, WaitsFor(w, z), Wanted(z) # {}
    PROVE  /\ pc[z] = "second"
           /\ pc[w] = "second" => Second(w) < Second(z)
<1>1. PICK a \in Wanted(w) : node_lock[a] = z
    BY DEF WaitsFor
<1>2. a \in Node
  <2>1. CASE pc[w] = "second"
      BY <2>1, <1>1, WaitsUpwards
  <2>2. CASE pc[w] = "scan"
    <3>1. u[w] \in Node /\ edges[w] \in Nat /\ edges[w] <= Len(Adj[u[w]])
        BY <2>2, GraphFacts DEF IInv, TypeOK, LocalsOK, LocalOK, Working
    <3>2. Len(Adj[u[w]]) \in Nat
        BY <3>1, LengthFacts
    <3>3. CASE NoLinkLeft(w)
        BY <2>2, <3>1, <3>3, <1>1 DEF Wanted
    <3>4. CASE ~NoLinkLeft(w)
      <4>1. edges[w] + 1 \in 1 .. Len(Adj[u[w]])
          BY <3>1, <3>2, <3>4 DEF NoLinkLeft
      <4>2. Other(u[w], Adj[u[w]][edges[w] + 1]) \in Node
          BY <3>1, <4>1, LinkFacts
      <4>3. a = LowerFirst(u[w], Other(u[w], Adj[u[w]][edges[w] + 1]))
          BY <2>2, <3>4, <1>1 DEF Wanted
      <4> QED
          BY <3>1, <4>2, <4>3 DEF LowerFirst, Lesser
    <3> QED
        BY <3>3, <3>4
  <2>3. pc[w] \in {"second", "scan"}
      BY <1>1 DEF Wanted
  <2> QED
      BY <2>1, <2>2, <2>3
<1>3. a \in HeldLocks(z)
    BY <1>1, <1>2 DEF IInv, LocksOK
<1>4. pc[z] = "second"
    BY <1>3 DEF Wanted, HeldLocks
<1>5. a = First(z) /\ First(z) < Second(z)
    BY <1>3, <1>4, WaitsUpwards
<1>6. pc[w] = "second" => a = Second(w)
    BY <1>1, WaitsUpwards
<1> QED
    BY <1>4, <1>5, <1>6

LEMMA NoRing == IInv => NobodyWaitsInARing
<1> SUFFICES ASSUME IInv, NEW ring \in (SUBSET Worker) \ {{}}
             PROVE  \E w \in ring : \A z \in ring : ~WaitsFor(w, z)
    BY Zenon DEF NobodyWaitsInARing
<1> SUFFICES ASSUME \A w \in ring : \E z \in ring : WaitsFor(w, z)
             PROVE  FALSE
    OBVIOUS
<1>1. \A w \in ring : Wanted(w) # {}
    BY DEF WaitsFor
<1> DEFINE Holding == {w \in ring : pc[w] = "second"}
           S == {N - Second(w) : w \in Holding}
<1>2. \A w \in ring : \E z \in Holding :
          pc[w] = "second" => Second(w) < Second(z)
  <2> SUFFICES ASSUME NEW w \in ring
               PROVE  \E z \in Holding : pc[w] = "second" => Second(w) < Second(z)
      OBVIOUS
  <2>1. PICK z \in ring : WaitsFor(w, z)
      OBVIOUS
  <2>2. pc[z] = "second" /\ (pc[w] = "second" => Second(w) < Second(z))
      BY <2>1, <1>1, WaitingClimbs
  <2> QED
      BY <2>2
<1>3. Holding # {}
    BY <1>2
<1>4. \A w \in Holding : Second(w) \in Node
    BY WaitsUpwards
<1>5. \A a \in Node : N - a \in Nat /\ a \in Int
    BY SizeAssumption DEF Node
<1>6. S \subseteq Nat /\ S # {}
    BY <1>3, <1>4, <1>5
<1> HIDE DEF S
<1>7. PICK j \in S : \A k \in S : ~(k < j)
    BY <1>6, LeastNatural
<1>8. PICK w \in Holding : j = N - Second(w)
    BY DEF S
<1>9. PICK z \in Holding : Second(w) < Second(z)
    BY <1>2
<1>10. N - Second(z) \in S
    BY DEF S
<1>11. N - Second(z) < N - Second(w)
    BY <1>9, <1>4, <1>5, SizeAssumption
<1> QED
    BY <1>7, <1>8, <1>10, <1>11

\* However many workers scan however many edges, they never wait for each
\* other's node locks in a ring: locking the lower node first is enough.
THEOREM NobodyEverWaitsInARing == Spec => []NobodyWaitsInARing
BY Invariance, NoRing, PTL

-----------------------------------------------------------------------------
(* Refinement: the threads together run PreflowPush *)

Pending == {Adj[s][k] : k \in p + 1 .. Len(Adj[s])}

\* PreflowPush is about the same graph: its definitions are those of FlowGraph.
LEMMA SameGraph ==
    /\ PP!Node = Node /\ PP!Edge = Edge /\ PP!s = s /\ PP!Inner = Inner
    /\ \A a : PP!Incident(a) = Incident(a)
    /\ \A a, x : PP!Other(a, x) = Other(a, x)
    /\ \A fl, ht, a, x : PP!Admissible(fl, ht, a, x) = Admissible(fl, ht, a, x)
    /\ \A fl, ex, a, x : PP!Amount(fl, ex, a, x) = Amount(fl, ex, a, x)
    /\ \A fl, a, x, c : PP!FlowAfter(fl, a, x, c) = FlowAfter(fl, a, x, c)
    /\ \A ex, a, x, c : PP!ExcessAfter(ex, a, x, c) = ExcessAfter(ex, a, x, c)
<1>1. PP!Node = Node /\ PP!Edge = Edge /\ PP!s = s /\ PP!t = t
    BY DEF PP!Node, Node, PP!Edge, Edge, PP!s, s, PP!t, t
<1>2. PP!Inner = Inner
    BY <1>1 DEF PP!Inner, Inner
<1>3. \A a : PP!Incident(a) = Incident(a)
    BY <1>1 DEF PP!Incident, Incident
<1>4. \A a, x : PP!Other(a, x) = Other(a, x)
    BY DEF PP!Other, Other
<1>5. \A fl, a, x : PP!FlowFrom(fl, a, x) = FlowFrom(fl, a, x)
    BY DEF PP!FlowFrom, FlowFrom
<1>6. \A fl, a, x : PP!Residual(fl, a, x) = Residual(fl, a, x)
    BY <1>5 DEF PP!Residual, Residual
<1>7. \A fl, ht, a, x : PP!Admissible(fl, ht, a, x) = Admissible(fl, ht, a, x)
    BY <1>4, <1>5 DEF PP!Admissible, Admissible
<1>8. \A j, k : PP!Lesser(j, k) = Lesser(j, k)
    BY DEF PP!Lesser, Lesser
<1>9. \A fl, ex, a, x : PP!Amount(fl, ex, a, x) = Amount(fl, ex, a, x)
    BY <1>6, <1>8 DEF PP!Amount, Amount
<1>10. \A fl, a, x, c : PP!FlowAfter(fl, a, x, c) = FlowAfter(fl, a, x, c)
    BY DEF PP!FlowAfter, FlowAfter
<1>11. \A ex, a, x, c : PP!ExcessAfter(ex, a, x, c) = ExcessAfter(ex, a, x, c)
    BY <1>4 DEF PP!ExcessAfter, ExcessAfter
<1> QED
    BY <1>1, <1>2, <1>3, <1>4, <1>7, <1>9, <1>10, <1>11

LEMMA InitRefines == Init => PP!Init
<1> SUFFICES ASSUME Init PROVE PP!Init
    OBVIOUS
<1>1. {Adj[s][k] : k \in p + 1 .. Len(Adj[s])} = Incident(s)
  <2>1. p + 1 = 1
      BY DEF Init
  <2>2. \A x \in Incident(s) : \E k \in 1 .. Len(Adj[s]) : Adj[s][k] = x
      BY AdjAssumption, GraphFacts
  <2>3. \A k \in 1 .. Len(Adj[s]) : Adj[s][k] \in Incident(s)
      BY AdjAssumption, GraphFacts
  <2> QED
      BY <2>1, <2>2, <2>3
<1> QED
    BY <1>1, SameGraph DEF Init, PP!Init

LEMMA InitialPushRefines ==
    ASSUME IInv, InitialPush
    PROVE  \E x \in Edge : PP!Saturate(x)
<1>0. PICK x \in Edge : x = Adj[s][p + 1]
    BY InitialPushEffect DEF IInv
<1>1. /\ p' = p + 1 /\ p + 1 \in 1 .. Len(Adj[s]) /\ x \in Edge
      /\ f' = FlowAfter(f, s, x, Cap[x])
      /\ e' = [e EXCEPT ![Other(s, x)] = @ + Cap[x]]
    BY <1>0, InitialPushEffect DEF IInv
<1>2. h' = h
    BY DEF InitialPush
<1>3. p \in Nat /\ Len(Adj[s]) \in Nat
    BY GraphFacts, LengthFacts DEF IInv, TypeOK
<1>4. \A k \in p + 1 .. Len(Adj[s]) : k = p + 1 \/ k \in p + 2 .. Len(Adj[s])
    BY <1>3
<1>5. \A k \in p + 2 .. Len(Adj[s]) : k \in p + 1 .. Len(Adj[s]) /\ Adj[s][k] # x
  <2> SUFFICES ASSUME NEW k \in p + 2 .. Len(Adj[s])
               PROVE  k \in p + 1 .. Len(Adj[s]) /\ Adj[s][k] # x
      OBVIOUS
  <2>1. k \in 1 .. Len(Adj[s]) /\ k # p + 1 /\ k \in p + 1 .. Len(Adj[s])
      BY <1>3
  <2> QED
      BY <2>1, <1>0, <1>1, AdjAssumption, GraphFacts
<1>6. x \in Pending /\ Pending' = Pending \ {x}
  <2>1. Pending = {Adj[s][k] : k \in p + 1 .. Len(Adj[s])} /\ p + 1 \in p + 1 .. Len(Adj[s])
      BY <1>1, <1>3 DEF Pending
  <2>2. p' + 1 = p + 2
      BY <1>1, <1>3
  <2>3. Pending' = {Adj[s][k] : k \in p + 2 .. Len(Adj[s])}
      BY <2>2 DEF Pending
  <2> QED
      BY <2>1, <2>3, <1>0, <1>4, <1>5
<1>7. PP!Saturate(x)
    BY <1>1, <1>2, <1>6, SameGraph DEF PP!Saturate, Pending
<1> QED
    BY <1>7

LEMMA NothingPending ==
    ASSUME IInv, main # "push"
    PROVE  Pending = {}
<1>1. p = Len(Adj[s]) /\ Len(Adj[s]) \in Nat
    BY GraphFacts, LengthFacts DEF IInv, MainOK
<1>2. p + 1 .. Len(Adj[s]) = {}
    BY <1>1
<1> QED
    BY <1>2 DEF Pending

LEMMA PushRefines ==
    ASSUME IInv, NEW w \in Worker, Push(w)
    PROVE  PP!Next
<1>1. /\ pc[w] = "test" /\ main # "push" /\ p' = p
    BY DEF Push, At, mainVars
<1>2. /\ u[w] \in Inner /\ X(w) \in Incident(u[w])
    BY <1>1, InHand DEF IInv, OnEdge
<1>3. e[u[w]] > 0
    BY <1>1, <1>2 DEF IInv, ExcessHasOneKeeper, Owned
<1>4. Pending = {} /\ Pending' = Pending
    BY <1>1, NothingPending DEF Pending
<1>5. PP!Push(u[w], X(w))
    BY <1>3, <1>4, SameGraph DEF Push, PP!Push, Pending
<1> QED
    BY <1>2, <1>5, SameGraph DEF PP!Next

LEMMA RelabelRefines ==
    ASSUME IInv, NEW w \in Worker, Relabel(w)
    PROVE  PP!Next
<1>1. /\ pc[w] = "relabel" /\ main # "push" /\ p' = p
    BY DEF Relabel, At, mainVars
<1>2. u[w] \in Inner /\ u[w] \in Node /\ edges[w] = Len(Adj[u[w]])
    BY <1>1, GraphFacts DEF IInv, LocalsOK, LocalOK, Working
<1>3. e[u[w]] > 0
    BY <1>1, <1>2 DEF IInv, ExcessHasOneKeeper, Owned
<1>4. Pending = {} /\ Pending' = Pending
    BY <1>1, NothingPending DEF Pending
<1>5. \A x \in Incident(u[w]) : ~Admissible(f, h, u[w], x)
  <2>1. Passed(w) = Len(Adj[u[w]])
      BY <1>1, <1>2 DEF Passed
  <2> QED
      BY <1>2, <2>1, AdjAssumption DEF IInv, PassedEdgesStayInadmissible
<1>6. PP!Relabel(u[w])
    BY <1>3, <1>4, <1>5, SameGraph DEF Relabel, PP!Relabel, Pending
<1> QED
    BY <1>2, <1>6, SameGraph DEF PP!Next

LEMMA NextRefines == IInv /\ [Next]_vars => [PP!Next]_(PP!vars)
<1> SUFFICES ASSUME IInv, [Next]_vars PROVE [PP!Next]_(PP!vars)
    OBVIOUS
<1>1. CASE InitialPush
    BY <1>1, InitialPushRefines, SameGraph DEF PP!Next
<1>2. CASE \E w \in Worker : Push(w)
    BY <1>2, PushRefines
<1>3. CASE \E w \in Worker : Relabel(w)
    BY <1>3, RelabelRefines
<1>4. CASE UNCHANGED <<h, e, f, p>>
    BY <1>4 DEF PP!vars
<1>5. CASE MainStep /\ ~InitialPush
    BY <1>4, <1>5 DEF MainStep, InitialPushesDone, CreateThread, CreateFails, AllCreated,
        JoinThread, JoinNext, Return, NotMains, graphVars
<1>6. ASSUME NEW w \in Worker, WorkerStep(w) \/ SpuriousWakeup(w), ~Push(w), ~Relabel(w)
      PROVE  UNCHANGED <<h, e, f, p>>
  <2>1. p' = p
      BY <1>6, WorkerFrame DEF IInv
  <2>2. TakeNode(w) \/ Exit(w) \/ Wait(w) \/ SpuriousWakeup(w) \/ LockFirst(w)
        => UNCHANGED <<h, e, f>>
      BY DEF TakeNode, Exit, Wait, LeavePool, SpuriousWakeup, LockFirst, graphVars
  <2>3. LockSecond(w) \/ Skip(w) \/ EnterPushed(w) \/ FinishPush(w)
        => UNCHANGED <<h, e, f>>
      BY DEF LockSecond, Skip, PassOver, EnterPushed, FinishPush, graphVars
  <2>4. LockForRelabel(w) \/ EnterRelabelled(w) \/ FinishRelabel(w)
        => UNCHANGED <<h, e, f>>
      BY DEF LockForRelabel, EnterRelabelled, FinishRelabel, graphVars
  <2> QED
      BY <1>6, <2>1, <2>2, <2>3, <2>4 DEF WorkerStep
<1>7. CASE UNCHANGED vars
    BY <1>4, <1>7 DEF vars
<1> QED
    BY <1>1, <1>2, <1>3, <1>4, <1>5, <1>6, <1>7 DEF Next, Ended

\* Whatever the interleaving, the locks and the list, the threads do nothing but
\* the pushes and relabels of the sequential algorithm, each when it may.
THEOREM Refinement == Spec => ImplementsPreflowPush
<1>1. Spec => PP!Init /\ [][PP!Next]_(PP!vars)
    BY Invariance, InitRefines, NextRefines, PTL DEF Spec
<1> QED
    BY <1>1 DEF ImplementsPreflowPush, PP!Spec

-----------------------------------------------------------------------------
(* What is proved of the algorithm holds of the threads *)

Algorithm == INSTANCE PreflowPushProof WITH pending <- Pending

\* The same module instantiated twice: all definitions unfold to one text.
LEMMA SameInit == PP!Init => Algorithm!Init
BY Zenon DEF PP!Init, PP!Node, PP!Edge, PP!s, PP!t, PP!Inner, PP!Incident,
         PP!Other, PP!FlowFrom, PP!Residual, PP!Admissible, PP!Lesser,
         PP!Amount, PP!FlowAfter, PP!ExcessAfter, Algorithm!Init,
         Algorithm!Node, Algorithm!Edge, Algorithm!s, Algorithm!t,
         Algorithm!Inner, Algorithm!Incident, Algorithm!Other,
         Algorithm!FlowFrom, Algorithm!Residual, Algorithm!Admissible,
         Algorithm!Lesser, Algorithm!Amount, Algorithm!FlowAfter,
         Algorithm!ExcessAfter, Pending

LEMMA SameNext == [PP!Next]_(PP!vars) => [Algorithm!Next]_(Algorithm!vars)
BY Zenon DEF PP!vars, Algorithm!vars, PP!Saturate, PP!Push, PP!Relabel, PP!Next, PP!Node, PP!Edge, PP!s,
         PP!t, PP!Inner, PP!Incident, PP!Other, PP!FlowFrom, PP!Residual,
         PP!Admissible, PP!Lesser, PP!Amount, PP!FlowAfter, PP!ExcessAfter,
         Algorithm!Saturate, Algorithm!Push, Algorithm!Relabel,
         Algorithm!Next, Algorithm!Node, Algorithm!Edge, Algorithm!s,
         Algorithm!t, Algorithm!Inner, Algorithm!Incident, Algorithm!Other,
         Algorithm!FlowFrom, Algorithm!Residual, Algorithm!Admissible,
         Algorithm!Lesser, Algorithm!Amount, Algorithm!FlowAfter,
         Algorithm!ExcessAfter, Pending

LEMMA RunsTheAlgorithm == Spec => Algorithm!Spec
<1>1. PP!Init /\ [][PP!Next]_(PP!vars) => Algorithm!Init /\ [][Algorithm!Next]_(Algorithm!vars)
    BY SameInit, SameNext, PTL
<1> QED
    BY <1>1, Refinement DEF ImplementsPreflowPush, PP!Spec, Algorithm!Spec

\* The assumptions of the instance are those of this module.
LEMMA SameInput ==
    /\ Algorithm!Node = Node /\ Algorithm!Edge = Edge
    /\ \A a : Algorithm!Incident(a) = Incident(a)
<1>1. Algorithm!Node = Node /\ Algorithm!Edge = Edge
    BY DEF Algorithm!Node, Node, Algorithm!Edge, Edge
<1> QED
    BY <1>1 DEF Algorithm!Incident, Incident

\* However the threads interleave, no edge ever carries more than its capacity
\* (assertion abs(e->f) <= e->c of push).
THEOREM CapacityAlwaysRespected == Spec => []PP!CapacityRespected
<1>1. Algorithm!Spec => []Algorithm!CapacityRespected
    BY Algorithm!CapacityAlwaysRespected, SameInput, SizeAssumption, EdgeAssumption,
       AdjAssumption
<1>2. Algorithm!CapacityRespected => PP!CapacityRespected
    BY DEF Algorithm!CapacityRespected, PP!CapacityRespected, Algorithm!Edge, PP!Edge
<1> QED
    BY <1>1, <1>2, RunsTheAlgorithm, PTL

\* The reference value of the instance is that of this module.
LEMMA SameAnswer == Algorithm!MaxFlowValue = MaxFlowValue
<1>1. Algorithm!Node = Node /\ Algorithm!Edge = Edge /\ Algorithm!s = s /\ Algorithm!t = t
    BY DEF Algorithm!Node, Node, Algorithm!Edge, Edge, Algorithm!s, s, Algorithm!t, t
<1>2. Algorithm!Cuts = Cuts
    BY <1>1, Zenon DEF Algorithm!Cuts, Cuts
<1>3. \A S : Algorithm!Crossing(S) = Crossing(S)
    BY <1>1, Zenon DEF Algorithm!Crossing, Crossing
<1>4. \A S, g : Algorithm!SumOver(S, g) = SumOver(S, g)
    BY Zenon DEF Algorithm!SumOver, SumOver, Algorithm!Sets!MapThenSumSet,
        Sets!MapThenSumSet, Algorithm!Sets!MapThenFoldSet, Sets!MapThenFoldSet
<1> QED
    BY <1>2, <1>3, <1>4, Zenon DEF Algorithm!MaxFlowValue, MaxFlowValue, Algorithm!Sets!Min, Sets!Min

\* When preflow returns, no node keeps excess, and the value returned is that of a
\* maximum flow, for any number of threads.
THEOREM AnswerAlwaysMaxFlow == Spec => []AnswerIsMaxFlow
<1>1. Algorithm!Spec => []Algorithm!AnswerIsMaxFlow
    BY Algorithm!AnswerAlwaysMaxFlow, SameInput, SizeAssumption, EdgeAssumption,
       AdjAssumption
<1>2. IInv /\ Algorithm!AnswerIsMaxFlow => AnswerIsMaxFlow
  <2> SUFFICES ASSUME IInv, Algorithm!AnswerIsMaxFlow, main = "returned"
               PROVE  result = MaxFlowValue /\ \A a \in Inner : e[a] = 0
      BY DEF AnswerIsMaxFlow
  <2>1. result = e[t] /\ i = T /\ \A w \in Worker : w <= i => pc[w] = "exited"
      BY DEF IInv, MainOK
  <2>2. 1 \in Worker /\ 1 <= T
      BY ThreadAssumption DEF Worker
  <2>3. \A a \in Inner : e[a] = 0
      BY <2>1, <2>2, ExitMeansDrained DEF NobodyLeavesEarly
  <2>4. Algorithm!Inner = Inner /\ Algorithm!t = t
      BY DEF Algorithm!Inner, Inner, Algorithm!Node, Node, Algorithm!s, s, Algorithm!t, t
  <2>5. Algorithm!Done
      BY <2>3, <2>4, NothingPending DEF Algorithm!Done
  <2>6. e[t] = MaxFlowValue
      BY <2>4, <2>5, SameAnswer DEF Algorithm!AnswerIsMaxFlow
  <2> QED
      BY <2>1, <2>3, <2>6
<1> QED
    BY <1>1, <1>2, RunsTheAlgorithm, Invariance, PTL

\* No thread raises a node to 2N, whatever the others do meanwhile.
THEOREM HeightAlwaysBounded == Spec => []PP!HeightBound
<1>1. Algorithm!Spec => []Algorithm!HeightBound
    BY Algorithm!HeightAlwaysBounded, SameInput, SizeAssumption, EdgeAssumption,
       AdjAssumption
<1>2. Algorithm!HeightBound => PP!HeightBound
    BY DEF Algorithm!HeightBound, PP!HeightBound, Algorithm!Node, PP!Node
<1> QED
    BY <1>1, <1>2, RunsTheAlgorithm, PTL

LEMMA SameLimit == Algorithm!SourceCapacity = SourceCapacity
<1>1. Algorithm!Incident(Algorithm!s) = Incident(s)
    BY SameInput DEF Algorithm!s, s
<1>2. \A S, g : Algorithm!SumOver(S, g) = SumOver(S, g)
    BY Zenon DEF Algorithm!SumOver, SumOver, Algorithm!Sets!MapThenSumSet,
        Sets!MapThenSumSet, Algorithm!Sets!MapThenFoldSet, Sets!MapThenFoldSet
<1> QED
    BY <1>1, <1>2, Zenon DEF Algorithm!SourceCapacity, SourceCapacity

ExcessBound == \A a \in Node : e[a] <= SourceCapacity

\* However the threads interleave, no node has more than the edges of the source can
\* carry together, so a sum of capacities that fits an int is all that u->e, v->e and
\* s->e need.
THEOREM ExcessAlwaysBounded == Spec => []ExcessBound
<1>1. Algorithm!Spec => []Algorithm!ExcessBound
    BY Algorithm!ExcessAlwaysBounded, SameInput, SizeAssumption, EdgeAssumption,
       AdjAssumption
<1>2. Algorithm!ExcessBound => ExcessBound
    BY SameInput, SameLimit DEF Algorithm!ExcessBound, ExcessBound
<1> QED
    BY <1>1, <1>2, RunsTheAlgorithm, PTL

=============================================================================
