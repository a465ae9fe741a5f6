-------------------------- MODULE JavaPreflowProof --------------------------
(***************************************************************************)
(* Proofs about JavaPreflow, for every graph and any number of threads:    *)
(* what the ranges, the queues and the single lock per edge guarantee,     *)
(* although updates of e are lost.                                         *)
(***************************************************************************)
EXTENDS JavaPreflow, FlowGraphProof

-----------------------------------------------------------------------------
(* The parts of the invariant.                                              *)

\* Only nodes with an edge are ever worked on.
EdgesReached ==
    /\ \A a \in Node : e[a] # 0 => Len(Adj[a]) > 0
    /\ \A w \in Thread : \A a \in QueueOf(w) : Len(Adj[a]) > 0

\* Tasks are made one after the other, when the initial pushes are done, and the
\* constructor looks at the nodes of its range only.
StartOrder ==
    /\ \A w \in Thread : w >= threadID => at[w].step = "new"
    /\ p < Len(Adj[s]) => i = 0 /\ threadID = 0
    /\ threadID < T => i >= Lesser(Start(threadID), N)

\* The locks w holds, by the place it is at.
Held(w) ==
    (IF at[w].step \in {"edge"} \cup PushSteps \cup RelabelSteps THEN {at[w].u} ELSE {})
    \cup (IF at[w].step \in PushSteps THEN Second(w) ELSE {})

LocksFit == \A w \in Thread : \A a \in Node : lock[a] = w <=> a \in Held(w)

-----------------------------------------------------------------------------
(* Arithmetic of the ranges.                                                *)

\* What truncating division does.
LEMMA DivFacts ==
    ASSUME NEW x \in Nat, NEW k \in Nat, k > 0
    PROVE  x \div k \in Nat /\ k * (x \div k) <= x /\ x < k * (x \div k) + k
OBVIOUS

\* The ranges of two threads are a whole range apart.
LEMMA MultiplesApart ==
    ASSUME NEW a \in Nat, NEW b \in Nat, NEW k \in Nat, a < b
    PROVE  a * k + k <= b * k
OBVIOUS

\* Multiples, one after the other.
LEMMA NextMultiple ==
    ASSUME NEW a \in Nat, NEW k \in Nat
    PROVE  a * k \in Nat /\ (a + 1) * k = a * k + k /\ a * k = k * a
OBVIOUS

\* nodesPerThread is positive, and the threads' ranges together have all nodes.
LEMMA RangeSize ==
    NodesPerThread \in Nat /\ NodesPerThread > 0 /\ N <= NodesPerThread * T
<1> DEFINE x == N + T - 1
<1>1. x \in Nat /\ T \in Nat /\ T > 0 /\ N \in Nat /\ x >= T
    BY SizeAssumption, ThreadAssumption
<1> HIDE DEF x
<1>2. x \div T \in Nat /\ T * (x \div T) <= x /\ x < T * (x \div T) + T
    BY <1>1, DivFacts
<1> DEFINE k == x \div T
<1>3. k = NodesPerThread
    BY DEF x, NodesPerThread
<1>4. k \in Nat /\ x < T * k + T /\ T * k = k * T
    BY <1>1, <1>2, NextMultiple
<1>5. k > 0
  <2>1. SUFFICES ASSUME k = 0 PROVE FALSE
      BY <1>4
  <2>2. T * k = 0
      BY <2>1, <1>1
  <2> HIDE DEF k
  <2> QED BY <2>2, <1>4, <1>1
<1>6. N <= k * T
  <2>1. T * k \in Nat
      BY <1>4, <1>1, NextMultiple
  <2> HIDE DEF k
  <2> QED BY <2>1, <1>4, <1>1 DEF x
<1> QED BY <1>3, <1>4, <1>5, <1>6

\* A thread's range begins where the one before it ends.
LEMMA StartFacts ==
    ASSUME NEW w \in Thread
    PROVE  /\ Start(w) \in Nat /\ End(w) \in Nat /\ End(w) <= N
           /\ End(w) = Lesser(Start(w + 1), N)
           /\ w + 1 \in Nat
<1>1. w \in Nat /\ N \in Nat
    BY SizeAssumption, ThreadAssumption DEF Thread
<1>2. Start(w) \in Nat /\ Start(w + 1) = Start(w) + NodesPerThread
    BY <1>1, RangeSize, NextMultiple DEF Start
<1> QED BY <1>1, <1>2, RangeSize DEF End, Lesser

\* ownerThread is the thread in whose range a node is.
LEMMA OwnerFacts ==
    ASSUME NEW a \in Node
    PROVE  /\ ownerThread(a) \in Thread
           /\ InRange(ownerThread(a), a)
           /\ \A w \in Thread : InRange(w, a) => w = ownerThread(a)
<1> DEFINE k == NodesPerThread
           q == a \div NodesPerThread
<1>1. a \in Nat /\ a < N /\ N \in Nat /\ T \in Nat /\ T > 0 /\ N >= 2
    BY SizeAssumption, ThreadAssumption DEF Node
<1>2. k \in Nat /\ k > 0 /\ N <= k * T
    BY RangeSize
<1>3. q \in Nat /\ k * q <= a /\ a < k * q + k
    BY <1>1, <1>2, DivFacts
<1> HIDE DEF k, q
<1>4. q < T
  <2>1. SUFFICES ASSUME q >= T PROVE FALSE
      BY <1>3, <1>1
  <2>2. T * k <= q * k
    <3>1. CASE q = T
        BY <3>1, <1>1, <1>2, <1>3
    <3>2. CASE T < q
        BY <3>2, <1>1, <1>2, <1>3, MultiplesApart, NextMultiple
    <3> QED BY <2>1, <3>1, <3>2, <1>1, <1>3
  <2>3. T * k = k * T /\ q * k = k * q /\ T * k \in Nat /\ q * k \in Nat
      BY <1>1, <1>2, <1>3, NextMultiple
  <2> QED BY <2>2, <2>3, <1>1, <1>2, <1>3
<1>5. ownerThread(a) = q /\ q \in Thread
    BY <1>4, <1>1, <1>3 DEF ownerThread, Lesser, q, Thread
<1>6. q * k = k * q /\ q * k \in Nat
    BY <1>2, <1>3, NextMultiple
<1>7. InRange(q, a)
    BY <1>1, <1>2, <1>3, <1>6 DEF InRange, Start, End, Lesser, k
<1>8. ASSUME NEW w \in Thread, InRange(w, a) PROVE w = q
  <2>1. w \in Nat /\ w * k \in Nat
      BY <1>1, <1>2, NextMultiple DEF Thread
  <2>2. w * k <= a /\ a < w * k + k
      BY <1>8, <2>1, <1>1, <1>2 DEF InRange, Start, End, Lesser, k
  <2>3. ~(w < q)
    <3>1. SUFFICES ASSUME w < q PROVE FALSE
        OBVIOUS
    <3>2. w * k + k <= q * k
        BY <3>1, <2>1, <1>2, <1>3, MultiplesApart
    <3> QED BY <3>2, <2>1, <2>2, <1>1, <1>2, <1>3, <1>6
  <2>4. ~(q < w)
    <3>1. SUFFICES ASSUME q < w PROVE FALSE
        OBVIOUS
    <3>2. q * k + k <= w * k
        BY <3>1, <2>1, <1>2, <1>3, MultiplesApart
    <3> QED BY <3>2, <2>1, <2>2, <1>1, <1>2, <1>3, <1>6
  <2> QED BY <2>1, <2>3, <2>4, <1>3
<1> QED BY <1>5, <1>7, <1>8

-----------------------------------------------------------------------------
(* Queues.                                                                  *)

Members(q) == {q[j] : j \in 1 .. Len(q)}

\* The nodes of the two queues of a thread.
LEMMA QueueIsMembers ==
    ASSUME NEW w \in Thread
    PROVE  QueueOf(w) = Members(localq[w]) \cup Members(externalQueue[w])
BY DEF QueueOf, Members

\* A queue that a node has joined at the end.
LEMMA AppendMembers ==
    ASSUME NEW q \in Seq(Node), NEW a \in Node
    PROVE  Append(q, a) \in Seq(Node) /\ Members(Append(q, a)) = Members(q) \cup {a}
<1>1. /\ Append(q, a) \in Seq(Node)
      /\ Len(q) \in Nat
      /\ Len(Append(q, a)) = Len(q) + 1
      /\ Append(q, a)[Len(q) + 1] = a
      /\ \A j \in 1 .. Len(q) : Append(q, a)[j] = q[j]
    BY AppendProperties, LenProperties
<1>2. 1 .. Len(q) + 1 = (1 .. Len(q)) \cup {Len(q) + 1}
    BY <1>1
<1> QED BY <1>1, <1>2 DEF Members

\* A queue whose first node has been taken.
LEMMA TailMembers ==
    ASSUME NEW q \in Seq(Node), q # << >>
    PROVE  /\ Head(q) \in Node /\ Tail(q) \in Seq(Node)
           /\ Members(q) = Members(Tail(q)) \cup {Head(q)}
<1>1. /\ Head(q) \in Node /\ Tail(q) \in Seq(Node)
      /\ Len(q) \in Nat /\ Len(q) >= 1
      /\ Len(Tail(q)) = Len(q) - 1
      /\ \A j \in 1 .. Len(Tail(q)) : Tail(q)[j] = q[j + 1]
      /\ Head(q) = q[1]
    BY HeadTailProperties, LenProperties, EmptySeq
<1>2. \A j \in 1 .. Len(q) : j = 1 \/ (j - 1 \in 1 .. Len(Tail(q)) /\ q[j] = Tail(q)[j - 1])
    BY <1>1
<1>3. \A j \in 1 .. Len(Tail(q)) : j + 1 \in 1 .. Len(q) /\ Tail(q)[j] = q[j + 1]
    BY <1>1
<1>4. 1 \in 1 .. Len(q)
    BY <1>1
<1>5. Members(q) \subseteq Members(Tail(q)) \cup {Head(q)}
    BY <1>1, <1>2 DEF Members
<1>6. Members(Tail(q)) \subseteq Members(q)
  <2>1. SUFFICES ASSUME NEW j \in 1 .. Len(Tail(q)) PROVE Tail(q)[j] \in Members(q)
      BY DEF Members
  <2> QED BY <2>1, <1>3 DEF Members
<1>7. Head(q) \in Members(q)
    BY <1>1, <1>4 DEF Members
<1> QED BY <1>1, <1>5, <1>6, <1>7

\* A queue in the beginning.
LEMMA EmptyMembers == Members(<< >>) = {} /\ << >> \in Seq(Node)
BY EmptySeq DEF Members

-----------------------------------------------------------------------------
(* Types.                                                                   *)

Places == [step : Steps, u : Node, k : Nat, d : Int, seen : Int,
           pushed : BOOLEAN, min : Int]

\* A place the loop makes.
LEMMA PlaceType ==
    ASSUME NEW step \in Steps, NEW a \in Node, NEW k \in Nat, NEW pushed \in BOOLEAN
    PROVE  /\ Place(step, a, k, pushed) \in Places
           /\ Place(step, a, k, pushed).step = step
           /\ Place(step, a, k, pushed).u = a
           /\ Place(step, a, k, pushed).k = k
           /\ Place(step, a, k, pushed).pushed = pushed
BY DEF Place, Places, IntMax

\* A place with a new node, or with none.
LEMMA FreshPlace ==
    ASSUME NEW step \in Steps, NEW a \in Node
    PROVE  /\ Place(step, a, 1, FALSE) \in Places
           /\ Place(step, a, 1, FALSE).step = step
           /\ Place(step, a, 1, FALSE).u = a
           /\ Place(step, a, 1, FALSE).k = 1
           /\ Place(step, a, 1, FALSE).pushed = FALSE
BY DEF Place, Places, IntMax

\* The edge a working thread is at, and its other end.
LEMMA EdgeFacts ==
    ASSUME TypeOK, NEW w \in Thread, at[w].step \in Working
    PROVE  /\ at[w].u \in Node /\ Len(Adj[at[w].u]) > 0
           /\ X(w) \in Edge /\ X(w) \in Incident(at[w].u)
           /\ at[w].u \in {EdgeU[X(w)], EdgeV[X(w)]}
           /\ V(w) \in Node /\ V(w) # at[w].u
           /\ Len(Adj[V(w)]) > 0
<1>1. at[w].u \in Node /\ at[w].k \in 1 .. Len(Adj[at[w].u]) /\ Len(Adj[at[w].u]) \in Nat
    BY LengthFacts DEF TypeOK
<1>2. /\ X(w) \in Edge /\ X(w) \in Incident(at[w].u)
      /\ at[w].u \in {EdgeU[X(w)], EdgeV[X(w)]}
      /\ V(w) \in Node /\ V(w) # at[w].u
    BY <1>1, LinkFacts DEF X, V
<1>3. X(w) \in Incident(V(w))
    BY <1>2, EdgeAssumption DEF Incident, V, Other
<1>4. \E j \in 1 .. Len(Adj[V(w)]) : TRUE
    BY <1>2, <1>3, AdjAssumption
<1>5. Len(Adj[V(w)]) \in Nat
    BY <1>2, LengthFacts
<1> QED BY <1>1, <1>2, <1>4, <1>5

\* The thread goes to the next edge, to relabel or to its queues.
LEMMA GoOnFacts ==
    ASSUME TypeOK, NEW w \in Thread, at[w].step \in Working,
           NEW pushed \in BOOLEAN, NEW held, GoOn(w, pushed, held)
    PROVE  /\ at' \in [Thread -> Places]
           /\ \A z \in Thread : z # w => at'[z] = at[z]
           /\ at'[w].step \in {"edge", "take", "look"}
           /\ at'[w].step # "take" => /\ at'[w].u = at[w].u
                                     /\ at'[w].k \in 1 .. Len(Adj[at[w].u])
                                     /\ at'[w].pushed = pushed
           /\ at'[w].step = "take" => pushed
           /\ at'[w].step = "look" => ~pushed
           /\ lock' = [a \in Node |->
                         IF a \in held \cup (IF at'[w].step = "take" THEN {at[w].u} ELSE {})
                         THEN NoOne ELSE lock[a]]
<1> DEFINE next == IF ~LastEdge(w) THEN Place("edge", at[w].u, at[w].k + 1, pushed)
                   ELSE IF pushed  THEN Place("take", s, 1, FALSE)
                                   ELSE Place("look", at[w].u, 1, FALSE)
<1>1. /\ at' = [at EXCEPT ![w] = next]
      /\ lock' = Unlocked(held \cup (IF LastEdge(w) /\ pushed THEN {at[w].u} ELSE {}))
    BY DEF GoOn
<1>2. at \in [Thread -> Places] /\ at[w].u \in Node /\ at[w].k \in 1 .. Len(Adj[at[w].u])
    BY DEF TypeOK, Places
<1>3. Len(Adj[at[w].u]) \in Nat
    BY <1>2, LengthFacts
<1>4. at[w].k + 1 \in Nat /\ (~LastEdge(w) => at[w].k + 1 \in 1 .. Len(Adj[at[w].u]))
    BY <1>2, <1>3 DEF LastEdge
<1>5. 1 \in Nat /\ 1 \in 1 .. Len(Adj[at[w].u])
    BY <1>2, <1>3
<1>6. {"edge", "take", "look"} \subseteq Steps
    BY DEF Steps, RelabelSteps
<1>7. /\ next \in Places
      /\ ~LastEdge(w) => /\ next.step = "edge" /\ next.u = at[w].u
                         /\ next.k = at[w].k + 1 /\ next.pushed = pushed
      /\ LastEdge(w) /\ pushed => next.step = "take"
      /\ LastEdge(w) /\ ~pushed => /\ next.step = "look" /\ next.u = at[w].u
                                   /\ next.k = 1 /\ next.pushed = FALSE
  <2>1. CASE ~LastEdge(w)
    <3>1. next = Place("edge", at[w].u, at[w].k + 1, pushed)
        BY <2>1
    <3> QED BY <2>1, <3>1, <1>2, <1>4, <1>6, PlaceType
  <2>2. CASE LastEdge(w) /\ pushed
    <3>1. next = Place("take", s, 1, FALSE)
        BY <2>2
    <3>2. /\ Place("take", s, 1, FALSE) \in Places
          /\ Place("take", s, 1, FALSE).step = "take"
        BY <1>6, FreshPlace, NodeFacts
    <3> HIDE DEF next
    <3> QED BY <2>2, <3>1, <3>2
  <2>3. CASE LastEdge(w) /\ ~pushed
    <3>1. next = Place("look", at[w].u, 1, FALSE)
        BY <2>3
    <3>2. /\ Place("look", at[w].u, 1, FALSE) \in Places
          /\ Place("look", at[w].u, 1, FALSE).step = "look"
          /\ Place("look", at[w].u, 1, FALSE).u = at[w].u
          /\ Place("look", at[w].u, 1, FALSE).k = 1
          /\ Place("look", at[w].u, 1, FALSE).pushed = FALSE
        BY <1>2, <1>6, FreshPlace
    <3> HIDE DEF next
    <3> QED BY <2>3, <3>1, <3>2
  <2> QED BY <2>1, <2>2, <2>3
<1> HIDE DEF next
<1>8. at' \in [Thread -> Places] /\ at'[w] = next /\ \A z \in Thread : z # w => at'[z] = at[z]
    BY <1>1, <1>2, <1>7
<1>9. (LastEdge(w) /\ pushed) <=> at'[w].step = "take"
    BY <1>7, <1>8
<1> QED BY <1>1, <1>4, <1>5, <1>7, <1>8, <1>9 DEF Unlocked

\* relabel looks at the next edge, or has its new height.
LEMMA LookOnFacts ==
    ASSUME TypeOK, NEW w \in Thread, at[w].step \in Working,
           NEW min \in Int, LookOn(w, min)
    PROVE  /\ at' \in [Thread -> Places]
           /\ \A z \in Thread : z # w => at'[z] = at[z]
           /\ at'[w].step \in {"look", "raise"}
           /\ at'[w].u = at[w].u /\ at'[w].pushed = at[w].pushed
           /\ at'[w].k \in 1 .. Len(Adj[at[w].u])
<1>1. at \in [Thread -> Places] /\ at[w].u \in Node /\ at[w].k \in 1 .. Len(Adj[at[w].u])
    BY DEF TypeOK, Places
<1>2. Len(Adj[at[w].u]) \in Nat
    BY <1>1, LengthFacts
<1>3. {"look", "raise"} \subseteq Steps
    BY DEF Steps, RelabelSteps
<1>4. at[w].k + 1 \in Nat /\ (~LastEdge(w) => at[w].k + 1 \in 1 .. Len(Adj[at[w].u]))
      /\ 1 \in 1 .. Len(Adj[at[w].u])
    BY <1>1, <1>2 DEF LastEdge
<1> QED BY <1>1, <1>3, <1>4 DEF LookOn, Places

\* What a push moves and leaves behind are integers, whatever e has become.
LEMMA AmountIsInt ==
    ASSUME TypeOK, NEW a \in Node, NEW x \in Edge, NEW ex \in [Node -> Int]
    PROVE  /\ Residual(f, a, x) \in Int
           /\ Amount(f, ex, a, x) \in Int
           /\ \A d \in Int : /\ FlowAfter(f, a, x, d) \in [Edge -> Int]
                            /\ ExcessAfter(ex, a, x, d) \in [Node -> Int]
<1>1. f \in [Edge -> Int] /\ Cap[x] \in Int /\ ex[a] \in Int /\ f[x] \in Int
    BY EdgeAssumption DEF TypeOK
<1>2. Residual(f, a, x) \in Int
    BY <1>1 DEF Residual, FlowFrom
<1>3. Amount(f, ex, a, x) \in Int
    BY <1>1, <1>2 DEF Amount, Lesser
<1>4. ASSUME NEW d \in Int
      PROVE  FlowAfter(f, a, x, d) \in [Edge -> Int]
    BY <1>1 DEF FlowAfter
<1>5. ASSUME NEW d \in Int
      PROVE  ExcessAfter(ex, a, x, d) \in [Node -> Int]
  <2>1. Other(a, x) \in Node /\ ex[Other(a, x)] \in Int
      BY EdgeAssumption DEF Other
  <2> QED BY <1>1, <2>1 DEF ExcessAfter
<1> QED BY <1>2, <1>3, <1>4, <1>5

\* The places of the threads, after a step that changes the place of one of them.
PlacesFit == /\ at \in [Thread -> Places]
             /\ \A w \in Thread : at[w].step \in Working => at[w].k \in 1 .. Len(Adj[at[w].u])

\* One thread goes to a place with its types.
LEMMA OnePlace ==
    ASSUME PlacesFit, NEW w \in Thread, at' \in [Thread -> Places],
           \A z \in Thread : z # w => at'[z] = at[z],
           at'[w].step \in Working => at'[w].k \in 1 .. Len(Adj[at'[w].u])
    PROVE  PlacesFit'
BY DEF PlacesFit

\* A thread that stays with its edge and goes to another step of the push.
LEMMA SameEdge ==
    ASSUME TypeOK, NEW w \in Thread, at[w].step \in Working,
           NEW step \in Steps, To(w, step)
    PROVE  /\ PlacesFit'
           /\ \A z \in Thread : z # w => at'[z] = at[z]
           /\ at'[w] = [at[w] EXCEPT !.step = step]
<1>1. at \in [Thread -> Places] /\ PlacesFit
    BY DEF TypeOK, Places, PlacesFit
<1>2. at' \in [Thread -> Places] /\ at'[w] = [at[w] EXCEPT !.step = step]
      /\ \A z \in Thread : z # w => at'[z] = at[z]
    BY <1>1 DEF To, Places
<1>3. at'[w].k \in 1 .. Len(Adj[at'[w].u])
    BY <1>1, <1>2 DEF PlacesFit, Places
<1> QED BY <1>1, <1>2, <1>3, OnePlace

\* The places and locks behind an edge have their types.
LEMMA GoOnTypes ==
    ASSUME TypeOK, NEW w \in Thread, at[w].step \in Working,
           NEW pushed \in BOOLEAN, NEW held, GoOn(w, pushed, held)
    PROVE  PlacesFit' /\ lock' \in [Node -> Thread \cup {NoOne}]
<1>1. PlacesFit /\ lock \in [Node -> Thread \cup {NoOne}]
    BY DEF TypeOK, Places, PlacesFit
<1>2. /\ at' \in [Thread -> Places]
      /\ \A z \in Thread : z # w => at'[z] = at[z]
      /\ at'[w].step # "take" => at'[w].u = at[w].u /\ at'[w].k \in 1 .. Len(Adj[at[w].u])
    BY GoOnFacts
<1>3. PlacesFit'
    BY <1>1, <1>2, OnePlace DEF Working
<1> QED BY <1>1, <1>3 DEF GoOn, Unlocked

\* The values the steps of the loop write.
LEMMA SpecialNodes == s \in Node /\ {"take", "lock", "edge", "done"} \subseteq Steps
BY NodeFacts DEF Steps

\* The types, and the lists of edges, in the beginning.
LEMMA TypeInit == Init => TypeOK /\ EdgesReached
<1> SUFFICES ASSUME Init PROVE TypeOK /\ EdgesReached
    OBVIOUS
<1> USE DEF Init
<1>1. Place("new", s, 1, FALSE) \in Places /\ Place("new", s, 1, FALSE).step = "new"
    BY NodeFacts, FreshPlace DEF Steps
<1>2. s \in Node /\ N \in Int /\ N >= 0 /\ T \in Nat /\ Len(Adj[s]) \in Nat
    BY NodeFacts, SizeAssumption, ThreadAssumption, LengthFacts
<1>3. TypeOK
  <2>1. localq \in [Thread -> Seq(Node)] /\ externalQueue \in [Thread -> Seq(Node)]
      BY EmptyMembers
  <2>2. at \in [Thread -> Places] /\ \A w \in Thread : at[w].step \notin Working
      BY <1>1 DEF Working
  <2>3. lock \in [Node -> Thread \cup {NoOne}]
      OBVIOUS
  <2>4. h \in [Node -> Int] /\ e \in [Node -> Int] /\ f \in [Edge -> Int]
      BY <1>2
  <2>5. p \in 0 .. Len(Adj[s]) /\ i \in 0 .. N /\ threadID \in 0 .. T /\ result \in Int
      BY <1>2 DEF Running
  <2> QED BY <2>1, <2>2, <2>3, <2>4, <2>5, Zenon DEF TypeOK, Places
<1>4. EdgesReached
    BY QueueIsMembers, EmptyMembers DEF EdgesReached
<1> QED BY <1>3, <1>4

\* Every action keeps the types.
LEMMA TypeStep ==
    ASSUME TypeOK, EdgesReached, Next
    PROVE  TypeOK'
<1>1. /\ h \in [Node -> Int] /\ e \in [Node -> Int] /\ f \in [Edge -> Int]
      /\ lock \in [Node -> Thread \cup {NoOne}]
      /\ localq \in [Thread -> Seq(Node)] /\ externalQueue \in [Thread -> Seq(Node)]
      /\ PlacesFit
      /\ p \in 0 .. Len(Adj[s]) /\ i \in 0 .. N /\ threadID \in 0 .. T
      /\ result \in Int
    BY DEF TypeOK, PlacesFit, Places
<1>2. s \in Node /\ Len(Adj[s]) \in Nat /\ N \in Nat /\ T \in Nat
    BY NodeFacts, LengthFacts, SizeAssumption, ThreadAssumption
<1> DEFINE Goal == /\ h' \in [Node -> Int] /\ e' \in [Node -> Int] /\ f' \in [Edge -> Int]
                   /\ lock' \in [Node -> Thread \cup {NoOne}]
                   /\ localq' \in [Thread -> Seq(Node)] /\ externalQueue' \in [Thread -> Seq(Node)]
                   /\ PlacesFit'
                   /\ p' \in 0 .. Len(Adj[s]) /\ i' \in 0 .. N /\ threadID' \in 0 .. T
                   /\ result' \in Int
<1>3. SUFFICES Goal
    BY DEF TypeOK, PlacesFit, Places
<1>4. ASSUME NEW as PROVE Unlocked(as) \in [Node -> Thread \cup {NoOne}]
    BY <1>1 DEF Unlocked
<1>5. at = at' => PlacesFit'
    BY <1>1 DEF PlacesFit
<1>6. ASSUME NEW w \in Thread, NEW place \in Places, at' = [at EXCEPT ![w] = place],
             place.step \in Working => place.k \in 1 .. Len(Adj[place.u])
      PROVE  PlacesFit'
  <2>1. at' \in [Thread -> Places] /\ at'[w] = place /\ \A z \in Thread : z # w => at'[z] = at[z]
      BY <1>1, <1>6 DEF PlacesFit
  <2> QED BY <2>1, <1>1, <1>6, OnePlace
<1>7. CASE InitialPush
  <2>1. p \in Nat /\ p < Len(Adj[s]) /\ p + 1 \in 1 .. Len(Adj[s])
      BY <1>1, <1>2, <1>7 DEF InitialPush
  <2> DEFINE x == Adj[s][p + 1]
             ex == [e EXCEPT ![s] = @ + Cap[x]]
             d == Amount(f, ex, s, x)
  <2>2. x \in Edge
      BY <2>1, <1>2, LinkFacts
  <2>3. ex \in [Node -> Int]
      BY <1>1, <1>2, <2>2, EdgeAssumption
  <2>4. f' = FlowAfter(f, s, x, d) /\ e' = ExcessAfter(ex, s, x, d) /\ p' = p + 1
      BY <1>7 DEF InitialPush
  <2> HIDE DEF ex, x
  <2>5. f' \in [Edge -> Int] /\ e' \in [Node -> Int]
      BY <2>2, <2>3, <2>4, <1>2, AmountIsInt
  <2>6. /\ UNCHANGED <<h, lock, localq, externalQueue, at, i, threadID, result>>
        /\ p' \in 0 .. Len(Adj[s])
      BY <2>1, <2>4, <1>2, <1>7 DEF InitialPush
  <2> QED BY <2>5, <2>6, <1>1, <1>5
<1>8. CASE ScanNode
  <2>1. threadID \in Thread /\ i < End(threadID)
      BY <1>1, <1>2, <1>8 DEF ScanNode, MoreThreads, Thread
  <2>2. End(threadID) <= N /\ End(threadID) \in Nat
      BY <2>1, StartFacts
  <2>3. i \in Node
      BY <2>1, <2>2, <1>1, <1>2 DEF Node
  <2>4. Append(localq[threadID], i) \in Seq(Node)
      BY <2>1, <2>3, <1>1, AppendMembers
  <2> QED BY <2>1, <2>2, <2>4, <1>1, <1>2, <1>5, <1>8 DEF ScanNode, shared
<1>9. CASE StartThread
  <2>1. threadID \in Thread /\ threadID' = threadID + 1 /\ threadID' \in 0 .. T
      BY <1>1, <1>2, <1>9 DEF StartThread, MoreThreads, Thread
  <2>2. /\ at[threadID] \in Places
        /\ at' = [at EXCEPT ![threadID] = [at[threadID] EXCEPT !.step = "take"]]
      BY <2>1, <1>1, <1>9 DEF StartThread, To, PlacesFit
  <2>3. [at[threadID] EXCEPT !.step = "take"] \in Places
      BY <2>2, SpecialNodes DEF Places
  <2>4. [at[threadID] EXCEPT !.step = "take"].step \notin Working
      BY <2>2 DEF Working, Places
  <2>5. PlacesFit'
      BY <1>6, <2>1, <2>2, <2>3, <2>4
  <2> QED BY <2>1, <2>5, <1>1, <1>9 DEF StartThread, shared
<1>10. CASE Return
  <2>1. t \in Node
      BY NodeFacts
  <2> QED BY <2>1, <1>1, <1>5, <1>10 DEF Return, shared
<1>11. ASSUME NEW w \in Thread, ThreadStep(w) PROVE Goal
  <2>0. /\ mainVars' = mainVars
        /\ at[w] \in Places
      BY <1>1, <1>11 DEF PlacesFit, ThreadStep, TakeNode, Exit, LockNode, ExamineEdge, ReadAmount,
           PushFlow, LoadExcess, StoreExcess, QueueOwn, QueueOther, OfferOther, LookAtFlow,
           LookAtHeight, Raise, Requeue
  <2>1. CASE TakeNode(w)
    <3>1. SUFFICES PlacesFit' /\ localq' \in [Thread -> Seq(Node)]
                   /\ externalQueue' \in [Thread -> Seq(Node)]
        BY <2>0, <2>1, <1>1 DEF TakeNode, shared, mainVars
    <3>2. ASSUME NEW q \in Seq(Node), q # << >>, Members(q) \subseteq QueueOf(w),
                 at' = [at EXCEPT ![w] = Place("lock", Head(q), 1, FALSE)]
          PROVE  PlacesFit'
      <4>1. Head(q) \in Node /\ Head(q) \in QueueOf(w)
          BY <3>2, TailMembers
      <4>2. 1 \in 1 .. Len(Adj[Head(q)])
          BY <4>1, LengthFacts DEF EdgesReached
      <4>3. /\ Place("lock", Head(q), 1, FALSE) \in Places
            /\ Place("lock", Head(q), 1, FALSE).u = Head(q)
            /\ Place("lock", Head(q), 1, FALSE).k = 1
          BY <4>1, SpecialNodes, FreshPlace
      <4> QED BY <3>2, <4>2, <4>3, <1>6
    <3>3. CASE localq[w] # << >>
      <4>1. localq[w] \in Seq(Node) /\ Tail(localq[w]) \in Seq(Node)
          BY <3>3, <1>1, TailMembers
      <4>2. Members(localq[w]) \subseteq QueueOf(w)
          BY QueueIsMembers
      <4> QED BY <3>2, <3>3, <4>1, <4>2, <2>1, <1>1 DEF TakeNode
    <3>4. CASE localq[w] = << >> /\ externalQueue[w] # << >>
      <4>1. externalQueue[w] \in Seq(Node) /\ Tail(externalQueue[w]) \in Seq(Node)
          BY <3>4, <1>1, TailMembers
      <4>2. Members(externalQueue[w]) \subseteq QueueOf(w)
          BY QueueIsMembers
      <4> QED BY <3>2, <3>4, <4>1, <4>2, <2>1, <1>1 DEF TakeNode
    <3> QED BY <3>3, <3>4, <2>1 DEF TakeNode
  <2>2. CASE Exit(w)
    <3>1. Place("done", s, 1, FALSE) \in Places /\ Place("done", s, 1, FALSE).step = "done"
        BY SpecialNodes, FreshPlace
    <3>2. PlacesFit'
        BY <1>6, <2>2, <3>1 DEF Exit, Working
    <3> QED BY <3>2, <2>0, <2>2, <1>1 DEF Exit, shared, mainVars
  <2>3. CASE LockNode(w)
    <3>1. PlacesFit'
        BY <2>3, SpecialNodes, SameEdge DEF LockNode, Working
    <3> QED BY <3>1, <2>0, <2>3, <1>1 DEF LockNode, shared, mainVars
  <2>4. CASE ExamineEdge(w)
    <3>1. at[w].step \in Working /\ "amount" \in Steps
        BY <2>4 DEF ExamineEdge, Working, Steps, PushSteps
    <3>2. CASE Admissible(f, h, at[w].u, X(w))
      <4>1. PlacesFit'
          BY <3>1, <3>2, <2>4, SameEdge DEF ExamineEdge
      <4> QED BY <4>1, <3>2, <2>0, <2>4, <1>1 DEF ExamineEdge, shared, mainVars
    <3>3. CASE ~Admissible(f, h, at[w].u, X(w))
      <4>1. GoOn(w, at[w].pushed, {}) /\ at[w].pushed \in BOOLEAN
          BY <3>3, <2>0, <2>4 DEF ExamineEdge, Places
      <4>2. PlacesFit' /\ lock' \in [Node -> Thread \cup {NoOne}]
          BY <4>1, <3>1, GoOnTypes
      <4> QED BY <4>2, <2>0, <2>4, <1>1 DEF ExamineEdge, shared, mainVars
    <3> QED BY <3>2, <3>3
  <2>5. CASE ReadAmount(w)
    <3>1. at[w].step \in Working /\ "flow" \in Steps
        BY <2>5 DEF ReadAmount, Working, Steps, PushSteps
    <3>2. Amount(f, e, at[w].u, X(w)) \in Int
        BY <3>1, <1>1, EdgeFacts, AmountIsInt
    <3> DEFINE d == Amount(f, e, at[w].u, X(w))
               place == [[at[w] EXCEPT !.d = d] EXCEPT !.step = "flow"]
    <3>3. at' = [at EXCEPT ![w] = place]
        BY <2>0, <2>5, <1>1 DEF ReadAmount, PlacesFit
    <3> HIDE DEF d
    <3>4. place \in Places /\ place.u = at[w].u /\ place.k = at[w].k
        BY <2>0, <3>1, <3>2 DEF Places, d
    <3> HIDE DEF place
    <3>5. PlacesFit'
        BY <3>1, <3>3, <3>4, <1>1, <1>6 DEF PlacesFit
    <3> QED BY <3>5, <2>0, <2>5, <1>1 DEF ReadAmount, shared, mainVars
  <2>6. CASE PushFlow(w)
    <3>1. at[w].step \in Working /\ "loadU" \in Steps /\ at[w].d \in Int
        BY <2>0, <2>6 DEF PushFlow, Working, Steps, PushSteps, Places
    <3>2. PlacesFit'
        BY <3>1, <2>6, SameEdge DEF PushFlow
    <3>3. f' \in [Edge -> Int]
        BY <3>1, <2>6, <1>1, EdgeFacts, AmountIsInt DEF PushFlow
    <3> QED BY <3>2, <3>3, <2>0, <2>6, <1>1 DEF PushFlow, mainVars
  <2>7. CASE LoadExcess(w)
    <3>1. at[w].step \in Working /\ {"storeU", "storeV"} \subseteq Steps
        BY <2>7 DEF LoadExcess, Working, Steps, PushSteps
    <3>2. e[at[w].u] \in Int /\ e[V(w)] \in Int
        BY <3>1, <1>1, EdgeFacts
    <3> DEFINE seen == IF at[w].step = "loadU" THEN e[at[w].u] ELSE e[V(w)]
               step == IF at[w].step = "loadU" THEN "storeU" ELSE "storeV"
               place == [[at[w] EXCEPT !.seen = seen] EXCEPT !.step = step]
    <3>3. at' = [at EXCEPT ![w] = place]
        BY <2>0, <2>7, <1>1 DEF LoadExcess, PlacesFit
    <3>4. seen \in Int /\ step \in Steps
        BY <3>1, <3>2
    <3> HIDE DEF seen, step
    <3>5. place \in Places /\ place.u = at[w].u /\ place.k = at[w].k
        BY <2>0, <3>1, <3>4 DEF Places
    <3> HIDE DEF place
    <3>6. PlacesFit'
        BY <3>1, <3>3, <3>5, <1>1, <1>6 DEF PlacesFit
    <3> QED BY <3>6, <2>0, <2>7, <1>1 DEF LoadExcess, shared, mainVars
  <2>8. CASE StoreExcess(w)
    <3>1. at[w].step \in Working /\ {"loadV", "queueU"} \subseteq Steps
          /\ at[w].d \in Int /\ at[w].seen \in Int
        BY <2>0, <2>8 DEF StoreExcess, Working, Steps, PushSteps, Places
    <3>2. PlacesFit'
        BY <3>1, <2>8, SameEdge DEF StoreExcess
    <3>3. e' \in [Node -> Int]
        BY <3>1, <2>8, <1>1 DEF StoreExcess
    <3> QED BY <3>2, <3>3, <2>0, <2>8, <1>1 DEF StoreExcess, mainVars
  <2>9. CASE QueueOwn(w)
    <3>1. at[w].step \in Working /\ "queueV" \in Steps
        BY <2>9 DEF QueueOwn, Working, Steps, PushSteps
    <3>2. PlacesFit'
        BY <3>1, <2>9, SameEdge DEF QueueOwn
    <3>3. localq[w] \in Seq(Node) /\ Append(localq[w], at[w].u) \in Seq(Node)
        BY <3>1, <1>1, EdgeFacts, AppendMembers
    <3>4. localq' \in [Thread -> Seq(Node)]
        BY <3>3, <2>9, <1>1 DEF QueueOwn
    <3> QED BY <3>2, <3>4, <2>0, <2>9, <1>1 DEF QueueOwn, shared, mainVars
  <2>10. CASE QueueOther(w)
    <3>1. at[w].step \in Working /\ "offer" \in Steps
        BY <2>10 DEF QueueOther, Working, Steps, PushSteps
    <3>2. CASE OtherIsActive(w) /\ ~InRange(w, V(w))
      <4>1. PlacesFit'
          BY <3>1, <3>2, <2>10, SameEdge DEF QueueOther
      <4> QED BY <4>1, <3>2, <2>0, <2>10, <1>1 DEF QueueOther, shared, mainVars
    <3>3. CASE ~(OtherIsActive(w) /\ ~InRange(w, V(w)))
      <4>1. GoOn(w, TRUE, Second(w))
          BY <3>3, <2>10 DEF QueueOther
      <4>2. PlacesFit' /\ lock' \in [Node -> Thread \cup {NoOne}]
          BY <4>1, <3>1, GoOnTypes
      <4>3. localq[w] \in Seq(Node) /\ Append(localq[w], V(w)) \in Seq(Node)
          BY <3>1, <1>1, EdgeFacts, AppendMembers
      <4>4. localq' \in [Thread -> Seq(Node)]
          BY <3>3, <4>3, <2>10, <1>1 DEF QueueOther
      <4> QED BY <4>2, <4>4, <2>0, <2>10, <1>1 DEF QueueOther, shared, mainVars
    <3> QED BY <3>2, <3>3
  <2>11. CASE OfferOther(w)
    <3>1. at[w].step \in Working
        BY <2>11 DEF OfferOther, Working, Steps, PushSteps
    <3>2. GoOn(w, TRUE, Second(w))
        BY <2>11 DEF OfferOther
    <3>3. PlacesFit' /\ lock' \in [Node -> Thread \cup {NoOne}]
        BY <3>1, <3>2, GoOnTypes
    <3>4. externalQueue' \in [Thread -> Seq(Node)]
        BY <3>1, <2>11, <1>1, EdgeFacts, OwnerFacts, AppendMembers DEF OfferOther, enqueueExternal
    <3> QED BY <3>3, <3>4, <2>0, <2>11, <1>1 DEF OfferOther, shared, mainVars
  <2>12. CASE LookAtFlow(w)
    <3>1. at[w].step \in Working /\ "height" \in Steps /\ at[w].min \in Int
        BY <2>0, <2>12 DEF LookAtFlow, Working, Steps, RelabelSteps, PushSteps, Places
    <3>2. CASE Residual(f, at[w].u, X(w)) > 0
      <4>1. PlacesFit'
          BY <3>1, <3>2, <2>12, SameEdge DEF LookAtFlow
      <4> QED BY <4>1, <2>0, <2>12, <1>1 DEF LookAtFlow, shared, mainVars
    <3>3. CASE ~(Residual(f, at[w].u, X(w)) > 0)
      <4>1. PlacesFit'
          BY <3>1, <3>3, <2>12, <1>1, LookOnFacts, OnePlace DEF LookAtFlow
      <4> QED BY <4>1, <2>0, <2>12, <1>1 DEF LookAtFlow, shared, mainVars
    <3> QED BY <3>2, <3>3
  <2>13. CASE LookAtHeight(w)
    <3>1. at[w].step \in Working /\ at[w].min \in Int
        BY <2>0, <2>13 DEF LookAtHeight, Working, Steps, RelabelSteps, Places
    <3>2. Lesser(at[w].min, h[V(w)]) \in Int
        BY <3>1, <1>1, EdgeFacts DEF Lesser
    <3>3. PlacesFit'
        BY <3>1, <3>2, <2>13, <1>1, LookOnFacts, OnePlace DEF LookAtHeight
    <3> QED BY <3>3, <2>0, <2>13, <1>1 DEF LookAtHeight, shared, mainVars
  <2>14. CASE Raise(w)
    <3>1. at[w].step \in Working /\ "requeue" \in Steps /\ at[w].min \in Int
        BY <2>0, <2>14 DEF Raise, Working, Steps, RelabelSteps, Places
    <3>2. Above(at[w].min) \in Int /\ IntMax \in Int
        BY <3>1 DEF Above, IntMax, IntMin
    <3> DEFINE place == [[at[w] EXCEPT !.step = "requeue"] EXCEPT !.min = IntMax]
    <3>3. at' = [at EXCEPT ![w] = place]
        BY <2>0, <2>14, <1>1 DEF Raise, PlacesFit
    <3>4. place \in Places /\ place.u = at[w].u /\ place.k = at[w].k
        BY <2>0, <3>1, <3>2 DEF Places
    <3> HIDE DEF place
    <3>5. PlacesFit'
        BY <3>1, <3>3, <3>4, <1>1, <1>6 DEF PlacesFit
    <3>6. h' \in [Node -> Int]
        BY <3>2, <2>14, <1>1 DEF Raise
    <3> QED BY <3>5, <3>6, <2>0, <2>14, <1>1 DEF Raise, mainVars
  <2>15. CASE Requeue(w)
    <3>1. at[w].step \in Working
        BY <2>15 DEF Requeue, Working, Steps, RelabelSteps
    <3>2. Place("take", s, 1, FALSE) \in Places /\ Place("take", s, 1, FALSE).step = "take"
        BY SpecialNodes, FreshPlace
    <3>3. PlacesFit'
        BY <1>6, <2>15, <3>2 DEF Requeue, Working
    <3>4. lock' \in [Node -> Thread \cup {NoOne}]
        BY <2>15, <1>4 DEF Requeue
    <3>5. /\ localq[w] \in Seq(Node) /\ Append(localq[w], at[w].u) \in Seq(Node)
          /\ ownerThread(at[w].u) \in Thread
          /\ Append(externalQueue[ownerThread(at[w].u)], at[w].u) \in Seq(Node)
        BY <3>1, <1>1, EdgeFacts, OwnerFacts, AppendMembers
    <3>6. localq' \in [Thread -> Seq(Node)] /\ externalQueue' \in [Thread -> Seq(Node)]
        BY <3>5, <2>15, <1>1 DEF Requeue, enqueueExternal
    <3> QED BY <3>3, <3>4, <3>6, <2>0, <2>15, <1>1 DEF Requeue, shared, mainVars
  <2> QED BY <2>1, <2>2, <2>3, <2>4, <2>5, <2>6, <2>7, <2>8, <2>9, <2>10, <2>11, <2>12,
             <2>13, <2>14, <2>15, <1>11 DEF ThreadStep
<1> QED BY <1>7, <1>8, <1>9, <1>10, <1>11 DEF Next, MainStep

-----------------------------------------------------------------------------
(* Queues and ranges.                                                       *)

\* A node joins the localq of w.
LEMMA Kept ==
    ASSUME TypeOK, NEW w \in Thread, NEW a \in Node,
           localq' = [localq EXCEPT ![w] = Append(@, a)], externalQueue' = externalQueue
    PROVE  /\ QueueOf(w)' = QueueOf(w) \cup {a}
           /\ \A z \in Thread : z # w => QueueOf(z)' = QueueOf(z)
<1>1. localq[w] \in Seq(Node) /\ localq'[w] = Append(localq[w], a)
      /\ \A z \in Thread : z # w => localq'[z] = localq[z]
    BY DEF TypeOK
<1>2. Members(localq'[w]) = Members(localq[w]) \cup {a}
    BY <1>1, AppendMembers
<1>3. \A z \in Thread : /\ QueueOf(z) = Members(localq[z]) \cup Members(externalQueue[z])
                        /\ QueueOf(z)' = Members(localq'[z]) \cup Members(externalQueue'[z])
    BY DEF QueueOf, Members
<1> QED BY <1>1, <1>2, <1>3

\* A node is offered to its owner.
LEMMA Offered ==
    ASSUME TypeOK, NEW a \in Node, enqueueExternal(a), localq' = localq
    PROVE  /\ QueueOf(ownerThread(a))' = QueueOf(ownerThread(a)) \cup {a}
           /\ \A z \in Thread : z # ownerThread(a) => QueueOf(z)' = QueueOf(z)
<1> DEFINE w == ownerThread(a)
<1>1. w \in Thread
    BY OwnerFacts
<1>2. externalQueue' = [externalQueue EXCEPT ![w] = Append(@, a)]
    BY DEF enqueueExternal
<1> HIDE DEF w
<1>3. externalQueue[w] \in Seq(Node) /\ externalQueue'[w] = Append(externalQueue[w], a)
      /\ \A z \in Thread : z # w => externalQueue'[z] = externalQueue[z]
    BY <1>1, <1>2 DEF TypeOK
<1>4. Members(externalQueue'[w]) = Members(externalQueue[w]) \cup {a}
    BY <1>3, AppendMembers
<1>5. \A z \in Thread : /\ QueueOf(z) = Members(localq[z]) \cup Members(externalQueue[z])
                        /\ QueueOf(z)' = Members(localq'[z]) \cup Members(externalQueue'[z])
    BY DEF QueueOf, Members
<1>6. QueueOf(w)' = QueueOf(w) \cup {a} /\ \A z \in Thread : z # w => QueueOf(z)' = QueueOf(z)
    BY <1>1, <1>3, <1>4, <1>5
<1> QED BY <1>6 DEF w

\* A node leaves a queue for the place of its thread.
LEMMA Taken ==
    ASSUME TypeOK, NEW w \in Thread, TakeNode(w)
    PROVE  /\ QueueOf(w) = QueueOf(w)' \cup {at'[w].u}
           /\ at'[w].step = "lock" /\ at'[w].pushed = FALSE
           /\ \A z \in Thread : z # w => QueueOf(z)' = QueueOf(z) /\ at'[z] = at[z]
<1>1. \A z \in Thread : /\ QueueOf(z) = Members(localq[z]) \cup Members(externalQueue[z])
                        /\ QueueOf(z)' = Members(localq'[z]) \cup Members(externalQueue'[z])
    BY DEF QueueOf, Members
<1>2. localq[w] \in Seq(Node) /\ externalQueue[w] \in Seq(Node) /\ w \in DOMAIN localq
      /\ w \in DOMAIN externalQueue /\ w \in DOMAIN at
    BY DEF TypeOK
<1>3. CASE localq[w] # << >>
  <2>1. /\ at' = [at EXCEPT ![w] = Place("lock", Head(localq[w]), 1, FALSE)]
        /\ localq' = [localq EXCEPT ![w] = Tail(@)]
        /\ externalQueue' = externalQueue
      BY <1>3 DEF TakeNode
  <2>2. Head(localq[w]) \in Node /\ Members(localq[w]) = Members(Tail(localq[w])) \cup {Head(localq[w])}
      BY <1>2, <1>3, TailMembers
  <2>3. /\ localq'[w] = Tail(localq[w]) /\ at'[w] = Place("lock", Head(localq[w]), 1, FALSE)
        /\ \A z \in Thread : z # w => localq'[z] = localq[z] /\ at'[z] = at[z]
      BY <1>2, <2>1
  <2>4. at'[w].step = "lock" /\ at'[w].pushed = FALSE /\ at'[w].u = Head(localq[w])
    <3>1. /\ Place("lock", Head(localq[w]), 1, FALSE).step = "lock"
          /\ Place("lock", Head(localq[w]), 1, FALSE).pushed = FALSE
          /\ Place("lock", Head(localq[w]), 1, FALSE).u = Head(localq[w])
        BY <2>2, SpecialNodes, FreshPlace
    <3> QED BY <2>3, <3>1
  <2> QED BY <1>1, <2>1, <2>2, <2>3, <2>4
<1>4. CASE localq[w] = << >> /\ externalQueue[w] # << >>
  <2>1. /\ at' = [at EXCEPT ![w] = Place("lock", Head(externalQueue[w]), 1, FALSE)]
        /\ externalQueue' = [externalQueue EXCEPT ![w] = Tail(@)]
        /\ localq' = localq
      BY <1>4 DEF TakeNode
  <2>2. /\ Head(externalQueue[w]) \in Node
        /\ Members(externalQueue[w]) = Members(Tail(externalQueue[w])) \cup {Head(externalQueue[w])}
      BY <1>2, <1>4, TailMembers
  <2>3. /\ externalQueue'[w] = Tail(externalQueue[w])
        /\ at'[w] = Place("lock", Head(externalQueue[w]), 1, FALSE)
        /\ \A z \in Thread : z # w => externalQueue'[z] = externalQueue[z] /\ at'[z] = at[z]
      BY <1>2, <2>1
  <2>4. at'[w].step = "lock" /\ at'[w].pushed = FALSE /\ at'[w].u = Head(externalQueue[w])
    <3>1. /\ Place("lock", Head(externalQueue[w]), 1, FALSE).step = "lock"
          /\ Place("lock", Head(externalQueue[w]), 1, FALSE).pushed = FALSE
          /\ Place("lock", Head(externalQueue[w]), 1, FALSE).u = Head(externalQueue[w])
        BY <2>2, SpecialNodes, FreshPlace
    <3> QED BY <2>3, <3>1
  <2> QED BY <1>1, <2>1, <2>2, <2>3, <2>4
<1> QED BY <1>3, <1>4 DEF TakeNode

\* What a step can do to the queues: only the owner of a node gets it, and only
\* the owner takes it.
LEMMA QueueStep ==
    ASSUME TypeOK, EdgesReached, StartOrder, OwnersAgree, Next
    PROVE  \A z \in Thread :
             /\ \A a \in QueueOf(z)' :
                  a \in QueueOf(z) \/ (a \in Node /\ z = ownerThread(a) /\ Len(Adj[a]) > 0)
             /\ \A a \in QueueOf(z) :
                  a \in QueueOf(z)' \/ (at'[z].step = "lock" /\ at'[z].u = a /\ at'[z].pushed = FALSE)
<1> DEFINE Goal == \A z \in Thread :
             /\ \A a \in QueueOf(z)' :
                  a \in QueueOf(z) \/ (a \in Node /\ z = ownerThread(a) /\ Len(Adj[a]) > 0)
             /\ \A a \in QueueOf(z) :
                  a \in QueueOf(z)' \/ (at'[z].step = "lock" /\ at'[z].u = a /\ at'[z].pushed = FALSE)
<1>1. ASSUME localq' = localq, externalQueue' = externalQueue PROVE Goal
    BY <1>1 DEF QueueOf
<1>2. ASSUME NEW w \in Thread, NEW a \in Node, InRange(w, a), Len(Adj[a]) > 0,
             localq' = [localq EXCEPT ![w] = Append(@, a)], externalQueue' = externalQueue
      PROVE  Goal
  <2>1. w = ownerThread(a)
      BY <1>2, OwnerFacts
  <2> QED BY <1>2, <2>1, Kept
<1>3. ASSUME NEW a \in Node, Len(Adj[a]) > 0, enqueueExternal(a), localq' = localq
      PROVE  Goal
    BY <1>3, OwnerFacts, Offered
<1>4. CASE InitialPush
    BY <1>4, <1>1 DEF InitialPush
<1>5. CASE ScanNode
  <2>1. /\ threadID \in Thread /\ i < End(threadID) /\ i \in Nat /\ threadID < T
        /\ externalQueue' = externalQueue
      BY <1>5, ThreadAssumption, SizeAssumption DEF ScanNode, MoreThreads, Thread, TypeOK
  <2>2. /\ End(threadID) <= N /\ End(threadID) \in Nat /\ N \in Nat
        /\ Start(threadID) \in Nat
      BY <2>1, StartFacts, SizeAssumption
  <2>3. i \in Node /\ InRange(threadID, i)
      BY <2>1, <2>2 DEF Node, InRange, StartOrder, Lesser
  <2>4. CASE e[i] > 0 /\ i \in Inner
    <3>1. Len(Adj[i]) > 0
        BY <2>3, <2>4 DEF EdgesReached
    <3> QED BY <1>2, <1>5, <2>1, <2>3, <2>4, <3>1 DEF ScanNode
  <2>5. CASE ~(e[i] > 0 /\ i \in Inner)
      BY <1>1, <1>5, <2>5 DEF ScanNode
  <2> QED BY <2>4, <2>5
<1>6. CASE StartThread
    BY <1>6, <1>1 DEF StartThread
<1>7. CASE Return
    BY <1>7, <1>1 DEF Return
<1>8. ASSUME NEW w \in Thread, ThreadStep(w) PROVE Goal
  <2>1. CASE TakeNode(w)
      BY <2>1, Taken
  <2>2. CASE Exit(w) \/ LockNode(w) \/ ExamineEdge(w) \/ ReadAmount(w) \/ PushFlow(w)
             \/ LoadExcess(w) \/ StoreExcess(w) \/ LookAtFlow(w) \/ LookAtHeight(w) \/ Raise(w)
      BY <2>2, <1>1 DEF Exit, LockNode, ExamineEdge, ReadAmount, PushFlow, LoadExcess,
           StoreExcess, LookAtFlow, LookAtHeight, Raise
  <2>3. CASE QueueOwn(w)
    <3>1. at[w].step \in Working /\ externalQueue' = externalQueue
        BY <2>3 DEF QueueOwn, Working, Steps, PushSteps
    <3>2. CASE e[at[w].u] > 0 /\ InRange(w, at[w].u)
        BY <1>2, <2>3, <3>1, <3>2, EdgeFacts DEF QueueOwn
    <3>3. CASE ~(e[at[w].u] > 0 /\ InRange(w, at[w].u))
        BY <1>1, <2>3, <3>1, <3>3 DEF QueueOwn
    <3> QED BY <3>2, <3>3
  <2>4. CASE QueueOther(w)
    <3>1. at[w].step \in Working /\ externalQueue' = externalQueue
        BY <2>4 DEF QueueOther, Working, Steps, PushSteps
    <3>2. CASE OtherIsActive(w) /\ InRange(w, V(w))
        BY <1>2, <2>4, <3>1, <3>2, EdgeFacts DEF QueueOther
    <3>3. CASE ~(OtherIsActive(w) /\ InRange(w, V(w)))
        BY <1>1, <2>4, <3>1, <3>3 DEF QueueOther
    <3> QED BY <3>2, <3>3
  <2>5. CASE OfferOther(w)
    <3>1. at[w].step \in Working
        BY <2>5 DEF OfferOther, Working, Steps, PushSteps
    <3> QED BY <1>3, <2>5, <3>1, EdgeFacts DEF OfferOther
  <2>6. CASE Requeue(w)
    <3>1. at[w].step \in Working
        BY <2>6 DEF Requeue, Working, Steps, RelabelSteps
    <3>2. CASE e[at[w].u] <= 0
        BY <1>1, <2>6, <3>2 DEF Requeue
    <3>3. CASE ~(e[at[w].u] <= 0) /\ InRange(w, at[w].u)
        BY <1>2, <2>6, <3>1, <3>3, EdgeFacts DEF Requeue
    <3>4. CASE ~(e[at[w].u] <= 0) /\ ~InRange(w, at[w].u)
        BY <1>3, <2>6, <3>1, <3>4, EdgeFacts DEF Requeue
    <3> QED BY <3>2, <3>3, <3>4
  <2> QED BY <2>1, <2>2, <2>3, <2>4, <2>5, <2>6, <1>8 DEF ThreadStep
<1> QED BY <1>4, <1>5, <1>6, <1>7, <1>8 DEF Next, MainStep

\* What a step can do to the places: a thread works on the node it worked on, or
\* on one from its queues, and only main starts a thread.
LEMMA PlaceStep ==
    ASSUME TypeOK, Next
    PROVE  \A z \in Thread :
             /\ at'[z].step \in Working =>
                   \/ at[z].step \in Working /\ at'[z].u = at[z].u
                   \/ at'[z].u \in QueueOf(z)
             /\ at[z].step = "new" => at'[z] = at[z] \/ (StartThread /\ z = threadID)
<1> DEFINE Fits(z) ==
             /\ at'[z].step \in Working =>
                   \/ at[z].step \in Working /\ at'[z].u = at[z].u
                   \/ at'[z].u \in QueueOf(z)
             /\ at[z].step = "new" => at'[z] = at[z] \/ (StartThread /\ z = threadID)
<1>1. at \in [Thread -> Places]
    BY DEF TypeOK, Places
<1>2. ASSUME NEW z \in Thread, at'[z] = at[z] PROVE Fits(z)
    BY <1>2
<1>3. CASE InitialPush \/ ScanNode \/ Return
    BY <1>2, <1>3 DEF InitialPush, ScanNode, Return
<1>4. CASE StartThread
  <2>1. at' = [at EXCEPT ![threadID].step = "take"]
      BY <1>4 DEF StartThread, To
  <2>2. ASSUME NEW z \in Thread PROVE Fits(z)
    <3>1. CASE z = threadID
      <4>1. at'[z].step = "take"
          BY <1>1, <2>1, <3>1 DEF Places
      <4> QED BY <4>1, <1>4, <3>1 DEF Working
    <3>2. CASE z # threadID
        BY <1>1, <1>2, <2>1, <3>2
    <3> QED BY <3>1, <3>2
  <2> QED BY <2>2
<1>5. ASSUME NEW w \in Thread, ThreadStep(w) PROVE \A z \in Thread : Fits(z)
  <2> DEFINE Goal == /\ \A z \in Thread : z # w => at'[z] = at[z]
                     /\ at'[w].step \in Working => at'[w].u = at[w].u
  <2>0. ASSUME at[w].step \in Working, Goal PROVE \A z \in Thread : Fits(z)
    <3>1. ASSUME NEW z \in Thread PROVE Fits(z)
      <4>1. CASE z = w
        <5>1. at[w].step # "new"
            BY <2>0 DEF Working
        <5> QED BY <2>0, <4>1, <5>1
      <4>2. CASE z # w
          BY <1>2, <2>0, <4>2
      <4> QED BY <4>1, <4>2
    <3> QED BY <3>1
  <2>1. CASE TakeNode(w)
    <3>1. at[w].step = "take"
        BY <2>1 DEF TakeNode
    <3>2. at'[w].u \in QueueOf(w) /\ \A z \in Thread : z # w => at'[z] = at[z]
        BY <2>1, Taken
    <3>3. ASSUME NEW z \in Thread PROVE Fits(z)
        BY <1>2, <3>1, <3>2
    <3> QED BY <3>3
  <2>2. CASE Exit(w)
    <3>1. at[w].step = "take" /\ at' = [at EXCEPT ![w] = Place("done", s, 1, FALSE)]
        BY <2>2 DEF Exit
    <3>2. Place("done", s, 1, FALSE).step = "done"
        BY SpecialNodes, FreshPlace
    <3>3. at'[w].step = "done" /\ \A z \in Thread : z # w => at'[z] = at[z]
        BY <1>1, <3>1, <3>2
    <3>4. ASSUME NEW z \in Thread PROVE Fits(z)
        BY <1>2, <3>1, <3>3 DEF Working
    <3> QED BY <3>4
  <2>3. ASSUME NEW step \in Steps, at[w].step \in Working, To(w, step)
        PROVE  \A z \in Thread : Fits(z)
    <3>1. Goal
        BY <2>3, <1>1, SameEdge DEF Places
    <3> QED BY <2>0, <2>3, <3>1
  <2>4. CASE LockNode(w)
      BY <2>3, <2>4, SpecialNodes DEF LockNode, Working
  <2>5. CASE ExamineEdge(w)
    <3>1. at[w].step \in Working /\ "amount" \in Steps /\ at[w].pushed \in BOOLEAN
        BY <2>5, <1>1 DEF ExamineEdge, Working, Steps, PushSteps, Places
    <3>2. CASE Admissible(f, h, at[w].u, X(w))
        BY <2>3, <2>5, <3>1, <3>2 DEF ExamineEdge
    <3>3. CASE ~Admissible(f, h, at[w].u, X(w))
      <4>1. GoOn(w, at[w].pushed, {})
          BY <2>5, <3>3 DEF ExamineEdge
      <4>2. Goal
          BY <3>1, <4>1, GoOnFacts DEF Working
      <4> QED BY <2>0, <3>1, <4>2
    <3> QED BY <3>2, <3>3
  <2>6. CASE ReadAmount(w)
    <3>1. at[w].step \in Working
        BY <2>6 DEF ReadAmount, Working, Steps, PushSteps
    <3>2. Goal
        BY <2>6, <1>1 DEF ReadAmount, Places
    <3> QED BY <2>0, <3>1, <3>2
  <2>7. CASE PushFlow(w)
      BY <2>3, <2>7 DEF PushFlow, Working, Steps, PushSteps
  <2>8. CASE LoadExcess(w)
    <3>1. at[w].step \in Working
        BY <2>8 DEF LoadExcess, Working, Steps, PushSteps
    <3>2. Goal
        BY <2>8, <1>1 DEF LoadExcess, Places
    <3> QED BY <2>0, <3>1, <3>2
  <2>9. CASE StoreExcess(w)
      BY <2>3, <2>9 DEF StoreExcess, Working, Steps, PushSteps
  <2>10. CASE QueueOwn(w)
      BY <2>3, <2>10 DEF QueueOwn, Working, Steps, PushSteps
  <2>11. CASE QueueOther(w)
    <3>1. at[w].step \in Working /\ "offer" \in Steps
        BY <2>11 DEF QueueOther, Working, Steps, PushSteps
    <3>2. CASE To(w, "offer")
        BY <2>3, <3>1, <3>2
    <3>3. CASE GoOn(w, TRUE, Second(w))
      <4>1. Goal
          BY <3>1, <3>3, GoOnFacts DEF Working
      <4> QED BY <2>0, <3>1, <4>1
    <3> QED BY <2>11, <3>2, <3>3 DEF QueueOther
  <2>12. CASE OfferOther(w)
    <3>1. at[w].step \in Working /\ GoOn(w, TRUE, Second(w))
        BY <2>12 DEF OfferOther, Working, Steps, PushSteps
    <3>2. Goal
        BY <3>1, GoOnFacts DEF Working
    <3> QED BY <2>0, <3>1, <3>2
  <2>13. CASE LookAtFlow(w)
    <3>1. at[w].step \in Working /\ "height" \in Steps /\ at[w].min \in Int
        BY <2>13, <1>1 DEF LookAtFlow, Working, Steps, RelabelSteps, Places
    <3>2. CASE To(w, "height")
        BY <2>3, <3>1, <3>2
    <3>3. CASE LookOn(w, at[w].min)
      <4>1. Goal
          BY <3>1, <3>3, LookOnFacts
      <4> QED BY <2>0, <3>1, <4>1
    <3> QED BY <2>13, <3>2, <3>3 DEF LookAtFlow
  <2>14. CASE LookAtHeight(w)
    <3>1. at[w].step \in Working /\ at[w].min \in Int
        BY <2>14, <1>1 DEF LookAtHeight, Working, Steps, RelabelSteps, Places
    <3>2. V(w) \in Node /\ h[V(w)] \in Int
        BY <3>1, EdgeFacts DEF TypeOK
    <3>3. Lesser(at[w].min, h[V(w)]) \in Int
        BY <3>1, <3>2 DEF Lesser
    <3>4. Goal
        BY <2>14, <3>1, <3>3, LookOnFacts DEF LookAtHeight
    <3> QED BY <2>0, <3>1, <3>4
  <2>15. CASE Raise(w)
    <3>1. at[w].step \in Working
        BY <2>15 DEF Raise, Working, Steps, RelabelSteps
    <3>2. Goal
        BY <2>15, <1>1 DEF Raise, Places
    <3> QED BY <2>0, <3>1, <3>2
  <2>16. CASE Requeue(w)
    <3>1. at[w].step \in Working /\ at' = [at EXCEPT ![w] = Place("take", s, 1, FALSE)]
        BY <2>16 DEF Requeue, Working, Steps, RelabelSteps
    <3>2. Place("take", s, 1, FALSE).step = "take"
        BY SpecialNodes, FreshPlace
    <3>3. Goal
        BY <1>1, <3>1, <3>2 DEF Working
    <3> QED BY <2>0, <3>1, <3>3
  <2> QED BY <2>1, <2>2, <2>4, <2>5, <2>6, <2>7, <2>8, <2>9, <2>10, <2>11, <2>12, <2>13,
             <2>14, <2>15, <2>16, <1>5 DEF ThreadStep
<1> QED BY <1>3, <1>4, <1>5 DEF Next, MainStep

\* The threads leave main's variables alone.
LEMMA MainWaits ==
    ASSUME NEW w \in Thread, ThreadStep(w)
    PROVE  mainVars' = mainVars
BY DEF ThreadStep, TakeNode, Exit, LockNode, ExamineEdge, ReadAmount, PushFlow, LoadExcess,
   StoreExcess, QueueOwn, QueueOther, OfferOther, LookAtFlow, LookAtHeight, Raise, Requeue

\* A step keeps every node with the thread that owns it.
LEMMA OwnersStep ==
    ASSUME TypeOK, EdgesReached, StartOrder, OwnersAgree, Next
    PROVE  OwnersAgree'
<1>1. ASSUME NEW w \in Thread, NEW a \in QueueOf(w)' PROVE InRange(w, a)
  <2>1. a \in QueueOf(w) \/ (a \in Node /\ w = ownerThread(a))
      BY QueueStep
  <2>2. CASE a \in QueueOf(w)
      BY <2>2 DEF OwnersAgree
  <2>3. CASE a \in Node /\ w = ownerThread(a)
      BY <2>3, OwnerFacts
  <2> QED BY <2>1, <2>2, <2>3
<1>2. ASSUME NEW w \in Thread, at'[w].step \in Working PROVE InRange(w, at'[w].u)
    BY <1>2, PlaceStep DEF OwnersAgree
<1> QED BY <1>1, <1>2 DEF OwnersAgree, InRange, Start, End, NodesPerThread, Lesser

\* A step keeps the order in which main starts the threads.
LEMMA StartStep ==
    ASSUME TypeOK, StartOrder, Next
    PROVE  StartOrder'
<1>1. /\ p \in Nat /\ i \in Nat /\ threadID \in Nat /\ threadID <= T /\ T \in Nat
      /\ N \in Nat /\ p <= Len(Adj[s]) /\ Len(Adj[s]) \in Nat
    BY ThreadAssumption, SizeAssumption, LengthFacts, NodeFacts DEF TypeOK
<1>2. ASSUME NEW w \in Thread, w >= threadID' PROVE at'[w].step = "new"
  <2>1. threadID' \in Nat /\ (threadID' = threadID \/ (StartThread /\ threadID' = threadID + 1))
    <3>1. CASE StartThread
        BY <3>1, <1>1 DEF StartThread
    <3>2. CASE InitialPush \/ ScanNode \/ Return
        BY <3>2, <1>1 DEF InitialPush, ScanNode, Return
    <3>3. CASE \E z \in Thread : ThreadStep(z)
        BY <3>3, <1>1, MainWaits DEF mainVars
    <3> QED BY <3>1, <3>2, <3>3 DEF Next, MainStep
  <2>2. w \in Nat /\ w >= threadID
      BY <1>1, <1>2, <2>1 DEF Thread
  <2>3. at[w].step = "new"
      BY <2>2 DEF StartOrder
  <2>4. ~(StartThread /\ w = threadID)
    <3>1. StartThread => threadID' = threadID + 1
        BY DEF StartThread
    <3> QED BY <3>1, <1>1, <1>2, <2>2
  <2> QED BY <2>3, <2>4, PlaceStep
<1>3. p' < Len(Adj[s]) => i' = 0 /\ threadID' = 0
  <2>1. CASE StartThread \/ ScanNode
      BY <2>1, <1>1 DEF StartThread, ScanNode
  <2>2. CASE InitialPush
      BY <2>2, <1>1 DEF InitialPush, StartOrder
  <2>3. CASE Return
      BY <2>3, <1>1 DEF Return, StartOrder
  <2>4. CASE \E z \in Thread : ThreadStep(z)
      BY <2>4, <1>1, MainWaits DEF mainVars, StartOrder
  <2> QED BY <2>1, <2>2, <2>3, <2>4 DEF Next, MainStep
<1>4. threadID' < T => i' >= Lesser(Start(threadID'), N)
  <2>1. CASE StartThread
    <3>1. threadID \in Thread /\ i >= End(threadID) /\ i' = i /\ threadID' = threadID + 1
        BY <1>1, <2>1 DEF StartThread, MoreThreads, Thread
    <3>2. End(threadID) = Lesser(Start(threadID + 1), N)
        BY <3>1, StartFacts
    <3> QED BY <3>1, <3>2
  <2>2. CASE ScanNode
    <3>1. threadID \in Thread /\ i' = i + 1 /\ threadID' = threadID /\ threadID < T
        BY <1>1, <2>2 DEF ScanNode, MoreThreads, Thread
    <3>2. Lesser(Start(threadID), N) \in Nat
        BY <3>1, <1>1, StartFacts DEF Lesser
    <3> QED BY <3>1, <3>2, <1>1 DEF StartOrder
  <2>3. CASE InitialPush \/ Return \/ \E w \in Thread : ThreadStep(w)
    <3>1. i' = i /\ threadID' = threadID
        BY <2>3, MainWaits DEF InitialPush, Return, mainVars
    <3> QED BY <3>1 DEF StartOrder
  <2> QED BY <2>1, <2>2, <2>3 DEF Next, MainStep
<1> QED BY <1>2, <1>3, <1>4 DEF StartOrder, Start, NodesPerThread, Lesser

\* A step gives excess, and a place in a queue, only to nodes with an edge.
LEMMA ReachedStep ==
    ASSUME TypeOK, EdgesReached, StartOrder, OwnersAgree, Next
    PROVE  EdgesReached'
<1>1. ASSUME NEW w \in Thread, NEW a \in QueueOf(w)' PROVE Len(Adj[a]) > 0
    BY QueueStep DEF EdgesReached
<1>2. ASSUME NEW x \in Edge, NEW a \in {EdgeU[x], EdgeV[x]} PROVE Len(Adj[a]) > 0
  <2>1. a \in Node /\ x \in Incident(a)
      BY EdgeAssumption DEF Incident
  <2>2. \E j \in 1 .. Len(Adj[a]) : TRUE
      BY <2>1, AdjAssumption
  <2> QED BY <2>1, <2>2, LengthFacts
<1>3. ASSUME NEW a \in Node, e'[a] # 0 PROVE Len(Adj[a]) > 0
  <2>1. CASE e' = e
      BY <2>1, <1>3 DEF EdgesReached
  <2>2. CASE InitialPush
    <3> DEFINE x == Adj[s][p + 1]
               ex == [e EXCEPT ![s] = @ + Cap[x]]
    <3>1. x \in Edge /\ s \in {EdgeU[x], EdgeV[x]} /\ s \in Node
      <4>1. p + 1 \in 1 .. Len(Adj[s])
          BY <2>2, NodeFacts, LengthFacts DEF InitialPush, TypeOK
      <4> QED BY <4>1, NodeFacts, LinkFacts
    <3>2. PICK d : e' = ExcessAfter(ex, s, x, d)
        BY <2>2 DEF InitialPush
    <3>3. Other(s, x) \in {EdgeU[x], EdgeV[x]}
        BY <3>1 DEF Other
    <3> HIDE DEF x
    <3>4. a = s \/ a = Other(s, x) \/ e'[a] = e[a]
        BY <3>1, <3>2 DEF ExcessAfter, TypeOK
    <3> QED BY <3>1, <3>3, <3>4, <1>2, <1>3 DEF EdgesReached
  <2>3. ASSUME NEW w \in Thread, StoreExcess(w) PROVE Len(Adj[a]) > 0
    <3>1. at[w].step \in Working
        BY <2>3 DEF StoreExcess, Working, Steps, PushSteps
    <3>2. a = at[w].u \/ a = V(w) \/ e'[a] = e[a]
        BY <2>3 DEF StoreExcess, TypeOK
    <3> QED BY <3>1, <3>2, <1>3, EdgeFacts DEF EdgesReached
  <2>4. e' = e \/ InitialPush \/ \E w \in Thread : StoreExcess(w)
    <3>1. ASSUME NEW w \in Thread, ThreadStep(w) PROVE e' = e \/ StoreExcess(w)
        BY <3>1 DEF ThreadStep, shared, TakeNode, Exit, LockNode, ExamineEdge, ReadAmount, PushFlow,
           LoadExcess, QueueOwn, QueueOther, OfferOther, LookAtFlow, LookAtHeight, Raise, Requeue
    <3> QED BY <3>1 DEF Next, MainStep, ScanNode, StartThread, Return, shared
  <2> QED BY <2>1, <2>2, <2>3, <2>4
<1> QED BY <1>1, <1>3 DEF EdgesReached

-----------------------------------------------------------------------------
(* Locks.                                                                   *)

\* One thread takes or gives back what its place says.
LEMMA OneHolder ==
    ASSUME LocksFit, NEW w \in Thread, \A z \in Thread : z # w => at'[z] = at[z],
           \A a \in Node : /\ lock'[a] = w <=> a \in Held(w)'
                           /\ lock'[a] = lock[a] \/ {lock[a], lock'[a]} \subseteq {NoOne, w}
    PROVE  LocksFit'
<1>1. ASSUME NEW z \in Thread, NEW a \in Node, z # w PROVE lock'[a] = z <=> a \in Held(z)'
  <2>1. z # NoOne
      BY ThreadAssumption DEF Thread, NoOne
  <2>2. lock'[a] = z <=> lock[a] = z
      BY <1>1, <2>1
  <2>3. Held(z)' = Held(z)
      BY <1>1 DEF Held, Second, LockedWith, V, X
  <2> QED BY <2>2, <2>3 DEF LocksFit
<1> QED BY <1>1 DEF LocksFit

\* The locks of a place: none, u, or u and second.
LEMMA HeldFacts ==
    ASSUME TypeOK, NEW w \in Thread
    PROVE  /\ at[w].step \in {"new", "take", "lock", "done"} => Held(w) = {}
           /\ at[w].step \in {"edge"} \cup RelabelSteps => Held(w) = {at[w].u}
           /\ at[w].step \in PushSteps => Held(w) = {at[w].u} \cup Second(w)
BY DEF Held, PushSteps, RelabelSteps

\* A step that leaves the locks, and the place that decides about them, alone.
LEMMA SameLocks ==
    ASSUME LocksFit, NEW w \in Thread, \A z \in Thread : z # w => at'[z] = at[z],
           lock' = lock, Held(w)' = Held(w)
    PROVE  LocksFit'
BY OneHolder DEF LocksFit

\* A thread that stays with its edge and keeps its locks.
LEMMA SameHeld ==
    ASSUME NEW w \in Thread, at'[w].u = at[w].u, at'[w].k = at[w].k,
           \/ at[w].step \in PushSteps /\ at'[w].step \in PushSteps
           \/ /\ at[w].step \in {"edge"} \cup RelabelSteps
              /\ at'[w].step \in {"edge"} \cup RelabelSteps
    PROVE  Held(w)' = Held(w)
<1>1. Second(w)' = Second(w)
    BY DEF Second, LockedWith, V, X
<1> QED BY <1>1 DEF Held, PushSteps, RelabelSteps

\* Behind an edge: second is given back, and u too when the thread is through with it.
LEMMA GoOnLocks ==
    ASSUME TypeOK, LocksFit, NEW w \in Thread, at[w].step \in Working,
           NEW pushed \in BOOLEAN, NEW held, GoOn(w, pushed, held),
           Held(w) = {at[w].u} \cup held, at[w].u \notin held
    PROVE  LocksFit'
<1>1. /\ \A z \in Thread : z # w => at'[z] = at[z]
      /\ at'[w].step \in {"edge", "take", "look"}
      /\ at'[w].step # "take" => at'[w].u = at[w].u
      /\ lock' = [a \in Node |->
                    IF a \in held \cup (IF at'[w].step = "take" THEN {at[w].u} ELSE {})
                    THEN NoOne ELSE lock[a]]
    BY GoOnFacts
<1>2. Held(w)' = IF at'[w].step = "take" THEN {} ELSE {at[w].u}
    BY <1>1 DEF Held, PushSteps, RelabelSteps
<1>3. w # NoOne
    BY ThreadAssumption DEF Thread, NoOne
<1>4. ASSUME NEW a \in Node
      PROVE  /\ lock'[a] = w <=> a \in Held(w)'
             /\ lock'[a] = lock[a] \/ {lock[a], lock'[a]} \subseteq {NoOne, w}
  <2>1. lock[a] = w <=> a \in {at[w].u} \cup held
      BY DEF LocksFit
  <2>2. CASE at'[w].step = "take"
      BY <1>1, <1>2, <1>3, <2>1, <2>2
  <2>3. CASE at'[w].step # "take"
      BY <1>1, <1>2, <1>3, <2>1, <2>3
  <2> QED BY <2>2, <2>3
<1> QED BY <1>1, <1>4, OneHolder

\* Every step leaves each lock with the thread whose place says so.
LEMMA LocksStep ==
    ASSUME TypeOK, StartOrder, LocksFit, Next
    PROVE  LocksFit'
<1>1. at \in [Thread -> Places] /\ lock \in [Node -> Thread \cup {NoOne}]
    BY DEF TypeOK, Places
<1>2. ASSUME at' = at, lock' = lock PROVE LocksFit'
    BY <1>2 DEF LocksFit, Held, Second, LockedWith, V, X
<1>3. CASE InitialPush \/ ScanNode \/ Return
    BY <1>2, <1>3 DEF InitialPush, ScanNode, Return
<1>4. CASE StartThread
  <2>1. PICK w \in Thread : w = threadID
      BY <1>4, ThreadAssumption DEF StartThread, MoreThreads, TypeOK, Thread
  <2>2. at[w].step = "new"
      BY <2>1 DEF StartOrder, Thread
  <2>3. /\ lock' = lock /\ at'[w].step = "take"
        /\ \A z \in Thread : z # w => at'[z] = at[z]
      BY <1>1, <1>4, <2>1 DEF StartThread, To, Places
  <2>4. Held(w)' = Held(w)
      BY <2>2, <2>3 DEF Held, PushSteps, RelabelSteps
  <2> QED BY <2>3, <2>4, SameLocks
<1>5. ASSUME NEW w \in Thread, ThreadStep(w) PROVE LocksFit'
  <2>1. CASE TakeNode(w)
    <3>1. /\ lock' = lock /\ at[w].step = "take" /\ at'[w].step = "lock"
          /\ \A z \in Thread : z # w => at'[z] = at[z]
        BY <2>1, Taken DEF TakeNode
    <3>2. Held(w)' = Held(w)
        BY <3>1 DEF Held, PushSteps, RelabelSteps
    <3> QED BY <3>1, <3>2, SameLocks
  <2>2. CASE Exit(w)
    <3>1. /\ lock' = lock /\ at[w].step = "take"
          /\ at' = [at EXCEPT ![w] = Place("done", s, 1, FALSE)]
        BY <2>2 DEF Exit
    <3>2. Place("done", s, 1, FALSE).step = "done"
        BY SpecialNodes, FreshPlace
    <3>3. at'[w].step = "done" /\ \A z \in Thread : z # w => at'[z] = at[z]
        BY <1>1, <3>1, <3>2
    <3>4. Held(w)' = Held(w)
        BY <3>1, <3>3 DEF Held, PushSteps, RelabelSteps
    <3> QED BY <3>1, <3>3, <3>4, SameLocks
  <2>3. CASE LockNode(w)
    <3>1. at[w].u \in Node /\ at[w].step = "lock" /\ lock[at[w].u] = NoOne
        BY <1>1, <2>3 DEF LockNode, Places
    <3>2. /\ at'[w].step = "edge" /\ at'[w].u = at[w].u
          /\ \A z \in Thread : z # w => at'[z] = at[z]
        BY <1>1, <2>3 DEF LockNode, To, Places
    <3>3. Held(w) = {} /\ Held(w)' = {at[w].u}
        BY <3>1, <3>2 DEF Held, PushSteps, RelabelSteps
    <3>4. lock' = [lock EXCEPT ![at[w].u] = w]
        BY <2>3 DEF LockNode
    <3>5. \A a \in Node : /\ lock'[a] = w <=> a \in Held(w)'
                          /\ lock'[a] = lock[a] \/ {lock[a], lock'[a]} \subseteq {NoOne, w}
        BY <1>1, <3>1, <3>3, <3>4 DEF LocksFit
    <3> QED BY <3>2, <3>5, OneHolder
  <2>4. CASE ExamineEdge(w)
    <3>1. /\ at[w].step = "edge" /\ at[w].step \in Working /\ at[w].pushed \in BOOLEAN
          /\ \A a \in Second(w) : lock[a] = NoOne
        BY <1>1, <2>4 DEF ExamineEdge, Working, Steps, Places
    <3>2. Held(w) = {at[w].u}
        BY <3>1 DEF Held, PushSteps
    <3>3. CASE Admissible(f, h, at[w].u, X(w))
      <4>1. /\ lock' = [a \in Node |-> IF a \in Second(w) THEN w ELSE lock[a]]
            /\ To(w, "amount")
          BY <2>4, <3>3 DEF ExamineEdge
      <4>2. /\ at'[w].step = "amount" /\ at'[w].u = at[w].u /\ at'[w].k = at[w].k
            /\ \A z \in Thread : z # w => at'[z] = at[z]
          BY <1>1, <4>1 DEF To, Places
      <4>3. Held(w)' = {at[w].u} \cup Second(w)
        <5>1. Second(w)' = Second(w)
            BY <4>2 DEF Second, LockedWith, V, X
        <5> QED BY <4>2, <5>1 DEF Held, PushSteps, RelabelSteps
      <4>4. \A a \in Node : /\ lock'[a] = w <=> a \in Held(w)'
                            /\ lock'[a] = lock[a] \/ {lock[a], lock'[a]} \subseteq {NoOne, w}
          BY <3>1, <3>2, <4>1, <4>3 DEF LocksFit
      <4> QED BY <4>2, <4>4, OneHolder
    <3>4. CASE ~Admissible(f, h, at[w].u, X(w))
      <4>1. GoOn(w, at[w].pushed, {})
          BY <2>4, <3>4 DEF ExamineEdge
      <4> QED BY <3>1, <3>2, <4>1, GoOnLocks
    <3> QED BY <3>3, <3>4
  <2>5. ASSUME lock' = lock, \A z \in Thread : z # w => at'[z] = at[z],
               at'[w].u = at[w].u, at'[w].k = at[w].k,
               at[w].step \in PushSteps /\ at'[w].step \in PushSteps
        PROVE  LocksFit'
      BY <2>5, SameHeld, SameLocks
  <2>6. CASE ReadAmount(w)
      BY <1>1, <2>5, <2>6 DEF ReadAmount, Places, PushSteps
  <2>7. CASE PushFlow(w)
      BY <1>1, <2>5, <2>7 DEF PushFlow, To, Places, PushSteps
  <2>8. CASE LoadExcess(w)
      BY <1>1, <2>5, <2>8 DEF LoadExcess, Places, PushSteps
  <2>9. CASE StoreExcess(w)
      BY <1>1, <2>5, <2>9 DEF StoreExcess, To, Places, PushSteps
  <2>10. CASE QueueOwn(w)
      BY <1>1, <2>5, <2>10 DEF QueueOwn, To, Places, PushSteps
  <2>11. ASSUME at[w].step \in {"queueV", "offer"}, GoOn(w, TRUE, Second(w))
         PROVE  LocksFit'
    <3>1. at[w].step \in Working /\ at[w].step \in PushSteps
        BY <2>11 DEF Working, Steps, PushSteps
    <3>2. Held(w) = {at[w].u} \cup Second(w) /\ at[w].u \notin Second(w)
        BY <3>1, HeldFacts, EdgeFacts DEF Second
    <3> QED BY <2>11, <3>1, <3>2, GoOnLocks
  <2>12. CASE QueueOther(w)
    <3>1. at[w].step = "queueV"
        BY <2>12 DEF QueueOther
    <3>2. CASE To(w, "offer") /\ lock' = lock
        BY <1>1, <2>5, <3>1, <3>2 DEF To, Places, PushSteps
    <3>3. CASE GoOn(w, TRUE, Second(w))
        BY <2>11, <3>1, <3>3
    <3> QED BY <2>12, <3>2, <3>3 DEF QueueOther
  <2>13. CASE OfferOther(w)
      BY <2>11, <2>13 DEF OfferOther
  <2>14. ASSUME lock' = lock, \A z \in Thread : z # w => at'[z] = at[z],
                at'[w].u = at[w].u,
                at[w].step \in RelabelSteps /\ at'[w].step \in RelabelSteps
         PROVE  LocksFit'
    <3>1. Held(w)' = Held(w)
        BY <2>14 DEF Held, PushSteps, RelabelSteps
    <3> QED BY <2>14, <3>1, SameLocks
  <2>15. CASE LookAtFlow(w)
    <3>1. /\ at[w].step \in Working /\ at[w].min \in Int /\ at[w].step \in RelabelSteps
          /\ lock' = lock
        BY <2>15, <1>1 DEF LookAtFlow, Working, Steps, RelabelSteps, Places
    <3>2. CASE To(w, "height")
        BY <1>1, <2>14, <3>1, <3>2 DEF To, Places, RelabelSteps
    <3>3. CASE LookOn(w, at[w].min)
        BY <2>14, <3>1, <3>3, LookOnFacts DEF RelabelSteps
    <3> QED BY <2>15, <3>2, <3>3 DEF LookAtFlow
  <2>16. CASE LookAtHeight(w)
    <3>1. /\ at[w].step \in Working /\ at[w].min \in Int /\ at[w].step \in RelabelSteps
          /\ lock' = lock
        BY <2>16, <1>1 DEF LookAtHeight, Working, Steps, RelabelSteps, Places
    <3>2. V(w) \in Node /\ h[V(w)] \in Int
        BY <3>1, EdgeFacts DEF TypeOK
    <3>3. Lesser(at[w].min, h[V(w)]) \in Int
        BY <3>1, <3>2 DEF Lesser
    <3>4. LookOn(w, Lesser(at[w].min, h[V(w)]))
        BY <2>16 DEF LookAtHeight
    <3> QED BY <2>14, <3>1, <3>3, <3>4, LookOnFacts DEF RelabelSteps
  <2>17. CASE Raise(w)
      BY <1>1, <2>14, <2>17 DEF Raise, Places, RelabelSteps
  <2>18. CASE Requeue(w)
    <3>1. /\ at[w].step \in RelabelSteps /\ lock' = Unlocked({at[w].u})
          /\ at' = [at EXCEPT ![w] = Place("take", s, 1, FALSE)]
        BY <2>18 DEF Requeue, RelabelSteps
    <3>2. Place("take", s, 1, FALSE).step = "take"
        BY SpecialNodes, FreshPlace
    <3>3. at'[w].step = "take" /\ \A z \in Thread : z # w => at'[z] = at[z]
        BY <1>1, <3>1, <3>2
    <3>4. Held(w) = {at[w].u} /\ Held(w)' = {}
        BY <3>1, <3>3, HeldFacts DEF Held, PushSteps, RelabelSteps
    <3>5. w # NoOne
        BY ThreadAssumption DEF Thread, NoOne
    <3>6. \A a \in Node : /\ lock'[a] = w <=> a \in Held(w)'
                          /\ lock'[a] = lock[a] \/ {lock[a], lock'[a]} \subseteq {NoOne, w}
        BY <3>1, <3>4, <3>5 DEF LocksFit, Unlocked
    <3> QED BY <3>3, <3>6, OneHolder
  <2> QED BY <2>1, <2>2, <2>3, <2>4, <2>6, <2>7, <2>8, <2>9, <2>10, <2>12, <2>13, <2>15,
             <2>16, <2>17, <2>18, <1>5 DEF ThreadStep
<1> QED BY <1>3, <1>4, <1>5 DEF Next, MainStep

\* Two pushers of one edge would both hold the lock of its higher end.
LEMMA HigherEndLocked == TypeOK /\ LocksFit => EdgeHasOnePusher
<1> SUFFICES ASSUME TypeOK, LocksFit, NEW w1 \in Thread, NEW w2 \in Thread, w1 # w2,
                    at[w1].step \in PushSteps, at[w2].step \in PushSteps, X(w1) = X(w2)
             PROVE  FALSE
    BY DEF EdgeHasOnePusher
<1> DEFINE x == X(w1)
           a == IF EdgeU[x] < EdgeV[x] THEN EdgeV[x] ELSE EdgeU[x]
<1>1. x \in Edge /\ EdgeU[x] \in Node /\ EdgeV[x] \in Node /\ Node \subseteq Int
    BY EdgeFacts, EdgeAssumption, NodeFacts DEF Working, Steps, PushSteps
<1>2. ASSUME NEW w \in Thread, at[w].step \in PushSteps, X(w) = x PROVE lock[a] = w
  <2>1. at[w].u \in {EdgeU[x], EdgeV[x]} /\ V(w) = Other(at[w].u, x) /\ V(w) # at[w].u
      BY <1>2, EdgeFacts DEF Working, Steps, PushSteps, V
  <2>2. V(w) \in {EdgeU[x], EdgeV[x]}
      BY <2>1 DEF Other
  <2>3. a = at[w].u \/ (a = V(w) /\ V(w) > at[w].u)
    <3>1. CASE at[w].u = EdgeU[x] /\ V(w) = EdgeV[x]
        BY <2>1, <3>1, <1>1
    <3>2. CASE at[w].u = EdgeV[x] /\ V(w) = EdgeU[x]
      <4>1. EdgeU[x] \in Int /\ EdgeV[x] \in Int /\ EdgeU[x] # EdgeV[x]
          BY <1>1, EdgeAssumption
      <4>2. CASE EdgeU[x] < EdgeV[x]
          BY <3>2, <4>2
      <4>3. CASE EdgeV[x] < EdgeU[x]
          BY <3>2, <4>1, <4>3
      <4> QED BY <4>1, <4>2, <4>3
    <3> QED BY <2>1, <2>2, <3>1, <3>2
  <2>4. a \in {at[w].u} \cup Second(w)
      BY <2>3 DEF Second, LockedWith
  <2>5. Held(w) = {at[w].u} \cup Second(w)
      BY <1>2, HeldFacts
  <2>6. a \in Node
      BY <1>1
  <2> QED BY <2>4, <2>5, <2>6 DEF LocksFit
<1>3. lock[a] = w1 /\ lock[a] = w2
    BY <1>2
<1> QED BY <1>3

\* A thread that waits while another waits for it holds one node, and waits for a
\* higher one: no ring.
LEMMA NoRing == TypeOK /\ LocksFit => NobodyWaitsInARing
<1> SUFFICES ASSUME TypeOK, LocksFit, NEW S \in (SUBSET Thread) \ {{}},
                    \A w \in S : \E a \in Waited(w) : lock[a] \in S
             PROVE  FALSE
    BY Zenon DEF NobodyWaitsInARing
<1>1. ASSUME NEW w \in S
      PROVE  \E z \in S : /\ at[z].step = "edge" /\ at[z].u \in Node
                          /\ at[w].step = "edge" => at[z].u = V(w) /\ at[z].u > at[w].u
  <2>1. PICK a \in Waited(w) : lock[a] \in S
      OBVIOUS
  <2>2. w \in Thread /\ at[w].step \in {"lock", "edge"} /\ at[w].step \in Working
      BY <2>1 DEF Waited, Working, Steps
  <2>3. a \in Node /\ (at[w].step = "edge" => a = V(w) /\ a > at[w].u)
      BY <2>1, <2>2, EdgeFacts DEF Waited, Second, LockedWith
  <2> DEFINE z == lock[a]
  <2>4. z \in S /\ z \in Thread
      BY <2>1
  <2>5. a \in Held(z)
      BY <2>3, <2>4 DEF LocksFit
  <2>6. PICK b \in Waited(z) : TRUE
      BY <2>4
  <2>7. at[z].step \in {"lock", "edge"}
      BY <2>6 DEF Waited
  <2>8. at[z].step = "edge" /\ a = at[z].u
      BY <2>5, <2>7 DEF Held, PushSteps, RelabelSteps
  <2> QED BY <2>3, <2>4, <2>8
<1> DEFINE Holding == {w \in S : at[w].step = "edge" /\ at[w].u \in Node}
           Depth == {N - at[w].u : w \in Holding}
<1>2. Holding # {}
  <2>1. PICK w \in S : TRUE
      OBVIOUS
  <2> QED BY <2>1, <1>1
<1>3. \A a \in Node : N - a \in Nat /\ a \in Int
    BY SizeAssumption DEF Node
<1>4. Depth \subseteq Nat /\ Depth # {}
    BY <1>2, <1>3
<1> HIDE DEF Depth
<1>5. PICK j \in Depth : \A k \in Depth : ~(k < j)
    BY <1>4, LeastNatural
<1>6. PICK w \in Holding : j = N - at[w].u
    BY DEF Depth
<1>7. PICK z \in Holding : at[z].u > at[w].u
    BY <1>1
<1>8. N - at[z].u \in Depth
    BY DEF Depth
<1>9. N - at[z].u < N - at[w].u
    BY <1>3, <1>7, SizeAssumption
<1> QED BY <1>5, <1>6, <1>8, <1>9

-----------------------------------------------------------------------------
(* Excess.                                                                  *)

\* What a thread keeps depends on its place alone.
LEMMA SamePlace ==
    ASSUME NEW w \in Thread, at'[w] = at[w], NEW a, Keeps(w, a)
    PROVE  Keeps(w, a)'
BY DEF Keeps, V, X

\* A thread that stays with its edge keeps what it kept before it has looked
\* at u's excess.
LEMMA StillKeeps ==
    ASSUME NEW w \in Thread, at'[w].u = at[w].u, at'[w].k = at[w].k,
           at'[w].step \in PushSteps \ {"queueV", "offer"}
    PROVE  /\ Keeps(w, at[w].u)'
           /\ at'[w].step = "queueU" => Keeps(w, V(w))'
<1>1. V(w)' = V(w)
    BY DEF V, X
<1> QED BY <1>1 DEF Keeps

\* relabel, and the search for an edge before the first push, keep u.
LEMMA StillSearching ==
    ASSUME NEW w \in Thread, at'[w].u = at[w].u, at'[w].pushed = FALSE,
           at'[w].step \in {"lock", "edge"} \cup RelabelSteps
    PROVE  Keeps(w, at[w].u)'
BY DEF Keeps

\* A step of one thread leaves the others where they are.
LEMMA OneMoves ==
    ASSUME TypeOK, NEW w \in Thread, ThreadStep(w), NEW z \in Thread, z # w
    PROVE  at'[z] = at[z]
<1>1. z \in DOMAIN at
    BY DEF TypeOK
<1>2. CASE TakeNode(w) \/ Exit(w) \/ LockNode(w) \/ ReadAmount(w) \/ PushFlow(w) \/ LoadExcess(w)
    BY <1>1, <1>2 DEF TakeNode, Exit, LockNode, To, ReadAmount, PushFlow, LoadExcess
<1>3. CASE StoreExcess(w) \/ QueueOwn(w) \/ Raise(w) \/ Requeue(w)
    BY <1>1, <1>3 DEF StoreExcess, QueueOwn, Raise, Requeue, To
<1>4. CASE ExamineEdge(w) \/ QueueOther(w) \/ OfferOther(w)
    BY <1>1, <1>4 DEF ExamineEdge, QueueOther, OfferOther, To, GoOn
<1>5. CASE LookAtFlow(w) \/ LookAtHeight(w)
    BY <1>1, <1>5 DEF LookAtFlow, LookAtHeight, To, LookOn
<1> QED BY <1>2, <1>3, <1>4, <1>5 DEF ThreadStep

\* A thread is through with a node that has excess only when it is queued.
LEMMA ThreadKeeps ==
    ASSUME TypeOK, OwnersAgree, NEW w \in Thread, ThreadStep(w),
           NEW a \in Inner, e'[a] > 0, e[a] > 0 => Keeps(w, a)
    PROVE  Keeps(w, a)' \/ a \in QueueOf(ownerThread(a))'
<1>1. at \in [Thread -> Places] /\ a \in Node
    BY NodeFacts DEF TypeOK, Places
<1>2. e' = e => Keeps(w, a) /\ e[a] > 0
    OBVIOUS
<1>3. ASSUME e' = e, at[w].step \in {"edge"} \cup RelabelSteps \cup {"lock"}
      PROVE  a = at[w].u /\ at[w].pushed = FALSE
  <2>1. ~at[w].pushed /\ a = at[w].u
      BY <1>2, <1>3 DEF Keeps, PushSteps, RelabelSteps
  <2>2. at[w].pushed \in BOOLEAN
      BY <1>1 DEF Places
  <2> QED BY <2>1, <2>2
<1>4. ASSUME e' = e, at[w].step \in {"amount", "flow", "loadU", "storeU", "loadV", "storeV"}
      PROVE  a = at[w].u
    BY <1>2, <1>4 DEF Keeps, RelabelSteps
<1>5. CASE TakeNode(w) \/ Exit(w)
  <2>1. e' = e /\ at[w].step = "take"
      BY <1>5 DEF TakeNode, Exit, shared
  <2> QED BY <1>2, <2>1 DEF Keeps, PushSteps, RelabelSteps
<1>6. CASE LockNode(w)
  <2>1. e' = e /\ at[w].step = "lock" /\ at'[w].step = "edge" /\ at'[w].u = at[w].u
        /\ at'[w].pushed = at[w].pushed
      BY <1>1, <1>6 DEF LockNode, To, Places, shared
  <2> QED BY <1>3, <2>1, StillSearching
<1>7. CASE ExamineEdge(w)
  <2>1. e' = e /\ at[w].step = "edge" /\ at[w].step \in Working
      BY <1>7 DEF ExamineEdge, shared, Working, Steps
  <2>2. a = at[w].u /\ at[w].pushed = FALSE
      BY <1>3, <2>1
  <2>3. CASE Admissible(f, h, at[w].u, X(w))
    <3>1. at'[w].step = "amount" /\ at'[w].u = at[w].u /\ at'[w].k = at[w].k
        BY <1>1, <1>7, <2>3 DEF ExamineEdge, To, Places
    <3> QED BY <2>2, <3>1, StillKeeps DEF PushSteps
  <2>4. CASE ~Admissible(f, h, at[w].u, X(w))
    <3>1. GoOn(w, FALSE, {})
        BY <1>7, <2>2, <2>4 DEF ExamineEdge
    <3>2. /\ at'[w].step \in {"edge", "take", "look"}
          /\ at'[w].step # "take" => at'[w].u = at[w].u /\ at'[w].pushed = FALSE
          /\ at'[w].step # "take"
        BY <2>1, <3>1, GoOnFacts
    <3> QED BY <2>2, <3>2, StillSearching DEF RelabelSteps
  <2> QED BY <2>3, <2>4
<1>8. CASE ReadAmount(w)
  <2>1. /\ e' = e /\ at[w].step = "amount" /\ at'[w].step = "flow"
        /\ at'[w].u = at[w].u /\ at'[w].k = at[w].k
      BY <1>1, <1>8 DEF ReadAmount, shared, Places
  <2> QED BY <1>4, <2>1, StillKeeps DEF PushSteps
<1>9. CASE PushFlow(w)
  <2>1. /\ e' = e /\ at[w].step = "flow" /\ at'[w].step = "loadU"
        /\ at'[w].u = at[w].u /\ at'[w].k = at[w].k
      BY <1>1, <1>9 DEF PushFlow, To, Places
  <2> QED BY <1>4, <2>1, StillKeeps DEF PushSteps
<1>10. CASE LoadExcess(w)
  <2>1. /\ e' = e /\ at[w].step \in {"loadU", "loadV"} /\ at'[w].step \in {"storeU", "storeV"}
        /\ at'[w].u = at[w].u /\ at'[w].k = at[w].k
      BY <1>1, <1>10 DEF LoadExcess, shared, Places
  <2> QED BY <1>4, <2>1, StillKeeps DEF PushSteps
<1>11. CASE StoreExcess(w)
  <2>1. at'[w].u = at[w].u /\ at'[w].k = at[w].k /\ at[w].step \in {"storeU", "storeV"}
      BY <1>1, <1>11 DEF StoreExcess, To, Places
  <2>2. at[w].step \in Working /\ e \in [Node -> Int]
      BY <2>1 DEF Working, Steps, PushSteps, TypeOK
  <2>3. V(w) \in Node /\ at[w].u \in Node
      BY <2>2, EdgeFacts
  <2>4. CASE at[w].step = "storeU"
    <3>1. at'[w].step = "loadV" /\ e' = [e EXCEPT ![at[w].u] = at[w].seen - at[w].d]
        BY <1>1, <1>11, <2>4 DEF StoreExcess, To, Places
    <3>2. a = at[w].u
      <4>1. SUFFICES ASSUME a # at[w].u PROVE FALSE
          OBVIOUS
      <4>2. e'[a] = e[a]
          BY <1>1, <2>2, <3>1, <4>1
      <4>3. Keeps(w, a)
          BY <4>2
      <4> QED BY <2>4, <4>1, <4>3 DEF Keeps
    <3> QED BY <2>1, <3>1, <3>2, StillKeeps DEF PushSteps
  <2>5. CASE at[w].step = "storeV"
    <3>1. at'[w].step = "queueU" /\ e' = [e EXCEPT ![V(w)] = at[w].seen + at[w].d]
        BY <1>1, <1>11, <2>5 DEF StoreExcess, To, Places
    <3>2. a = at[w].u \/ a = V(w)
      <4>1. SUFFICES ASSUME a # at[w].u, a # V(w) PROVE FALSE
          OBVIOUS
      <4>2. e'[a] = e[a]
          BY <1>1, <2>2, <3>1, <4>1
      <4>3. Keeps(w, a)
          BY <4>2
      <4> QED BY <2>5, <4>1, <4>3 DEF Keeps
    <3>3. V(w)' = V(w)
        BY <2>1 DEF V, X
    <3> QED BY <2>1, <3>1, <3>2, <3>3, StillKeeps DEF PushSteps
  <2> QED BY <2>1, <2>4, <2>5
<1>12. CASE QueueOwn(w)
  <2>1. /\ e' = e /\ at[w].step = "queueU" /\ at'[w].step = "queueV"
        /\ at'[w].u = at[w].u /\ at'[w].k = at[w].k
        /\ externalQueue' = externalQueue
      BY <1>1, <1>12 DEF QueueOwn, To, Places, shared
  <2>2. at[w].step \in Working
      BY <2>1 DEF Working, Steps, PushSteps
  <2>3. a = at[w].u \/ a = V(w)
      BY <1>2, <2>1 DEF Keeps, RelabelSteps
  <2>4. CASE a = at[w].u
    <3>1. InRange(w, a) /\ e[a] > 0
        BY <1>2, <2>1, <2>2, <2>4 DEF OwnersAgree
    <3>2. localq' = [localq EXCEPT ![w] = Append(@, a)] /\ w = ownerThread(a)
        BY <1>1, <1>12, <2>4, <3>1, OwnerFacts DEF QueueOwn
    <3> QED BY <1>1, <2>1, <3>2, Kept
  <2>5. CASE a = V(w)
    <3>1. V(w)' = V(w)
        BY <2>1 DEF V, X
    <3> QED BY <2>1, <2>5, <3>1 DEF Keeps
  <2> QED BY <2>3, <2>4, <2>5
<1>13. CASE QueueOther(w)
  <2>1. e' = e /\ at[w].step = "queueV" /\ externalQueue' = externalQueue
      BY <1>13 DEF QueueOther, shared
  <2>2. a = V(w)
      BY <1>2, <2>1 DEF Keeps, RelabelSteps
  <2>3. OtherIsActive(w)
      BY <1>2, <2>1, <2>2 DEF OtherIsActive
  <2>4. CASE InRange(w, a)
    <3>1. localq' = [localq EXCEPT ![w] = Append(@, a)] /\ w = ownerThread(a)
        BY <1>1, <1>13, <2>2, <2>3, <2>4, OwnerFacts DEF QueueOther
    <3> QED BY <1>1, <2>1, <3>1, Kept
  <2>5. CASE ~InRange(w, a)
    <3>1. at'[w].step = "offer" /\ at'[w].u = at[w].u /\ at'[w].k = at[w].k
        BY <1>1, <1>13, <2>2, <2>3, <2>5 DEF QueueOther, To, Places
    <3>2. V(w)' = V(w)
        BY <3>1 DEF V, X
    <3> QED BY <2>2, <3>1, <3>2 DEF Keeps
  <2> QED BY <2>4, <2>5
<1>14. CASE OfferOther(w)
  <2>1. e' = e /\ at[w].step = "offer" /\ localq' = localq /\ enqueueExternal(V(w))
      BY <1>14 DEF OfferOther, shared
  <2>2. a = V(w)
      BY <1>2, <2>1 DEF Keeps, RelabelSteps
  <2> QED BY <1>1, <2>1, <2>2, Offered
<1>15. CASE LookAtFlow(w)
  <2>1. e' = e /\ at[w].step = "look" /\ at[w].step \in Working /\ at[w].min \in Int
      BY <1>1, <1>15 DEF LookAtFlow, shared, Working, Steps, RelabelSteps, Places
  <2>2. a = at[w].u /\ at[w].pushed = FALSE
      BY <1>3, <2>1 DEF RelabelSteps
  <2>3. CASE To(w, "height")
    <3>1. at'[w].step = "height" /\ at'[w].u = at[w].u /\ at'[w].pushed = at[w].pushed
        BY <1>1, <2>3 DEF To, Places
    <3> QED BY <2>2, <3>1, StillSearching DEF RelabelSteps
  <2>4. CASE LookOn(w, at[w].min)
      BY <2>1, <2>2, <2>4, LookOnFacts, StillSearching DEF RelabelSteps
  <2> QED BY <1>15, <2>3, <2>4 DEF LookAtFlow
<1>16. CASE LookAtHeight(w)
  <2>1. e' = e /\ at[w].step = "height" /\ at[w].step \in Working /\ at[w].min \in Int
      BY <1>1, <1>16 DEF LookAtHeight, shared, Working, Steps, RelabelSteps, Places
  <2>2. a = at[w].u /\ at[w].pushed = FALSE
      BY <1>3, <2>1 DEF RelabelSteps
  <2>3. V(w) \in Node /\ h[V(w)] \in Int
      BY <2>1, EdgeFacts DEF TypeOK
  <2>4. Lesser(at[w].min, h[V(w)]) \in Int
      BY <2>1, <2>3 DEF Lesser
  <2>5. LookOn(w, Lesser(at[w].min, h[V(w)]))
      BY <1>16 DEF LookAtHeight
  <2> QED BY <2>1, <2>2, <2>4, <2>5, LookOnFacts, StillSearching DEF RelabelSteps
<1>17. CASE Raise(w)
  <2>1. /\ e' = e /\ at[w].step = "raise" /\ at'[w].step = "requeue"
        /\ at'[w].u = at[w].u /\ at'[w].pushed = at[w].pushed
      BY <1>1, <1>17 DEF Raise, Places
  <2>2. a = at[w].u /\ at[w].pushed = FALSE
      BY <1>3, <2>1 DEF RelabelSteps
  <2> QED BY <2>1, <2>2, StillSearching DEF RelabelSteps
<1>18. CASE Requeue(w)
  <2>1. e' = e /\ at[w].step = "requeue" /\ at[w].step \in Working
      BY <1>18 DEF Requeue, shared, Working, Steps, RelabelSteps
  <2>2. a = at[w].u
      BY <1>3, <2>1 DEF RelabelSteps
  <2>3. ~(e[at[w].u] <= 0)
      BY <1>2, <2>1, <2>2, NodeFacts DEF TypeOK
  <2>4. CASE InRange(w, a)
    <3>1. /\ localq' = [localq EXCEPT ![w] = Append(@, a)] /\ w = ownerThread(a)
          /\ externalQueue' = externalQueue
        BY <1>1, <1>18, <2>2, <2>3, <2>4, OwnerFacts DEF Requeue
    <3> QED BY <1>1, <3>1, Kept
  <2>5. CASE ~InRange(w, a)
    <3>1. enqueueExternal(a) /\ localq' = localq
        BY <1>18, <2>2, <2>3, <2>5 DEF Requeue
    <3> QED BY <1>1, <3>1, Offered
  <2> QED BY <2>4, <2>5
<1> QED BY <1>5, <1>6, <1>7, <1>8, <1>9, <1>10, <1>11, <1>12, <1>13, <1>14, <1>15, <1>16,
           <1>17, <1>18 DEF ThreadStep

\* No step loses sight of a node with excess.
LEMMA ExcessStep ==
    ASSUME TypeOK, EdgesReached, StartOrder, OwnersAgree, ExcessIsQueued, Next
    PROVE  ExcessIsQueued'
<1> SUFFICES ASSUME p' = Len(Adj[s]), NEW a \in Inner, e'[a] > 0
             PROVE  \/ a >= i'
                    \/ a \in QueueOf(ownerThread(a))'
                    \/ \E w \in Thread : Keeps(w, a)'
    BY DEF ExcessIsQueued, ownerThread, NodesPerThread, Lesser
<1>1. a \in Node /\ a \in Nat /\ ownerThread(a) \in Thread /\ i \in Nat
    BY NodeFacts, OwnerFacts, SizeAssumption DEF Node, TypeOK
<1>2. CASE InitialPush
  <2>1. i' = 0
      BY <1>2 DEF InitialPush, StartOrder
  <2> QED BY <1>1, <2>1
<1>3. ASSUME e'[a] = e[a], p' = p
      PROVE  \/ a >= i
             \/ a \in QueueOf(ownerThread(a))
             \/ \E w \in Thread : Keeps(w, a)
    BY <1>3 DEF ExcessIsQueued
<1>4. ASSUME a \in QueueOf(ownerThread(a))
      PROVE  a \in QueueOf(ownerThread(a))' \/ \E w \in Thread : Keeps(w, a)'
  <2>1. PICK w \in Thread : w = ownerThread(a)
      BY <1>1
  <2>2. a \in QueueOf(w)' \/ (at'[w].step = "lock" /\ at'[w].u = a /\ at'[w].pushed = FALSE)
      BY <1>4, <2>1, QueueStep
  <2>3. QueueOf(ownerThread(a))' = QueueOf(w)'
      BY <2>1 DEF ownerThread, NodesPerThread, Lesser
  <2>4. at'[w].step = "lock" /\ at'[w].u = a /\ at'[w].pushed = FALSE => Keeps(w, a)'
      BY DEF Keeps
  <2> QED BY <2>2, <2>3, <2>4
<1>5. CASE Return
  <2>1. e' = e /\ p' = p /\ at' = at /\ i' = i
      BY <1>5 DEF Return, shared
  <2> QED BY <2>1, <1>3, <1>4, SamePlace
<1>6. CASE ScanNode
  <2>1. /\ e' = e /\ p' = p /\ at' = at /\ i' = i + 1 /\ externalQueue' = externalQueue
      BY <1>6 DEF ScanNode, shared
  <2>2. CASE a = i
    <3>1. PICK w \in Thread : w = threadID
        BY <1>6, ThreadAssumption DEF ScanNode, MoreThreads, TypeOK, Thread
    <3>2. End(w) <= N /\ End(w) \in Nat /\ N \in Nat /\ Start(w) \in Nat
        BY StartFacts, SizeAssumption
    <3>3. InRange(w, a)
        BY <1>1, <1>6, <2>2, <3>1, <3>2 DEF ScanNode, MoreThreads, InRange, StartOrder, Lesser
    <3>4. w = ownerThread(a) /\ localq' = [localq EXCEPT ![w] = Append(@, a)]
        BY <1>1, <1>6, <2>1, <2>2, <3>1, <3>3, OwnerFacts DEF ScanNode
    <3>5. a \in QueueOf(w)'
        BY <1>1, <2>1, <3>4, Kept
    <3> QED BY <3>4, <3>5 DEF ownerThread, NodesPerThread, Lesser
  <2>3. CASE a # i
    <3>1. a >= i => a >= i'
        BY <1>1, <2>1, <2>3
    <3> QED BY <2>1, <3>1, <1>3, <1>4, SamePlace
  <2> QED BY <2>2, <2>3
<1>7. CASE StartThread
  <2>1. e' = e /\ p' = p /\ i' = i /\ To(threadID, "take")
      BY <1>7 DEF StartThread, shared
  <2>2. ASSUME NEW w \in Thread, Keeps(w, a) PROVE Keeps(w, a)'
    <3>1. w # threadID
      <4>1. w >= threadID => at[w].step = "new"
          BY DEF StartOrder
      <4>2. threadID \in Int
          BY DEF TypeOK
      <4> QED BY <2>2, <4>1, <4>2 DEF Keeps, PushSteps, RelabelSteps
    <3>2. at'[w] = at[w]
        BY <2>1, <3>1 DEF To, TypeOK
    <3> QED BY <2>2, <3>2, SamePlace
  <2> QED BY <2>1, <2>2, <1>3, <1>4
<1>8. ASSUME NEW w \in Thread, ThreadStep(w)
      PROVE  \/ a >= i'
             \/ a \in QueueOf(ownerThread(a))'
             \/ \E z \in Thread : Keeps(z, a)'
  <2>1. p' = p /\ i' = i
      BY <1>8, MainWaits DEF mainVars
  <2>2. CASE e[a] > 0 => Keeps(w, a)
      BY <1>8, <2>2, ThreadKeeps
  <2>3. CASE e[a] > 0 /\ ~Keeps(w, a)
    <3>1. \/ a >= i
          \/ a \in QueueOf(ownerThread(a))
          \/ \E z \in Thread : Keeps(z, a)
        BY <2>1, <2>3 DEF ExcessIsQueued
    <3>2. ASSUME NEW z \in Thread, Keeps(z, a) PROVE Keeps(z, a)'
      <4>1. z # w
          BY <2>3, <3>2
      <4>2. at'[z] = at[z]
          BY <1>8, <4>1, OneMoves
      <4> QED BY <3>2, <4>2, SamePlace
    <3> QED BY <2>1, <3>1, <3>2, <1>4
  <2> QED BY <2>2, <2>3
<1> QED BY <1>2, <1>5, <1>6, <1>7, <1>8 DEF Next, MainStep

-----------------------------------------------------------------------------
(* The theorems.                                                            *)

Inv == TypeOK /\ EdgesReached /\ StartOrder /\ OwnersAgree /\ LocksFit /\ ExcessIsQueued

\* Before the first step no lock is held, no queue has a node and no node excess.
LEMMA InvInit == Init => Inv
<1> SUFFICES ASSUME Init PROVE Inv
    OBVIOUS
<1>1. \A w \in Thread : at[w].step = "new"
  <2>1. Place("new", s, 1, FALSE).step = "new"
      BY NodeFacts, FreshPlace DEF Steps
  <2> QED BY <2>1 DEF Init
<1>2. TypeOK /\ EdgesReached
    BY TypeInit
<1>3. StartOrder
  <2>1. threadID = 0 /\ i = 0 /\ Start(threadID) = 0 /\ N \in Nat
      BY RangeSize, SizeAssumption DEF Init, Start
  <2>2. i >= Lesser(Start(threadID), N)
      BY <2>1 DEF Lesser
  <2> QED BY <1>1, <2>1, <2>2 DEF StartOrder
<1>4. OwnersAgree
  <2>1. \A w \in Thread : QueueOf(w) = {}
      BY QueueIsMembers, EmptyMembers DEF Init
  <2> QED BY <1>1, <2>1 DEF OwnersAgree, Working
<1>5. LocksFit
  <2>1. \A w \in Thread : Held(w) = {}
      BY <1>1, <1>2, HeldFacts
  <2>2. \A w \in Thread : w # NoOne
      BY ThreadAssumption DEF Thread, NoOne
  <2> QED BY <2>1, <2>2 DEF Init, LocksFit
<1>6. ExcessIsQueued
  <2>1. \A a \in Inner : a \in Node
      BY NodeFacts
  <2> QED BY <2>1 DEF Init, ExcessIsQueued
<1> QED BY <1>2, <1>3, <1>4, <1>5, <1>6 DEF Inv

\* Every step keeps the invariant.
LEMMA InvStep == Inv /\ [Next]_vars => Inv'
<1> SUFFICES ASSUME Inv, [Next]_vars PROVE Inv'
    OBVIOUS
<1>1. CASE Next
    BY <1>1, TypeStep, ReachedStep, StartStep, OwnersStep, LocksStep, ExcessStep DEF Inv
<1>2. CASE UNCHANGED vars
  <2>1. TypeOK'
      BY <1>2 DEF Inv, TypeOK, vars, shared
  <2>2. EdgesReached'
      BY <1>2 DEF Inv, EdgesReached, QueueOf, vars, shared
  <2>3. StartOrder'
      BY <1>2 DEF Inv, StartOrder, Start, NodesPerThread, Lesser, vars, shared
  <2>4. OwnersAgree'
      BY <1>2 DEF Inv, OwnersAgree, QueueOf, InRange, Start, End, NodesPerThread, Lesser, vars, shared
  <2>5. LocksFit'
      BY <1>2 DEF Inv, LocksFit, Held, Second, LockedWith, V, X, vars, shared
  <2>6. ExcessIsQueued'
      BY <1>2 DEF Inv, ExcessIsQueued, QueueOf, ownerThread, NodesPerThread, Lesser, Keeps, V, X,
         vars, shared
  <2> QED BY <2>1, <2>2, <2>3, <2>4, <2>5, <2>6 DEF Inv
<1> QED BY <1>1, <1>2

\* The strengthening of what is proved below is an invariant.
THEOREM Invariance == Spec => []Inv
BY InvInit, InvStep, PTL DEF Spec

\* The types, and an iterator that never leaves its list.
THEOREM TypeCorrect == Spec => []TypeOK
<1>1. Inv => TypeOK
    BY DEF Inv
<1> QED BY <1>1, Invariance, PTL

\* The constructor's ranges and ownerThread agree whatever n and numThreads are:
\* every node is worked on by one thread only.
THEOREM OwnersAlwaysAgree == Spec => []OwnersAgree
<1>1. Inv => OwnersAgree
    BY DEF Inv
<1> QED BY <1>1, Invariance, PTL

\* The one lock a push takes beside u's suffices for the flow of the edge.
THEOREM EdgeAlwaysHasOnePusher == Spec => []EdgeHasOnePusher
<1>1. Inv => EdgeHasOnePusher
    BY HigherEndLocked DEF Inv
<1> QED BY <1>1, Invariance, PTL

\* Excess that is left, lost updates or not, is in its owner's queue or about to
\* be put there: only a thread that has returned can leave it lying.
THEOREM ExcessAlwaysQueued == Spec => []ExcessIsQueued
<1>1. Inv => ExcessIsQueued
    BY DEF Inv
<1> QED BY <1>1, Invariance, PTL

\* However many threads: no ring of them waits for each other's node locks.
THEOREM NobodyEverWaitsInARing == Spec => []NobodyWaitsInARing
<1>1. Inv => NobodyWaitsInARing
    BY NoRing DEF Inv
<1> QED BY <1>1, Invariance, PTL

=============================================================================
