--------------------------- MODULE FlowGraphProof ---------------------------
(***************************************************************************)
(* Lemmas the proofs of the programs share: about the graph, about a list  *)
(* of inner nodes that is entered and left at the front, about sums over   *)
(* finite sets, and about preflows: what every step of the algorithm       *)
(* keeps, and why the excess of the sink is the maximum flow in the end.   *)
(*                                                                         *)
(* The sums rest on induction over data, done by way of a least            *)
(* counterexample: the naturals for which a statement holds are a set.     *)
(***************************************************************************)
EXTENDS ValidPreflow, Functions, SequenceTheorems, WellFoundedInduction, FiniteSetTheorems,
        TLAPS

LEMMA NodeFacts ==
    /\ s \in Node /\ t \in Node /\ s # t
    /\ \A a : a \in Inner <=> a \in Node /\ a \notin {s, t}
    /\ Node \subseteq Int /\ -1 \notin Node
BY SizeAssumption DEF Node, Inner, s, t

\* The links of a node lead along its own edges to other nodes.
LEMMA LinkFacts ==
    ASSUME NEW a \in Node, NEW k \in 1 .. Len(Adj[a])
    PROVE  /\ Adj[a][k] \in Edge
           /\ Adj[a][k] \in Incident(a)
           /\ a \in {EdgeU[Adj[a][k]], EdgeV[Adj[a][k]]}
           /\ Other(a, Adj[a][k]) \in Node
           /\ Other(a, Adj[a][k]) # a
BY AdjAssumption, EdgeAssumption DEF Incident, Other

LEMMA LengthFacts == \A a \in Node : Len(Adj[a]) \in Nat
BY AdjAssumption, LenProperties

\* An edge has two end points.
LEMMA EndPoints ==
    ASSUME NEW x \in Edge, NEW a \in {EdgeU[x], EdgeV[x]},
           NEW b \in {EdgeU[x], EdgeV[x]}, a # b
    PROVE  Other(a, x) = b /\ Other(b, x) = a
BY EdgeAssumption DEF Other

\* What is pushed is natural and no more than the excess, and it is positive
\* when there is excess and the edge has room.
LEMMA AmountFacts ==
    ASSUME NEW ex \in [Node -> Nat], NEW fl \in [Edge -> Int],
           NEW a \in Node, NEW x \in Incident(a), FlowFrom(fl, a, x) < Cap[x]
    PROVE  /\ Amount(fl, ex, a, x) \in Nat
           /\ Amount(fl, ex, a, x) <= ex[a]
           /\ ex[a] > 0 => Amount(fl, ex, a, x) > 0
<1>1. x \in Edge /\ fl[x] \in Int /\ Cap[x] \in Nat /\ ex[a] \in Nat
    BY EdgeAssumption DEF Incident
<1> QED
    BY <1>1 DEF Amount, Lesser, Residual, FlowFrom

-----------------------------------------------------------------------------
(* The list of nodes with excess *)

LEMMA EmptyList ==
    /\ << >> \in Seq(Inner)
    /\ Range(<< >>) = {}
    /\ IsInjective(<< >>)
BY EmptySeq DEF Range, IsInjective

\* The members of the list are inner nodes.
LEMMA EntryIsInner ==
    ASSUME NEW list \in Seq(Inner), NEW a \in Range(list)
    PROVE  a \in Inner
BY LenProperties DEF Range

\* A node put in front joins the members of the list.
LEMMA FrontFacts ==
    ASSUME NEW list \in Seq(Inner), NEW a \in Inner
    PROVE  /\ <<a>> \o list \in Seq(Inner)
           /\ Range(<<a>> \o list) = Range(list) \cup {a}
           /\ IsInjective(list) /\ a \notin Range(list) => IsInjective(<<a>> \o list)
           /\ <<a>> \o list # << >>
<1>2. <<a>> \in Seq(Inner) /\ Len(<<a>>) = 1 /\ <<a>>[1] = a
    OBVIOUS
<1> DEFINE new == <<a>> \o list
<1>3. /\ new \in Seq(Inner)
      /\ Len(new) = Len(list) + 1
      /\ Len(list) \in Nat
      /\ new[1] = a
      /\ \A k \in 1 .. Len(list) : new[k + 1] = list[k]
      /\ DOMAIN new = 1 .. Len(list) + 1
      /\ DOMAIN list = 1 .. Len(list)
    BY <1>2, ConcatProperties, LenProperties
<1> HIDE DEF new
<1>4. \A k \in 2 .. Len(list) + 1 : k - 1 \in 1 .. Len(list) /\ new[k] = list[k - 1]
  <2> SUFFICES ASSUME NEW k \in 2 .. Len(list) + 1
               PROVE  k - 1 \in 1 .. Len(list) /\ new[k] = list[k - 1]
      OBVIOUS
  <2>1. k - 1 \in 1 .. Len(list) /\ (k - 1) + 1 = k
      BY <1>3
  <2> QED
      BY <2>1, <1>3
<1>5. Range(new) = Range(list) \cup {a}
  <2>1. \A c \in Range(new) : c \in Range(list) \cup {a}
      BY <1>3, <1>4 DEF Range
  <2>2. \A c \in Range(list) : c \in Range(new)
      BY <1>3 DEF Range
  <2>3. a \in Range(new)
      BY <1>3 DEF Range
  <2> QED
      BY <2>1, <2>2, <2>3
<1>6. ASSUME IsInjective(list), a \notin Range(list) PROVE IsInjective(new)
  <2> SUFFICES ASSUME NEW k \in 1 .. Len(list) + 1, NEW l \in 1 .. Len(list) + 1,
                      new[k] = new[l]
               PROVE  k = l
      BY <1>3 DEF IsInjective
  <2>1. CASE k = 1 /\ l = 1
      BY <2>1
  <2>2. CASE k = 1 /\ l # 1
      BY <2>2, <1>3, <1>4, <1>6 DEF Range
  <2>3. CASE k # 1 /\ l = 1
      BY <2>3, <1>3, <1>4, <1>6 DEF Range
  <2>4. CASE k # 1 /\ l # 1
    <3>1. k - 1 \in 1 .. Len(list) /\ l - 1 \in 1 .. Len(list) /\ list[k - 1] = list[l - 1]
        BY <2>4, <1>3, <1>4
    <3>2. k - 1 = l - 1
        BY <3>1, <1>3, <1>6 DEF IsInjective
    <3> QED
        BY <3>2, <1>3
  <2> QED
      BY <2>1, <2>2, <2>3, <2>4
<1>7. new # << >>
    BY <1>3, EmptySeq
<1> QED
    BY <1>3, <1>5, <1>6, <1>7 DEF new

\* The first node taken out leaves the members of the list.
LEMMA LeaveFacts ==
    ASSUME NEW list \in Seq(Inner), list # << >>, IsInjective(list)
    PROVE  /\ Head(list) \in Inner
           /\ Head(list) \in Range(list)
           /\ Tail(list) \in Seq(Inner)
           /\ Range(Tail(list)) = Range(list) \ {Head(list)}
           /\ IsInjective(Tail(list))
<1> DEFINE new == Tail(list)
<1>1. /\ Head(list) \in Inner /\ new \in Seq(Inner)
      /\ Len(new) = Len(list) - 1
      /\ Len(list) \in Nat /\ Len(list) > 0
      /\ \A k \in 1 .. Len(new) : new[k] = list[k + 1]
      /\ DOMAIN new = 1 .. Len(list) - 1
      /\ DOMAIN list = 1 .. Len(list)
    BY HeadTailProperties, LenProperties
<1>2. Head(list) = list[1]
    OBVIOUS
<1> HIDE DEF new
<1>3. \A c \in Range(new) : c \in Range(list) \ {Head(list)}
  <2> SUFFICES ASSUME NEW k \in 1 .. Len(list) - 1
               PROVE  new[k] \in Range(list) /\ new[k] # list[1]
      BY <1>1, <1>2 DEF Range
  <2>1. new[k] = list[k + 1] /\ k + 1 \in 1 .. Len(list) /\ k + 1 # 1 /\ 1 \in 1 .. Len(list)
      BY <1>1
  <2> QED
      BY <2>1, <1>1 DEF Range, IsInjective
<1>4. \A c \in Range(list) \ {Head(list)} : c \in Range(new)
  <2> SUFFICES ASSUME NEW k \in 1 .. Len(list), list[k] # list[1]
               PROVE  list[k] \in Range(new)
      BY <1>1, <1>2 DEF Range
  <2>1. k # 1 /\ k - 1 \in 1 .. Len(list) - 1 /\ (k - 1) + 1 = k
      BY <1>1
  <2>2. new[k - 1] = list[k]
      BY <2>1, <1>1
  <2> QED
      BY <2>1, <2>2, <1>1 DEF Range
<1>5. IsInjective(new)
  <2> SUFFICES ASSUME NEW k \in 1 .. Len(list) - 1, NEW l \in 1 .. Len(list) - 1,
                      new[k] = new[l]
               PROVE  k = l
      BY <1>1 DEF IsInjective
  <2>1. k + 1 \in 1 .. Len(list) /\ l + 1 \in 1 .. Len(list) /\ list[k + 1] = list[l + 1]
      BY <1>1
  <2>2. k + 1 = l + 1
      BY <2>1, <1>1 DEF IsInjective
  <2> QED
      BY <2>2, <1>1
<1>6. Head(list) \in Range(list)
    BY <1>1, <1>2 DEF Range
<1> QED
    BY <1>1, <1>3, <1>4, <1>5, <1>6 DEF new

-----------------------------------------------------------------------------

\* Every non-empty set of naturals has a least element.
LEMMA LeastNatural ==
    ASSUME NEW S, S \subseteq Nat, S # {}
    PROVE  \E j \in S : \A k \in S : ~(k < j)
<1> DEFINE R == OpToRel(<, Nat)
<1>1. IsWellFoundedOn(OpToRel(<, Nat), Nat)
    BY NatLessThanWellFounded, Zenon
<1>2. IsWellFoundedOn(R, Nat)
    BY <1>1, Zenon
<1>3. \A j, k \in Nat : j < k => <<j, k>> \in R
    BY Zenon DEF OpToRel
<1> HIDE DEF R
<1>4. \E j \in S : \A k \in S : ~(<<k, j>> \in R)
    BY <1>2, WFMin
<1> QED
    BY <1>3, <1>4

\* Induction over the naturals, for a set of them.
LEMMA SetOfNaturals ==
    ASSUME NEW P, 0 \in P, \A n \in Nat : n \in P => n + 1 \in P
    PROVE  \A n \in Nat : n \in P
<1> SUFFICES ASSUME {n \in Nat : n \notin P} # {} PROVE FALSE
    OBVIOUS
<1>1. PICK j \in {n \in Nat : n \notin P} : \A k \in {n \in Nat : n \notin P} : ~(k < j)
    BY LeastNatural
<1>2. j # 0 /\ j - 1 \in Nat /\ j - 1 < j /\ (j - 1) + 1 = j
    BY <1>1
<1> QED
    BY <1>1, <1>2

\* A set of n + 1 elements without one of them.
LEMMA OneLess ==
    ASSUME NEW T, IsFiniteSet(T), NEW n \in Nat, Cardinality(T) = n + 1
    PROVE  T # {} /\ \A c \in T : Cardinality(T \ {c}) = n
<1>1. Cardinality(T) # 0
    OBVIOUS
<1>2. T # {}
    BY <1>1, FS_EmptySet, Zenon
<1>3. ASSUME NEW c \in T PROVE Cardinality(T \ {c}) = n
  <2>1. Cardinality(T \ {c}) = Cardinality(T) - 1
      BY FS_RemoveElement
  <2> QED
      BY <2>1
<1> QED
    BY <1>2, <1>3

\* Induction over the subsets of a finite set, for a set of them.
LEMMA SetOfSubsets ==
    ASSUME NEW S, IsFiniteSet(S), NEW P, {} \in P,
           \A T \in SUBSET S : \A c \in S \ T : T \in P => T \cup {c} \in P
    PROVE  S \in P
<1> DEFINE Sized(n) == {T \in SUBSET S : Cardinality(T) = n}
           Q == {n \in Nat : Sized(n) \subseteq P}
<1>0. \A T \in SUBSET S : IsFiniteSet(T) /\ Cardinality(T) \in Nat
    BY FS_Subset, FS_CardinalityType
<1>1. 0 \in Q
    BY <1>0, FS_EmptySet
<1>2. ASSUME NEW n \in Nat, n \in Q PROVE n + 1 \in Q
  <2> SUFFICES ASSUME NEW T \in Sized(n + 1) PROVE T \in P
      OBVIOUS
  <2>1. T # {} /\ \A c \in T : Cardinality(T \ {c}) = n
      BY <1>0, OneLess
  <2>2. PICK c \in T : TRUE
      BY <2>1
  <2>3. T \ {c} \in SUBSET S /\ Cardinality(T \ {c}) = n
      BY <2>1, <2>2
  <2>4. T \ {c} \in P /\ c \in S \ (T \ {c})
      BY <2>2, <2>3, <1>2
  <2>5. (T \ {c}) \cup {c} = T
      BY <2>2
  <2> QED
      BY <2>3, <2>4, <2>5
<1> HIDE DEF Q
<1>3. \A n \in Nat : n \in Q
    BY <1>1, <1>2, SetOfNaturals
<1>4. Cardinality(S) \in Q
    BY <1>0, <1>3
<1> QED
    BY <1>4 DEF Q

-----------------------------------------------------------------------------
(* Sums.                                                                    *)

\* F is the sum of g over the subsets of S of at most n elements.
SumsUpTo(F, S, g, n) ==
    F = [T \in {T \in SUBSET S : Cardinality(T) <= n} |->
            IF T = {} THEN 0
            ELSE g[CHOOSE c \in T : TRUE] + F[T \ {CHOOSE c \in T : TRUE}]]

\* The recursion that defines a sum has a solution.
LEMMA SumsExist ==
    ASSUME NEW S, IsFiniteSet(S), NEW g, NEW n \in Nat
    PROVE  \E F : SumsUpTo(F, S, g, n)
<1> DEFINE P == {k \in Nat : \E F : SumsUpTo(F, S, g, k)}
           First(T) == CHOOSE c \in T : TRUE
           Small(k) == {T \in SUBSET S : Cardinality(T) <= k}
<1>0. \A T \in SUBSET S : IsFiniteSet(T) /\ Cardinality(T) \in Nat
    BY FS_Subset, FS_CardinalityType
<1>1. 0 \in P
  <2> DEFINE F == [T \in Small(0) |-> 0]
  <2>1. \A T \in Small(0) : T = {}
      BY <1>0, FS_EmptySet
  <2>2. SumsUpTo(F, S, g, 0)
      BY <2>1 DEF SumsUpTo
  <2> QED
      BY <2>2
<1>2. ASSUME NEW k \in Nat, k \in P PROVE k + 1 \in P
  <2>1. PICK F : SumsUpTo(F, S, g, k)
      BY <1>2
  <2> DEFINE G == [T \in Small(k + 1) |->
                     IF T = {} THEN 0 ELSE g[First(T)] + F[T \ {First(T)}]]
  <2>2. \A T \in Small(k) : T \in Small(k + 1)
      BY <1>0
  <2>3. \A T \in Small(k) : G[T] = F[T]
      BY <2>1, <2>2 DEF SumsUpTo
  <2>4. \A T \in Small(k + 1) : T # {} => T \ {First(T)} \in Small(k)
    <3> SUFFICES ASSUME NEW T \in Small(k + 1), T # {}
                 PROVE  T \ {First(T)} \in Small(k)
        OBVIOUS
    <3>1. First(T) \in T
        OBVIOUS
    <3>2. IsFiniteSet(T) /\ Cardinality(T) \in Nat
        BY <1>0
    <3> HIDE DEF First
    <3>3. Cardinality(T \ {First(T)}) = Cardinality(T) - 1
        BY <3>1, <3>2, FS_RemoveElement
    <3> QED
        BY <3>2, <3>3
  <2>5. G = [T \in Small(k + 1) |->
               IF T = {} THEN 0 ELSE g[First(T)] + G[T \ {First(T)}]]
    <3> HIDE DEF Small
    <3>1. \A T \in Small(k + 1) : T # {} => F[T \ {First(T)}] = G[T \ {First(T)}]
        BY <2>3, <2>4
    <3> HIDE DEF First
    <3> QED
        BY <3>1
  <2>6. SumsUpTo(G, S, g, k + 1)
      BY <2>5 DEF SumsUpTo
  <2> QED
      BY <2>6
<1> HIDE DEF P
<1>3. n \in P
    BY <1>1, <1>2, SetOfNaturals
<1> QED
    BY <1>3 DEF P

\* The sums over all the subsets of S.
Sums(F, S, g) ==
    F = [T \in SUBSET S |->
            IF T = {} THEN 0
            ELSE g[CHOOSE c \in T : TRUE] + F[T \ {CHOOSE c \in T : TRUE}]]

LEMMA SumIsDefined ==
    ASSUME NEW S, IsFiniteSet(S), NEW g
    PROVE  \E F : Sums(F, S, g) /\ SumOver(S, g) = F[S]
<1>1. SumOver(S, g) = (CHOOSE F : Sums(F, S, g))[S]
    BY DEF SumOver, Sets!MapThenSumSet, Sets!MapThenFoldSet, Sums
<1>2. \A T \in SUBSET S : Cardinality(T) <= Cardinality(S)
    BY FS_Subset
<1>3. Cardinality(S) \in Nat
    BY FS_CardinalityType
<1>4. PICK F : SumsUpTo(F, S, g, Cardinality(S))
    BY <1>3, SumsExist
<1>5. {T \in SUBSET S : Cardinality(T) <= Cardinality(S)} = SUBSET S
    BY <1>2
<1>6. Sums(F, S, g)
    BY <1>4, <1>5 DEF SumsUpTo, Sums
<1> QED
    BY <1>1, <1>6

\* Sums of integers are integers, and do not depend on the order in which they
\* are taken.
LEMMA SumsType ==
    ASSUME NEW S, IsFiniteSet(S), NEW g, \A c \in S : g[c] \in Int,
           NEW F, Sums(F, S, g)
    PROVE  \A T \in SUBSET S : F[T] \in Int
<1> DEFINE First(T) == CHOOSE c \in T : TRUE
           P == {n \in Nat : \A T \in SUBSET S : Cardinality(T) = n => F[T] \in Int}
<1>0. \A T \in SUBSET S : IsFiniteSet(T) /\ Cardinality(T) \in Nat
    BY FS_Subset, FS_CardinalityType
<1>1. F[{}] = 0
    BY DEF Sums
<1>2. \A T \in SUBSET S : T # {} => First(T) \in T /\ F[T] = g[First(T)] + F[T \ {First(T)}]
    BY DEF Sums
<1> HIDE DEF First
<1>3. 0 \in P
  <2>1. \A T \in SUBSET S : Cardinality(T) = 0 => T = {}
      BY <1>0, FS_EmptySet
  <2> QED
      BY <2>1, <1>1
<1>4. ASSUME NEW n \in Nat, n \in P PROVE n + 1 \in P
  <2> SUFFICES ASSUME NEW T \in SUBSET S, Cardinality(T) = n + 1 PROVE F[T] \in Int
      OBVIOUS
  <2>1. T # {} /\ \A c \in T : Cardinality(T \ {c}) = n
      BY <1>0, OneLess
  <2>2. First(T) \in T /\ F[T] = g[First(T)] + F[T \ {First(T)}] /\ g[First(T)] \in Int
      BY <2>1, <1>2
  <2>3. T \ {First(T)} \in SUBSET S /\ Cardinality(T \ {First(T)}) = n
      BY <2>1, <2>2
  <2> QED
      BY <2>2, <2>3, <1>4
<1> HIDE DEF P
<1>5. \A n \in Nat : n \in P
    BY <1>3, <1>4, SetOfNaturals
<1> QED
    BY <1>0, <1>5 DEF P

LEMMA SumsOrder ==
    ASSUME NEW S, IsFiniteSet(S), NEW g, \A c \in S : g[c] \in Int,
           NEW F, Sums(F, S, g)
    PROVE  \A T \in SUBSET S : \A c \in T : F[T] = F[T \ {c}] + g[c]
<1> DEFINE First(T) == CHOOSE c \in T : TRUE
           Good(T) == \A c \in T : F[T] = F[T \ {c}] + g[c]
           P == {n \in Nat : \A T \in SUBSET S : Cardinality(T) = n => Good(T)}
<1>0. \A T \in SUBSET S : IsFiniteSet(T) /\ Cardinality(T) \in Nat /\ F[T] \in Int
    BY FS_Subset, FS_CardinalityType, SumsType
<1>1. \A T \in SUBSET S : T # {} => First(T) \in T /\ F[T] = g[First(T)] + F[T \ {First(T)}]
    BY DEF Sums
<1> HIDE DEF First
<1>2. 0 \in P
  <2>1. \A T \in SUBSET S : Cardinality(T) = 0 => T = {}
      BY <1>0, FS_EmptySet
  <2> QED
      BY <2>1
<1>3. ASSUME NEW n \in Nat, n \in P PROVE n + 1 \in P
  <2> SUFFICES ASSUME NEW T \in SUBSET S, Cardinality(T) = n + 1, NEW c \in T
               PROVE  F[T] = F[T \ {c}] + g[c]
      OBVIOUS
  <2> DEFINE a == First(T)
  <2>1. a \in T /\ F[T] = g[a] + F[T \ {a}]
      BY <1>1
  <2> HIDE DEF a
  <2>2. \A b \in T : T \ {b} \in SUBSET S /\ Cardinality(T \ {b}) = n
      BY <1>0, OneLess
  <2>3. \A b \in T : Good(T \ {b})
      BY <2>2, <1>3
  <2>4. g[a] \in Int /\ g[c] \in Int
      BY <2>1
  <2>5. CASE c = a
      BY <2>5, <2>1, <2>2, <2>4, <1>0
  <2>6. CASE c # a
    <3> DEFINE U == T \ {a, c}
    <3>1. (T \ {a}) \ {c} = U /\ (T \ {c}) \ {a} = U /\ U \in SUBSET S
        OBVIOUS
    <3>2. c \in T \ {a} /\ a \in T \ {c}
        BY <2>1, <2>6
    <3>3. F[T \ {a}] = F[U] + g[c]
        BY <3>1, <3>2, <2>1, <2>3
    <3>4. F[T \ {c}] = F[U] + g[a]
        BY <3>1, <3>2, <2>3
    <3>5. F[U] \in Int
        BY <3>1, <1>0
    <3> HIDE DEF U
    <3> QED
        BY <3>3, <3>4, <3>5, <2>1, <2>4
  <2> QED
      BY <2>5, <2>6
<1> HIDE DEF P
<1>4. \A n \in Nat : n \in P
    BY <1>2, <1>3, SetOfNaturals
<1> QED
    BY <1>0, <1>4 DEF P

\* Functions that agree on a set have the same sum over it, whatever larger sets
\* the sums were defined for.
LEMMA SumsAgree ==
    ASSUME NEW S, IsFiniteSet(S), NEW g, \A c \in S : g[c] \in Int, NEW F, Sums(F, S, g),
           NEW U, IsFiniteSet(U), NEW k, \A c \in U : k[c] \in Int, NEW G, Sums(G, U, k),
           NEW T, T \subseteq S, T \subseteq U, \A c \in T : g[c] = k[c]
    PROVE  F[T] = G[T]
<1> DEFINE P == {V \in SUBSET T : F[V] = G[V]}
<1>1. F[{}] = 0 /\ G[{}] = 0
    BY DEF Sums
<1>2. ASSUME NEW V \in SUBSET T, NEW c \in T \ V, V \in P PROVE V \cup {c} \in P
  <2>1. /\ V \cup {c} \in SUBSET S /\ V \cup {c} \in SUBSET U
        /\ c \in V \cup {c} /\ (V \cup {c}) \ {c} = V
      BY <1>2
  <2>2. F[V \cup {c}] = F[V] + g[c]
      BY <2>1, SumsOrder
  <2>3. G[V \cup {c}] = G[V] + k[c]
      BY <2>1, SumsOrder
  <2> QED
      BY <2>1, <2>2, <2>3, <1>2
<1>3. IsFiniteSet(T)
    BY FS_Subset
<1>4. {} \in P
    BY <1>1
<1> HIDE DEF P
<1>5. T \in P
    BY <1>2, <1>3, <1>4, SetOfSubsets
<1> QED
    BY <1>5 DEF P

\* The facts the proofs use: a sum is an integer, the sum over nothing is 0,
\* one element more adds its value, and only the values on the set matter.
LEMMA SumType ==
    ASSUME NEW S, IsFiniteSet(S), NEW g, \A c \in S : g[c] \in Int
    PROVE  SumOver(S, g) \in Int
BY SumIsDefined, SumsType

LEMMA SumEmpty == \A g : SumOver({}, g) = 0
<1> SUFFICES ASSUME NEW g PROVE SumOver({}, g) = 0
    OBVIOUS
<1>1. PICK F : Sums(F, {}, g) /\ SumOver({}, g) = F[{}]
    BY SumIsDefined, FS_EmptySet
<1> QED
    BY <1>1 DEF Sums

LEMMA SumSame ==
    ASSUME NEW S, IsFiniteSet(S), NEW g, \A c \in S : g[c] \in Int,
           NEW k, \A c \in S : g[c] = k[c]
    PROVE  SumOver(S, g) = SumOver(S, k)
<1>1. PICK F : Sums(F, S, g) /\ SumOver(S, g) = F[S]
    BY SumIsDefined
<1>2. PICK G : Sums(G, S, k) /\ SumOver(S, k) = G[S]
    BY SumIsDefined
<1>3. \A c \in S : k[c] \in Int
    OBVIOUS
<1> QED
    BY <1>1, <1>2, <1>3, SumsAgree

LEMMA SumRemove ==
    ASSUME NEW S, IsFiniteSet(S), NEW g, \A c \in S : g[c] \in Int, NEW a \in S
    PROVE  SumOver(S, g) = SumOver(S \ {a}, g) + g[a]
<1>1. PICK F : Sums(F, S, g) /\ SumOver(S, g) = F[S]
    BY SumIsDefined
<1>2. IsFiniteSet(S \ {a})
    BY FS_Subset
<1>3. PICK G : Sums(G, S \ {a}, g) /\ SumOver(S \ {a}, g) = G[S \ {a}]
    BY <1>2, SumIsDefined
<1>4. F[S] = F[S \ {a}] + g[a]
    BY <1>1, SumsOrder
<1>5. F[S \ {a}] = G[S \ {a}]
    BY <1>1, <1>2, <1>3, SumsAgree
<1> QED
    BY <1>1, <1>3, <1>4, <1>5

LEMMA SumAdd ==
    ASSUME NEW S, IsFiniteSet(S), NEW g, \A c \in S : g[c] \in Int,
           NEW a, a \notin S, g[a] \in Int
    PROVE  SumOver(S \cup {a}, g) = SumOver(S, g) + g[a]
<1>1. IsFiniteSet(S \cup {a}) /\ (S \cup {a}) \ {a} = S /\ \A c \in S \cup {a} : g[c] \in Int
    BY FS_AddElement
<1> QED
    BY <1>1, SumRemove

\* One value changes.
LEMMA SumChange ==
    ASSUME NEW S, IsFiniteSet(S), NEW g, \A c \in S : g[c] \in Int, NEW a \in S,
           NEW k, \A c \in S : c # a => k[c] = g[c], k[a] \in Int
    PROVE  SumOver(S, k) = SumOver(S, g) - g[a] + k[a]
<1>1. \A c \in S : k[c] \in Int
    OBVIOUS
<1>2. SumOver(S, k) = SumOver(S \ {a}, k) + k[a]
    BY <1>1, SumRemove
<1>3. SumOver(S, g) = SumOver(S \ {a}, g) + g[a]
    BY SumRemove
<1>4. IsFiniteSet(S \ {a})
    BY FS_Subset
<1>5. SumOver(S \ {a}, g) = SumOver(S \ {a}, k) /\ SumOver(S \ {a}, g) \in Int
    BY <1>4, SumSame, SumType
<1> QED
    BY <1>2, <1>3, <1>5

\* Sums are monotonic.
LEMMA SumLess ==
    ASSUME NEW S, IsFiniteSet(S), NEW g, \A c \in S : g[c] \in Int,
           NEW k, \A c \in S : k[c] \in Int /\ g[c] <= k[c]
    PROVE  SumOver(S, g) <= SumOver(S, k)
<1> DEFINE P == {V \in SUBSET S : SumOver(V, g) <= SumOver(V, k)}
<1>1. {} \in P
    BY SumEmpty
<1>2. ASSUME NEW V \in SUBSET S, NEW c \in S \ V, V \in P PROVE V \cup {c} \in P
  <2>1. IsFiniteSet(V)
      BY FS_Subset
  <2>2. SumOver(V \cup {c}, g) = SumOver(V, g) + g[c] /\ SumOver(V, g) \in Int
      BY <2>1, SumAdd, SumType
  <2>3. SumOver(V \cup {c}, k) = SumOver(V, k) + k[c] /\ SumOver(V, k) \in Int
      BY <2>1, SumAdd, SumType
  <2> QED
      BY <2>2, <2>3, <1>2
<1> HIDE DEF P
<1>3. S \in P
    BY <1>1, <1>2, SetOfSubsets
<1> QED
    BY <1>3 DEF P

\* All values but one are 0.
LEMMA SumOfOne ==
    ASSUME NEW S, IsFiniteSet(S), NEW g, NEW a \in S, g[a] \in Int,
           \A c \in S : c # a => g[c] = 0
    PROVE  SumOver(S, g) = g[a]
<1> DEFINE P == {V \in SUBSET (S \ {a}) : SumOver(V, g) = 0}
<1>0. \A c \in S : g[c] \in Int
    OBVIOUS
<1>1. {} \in P
    BY SumEmpty
<1>2. ASSUME NEW V \in SUBSET (S \ {a}), NEW c \in (S \ {a}) \ V, V \in P
      PROVE  V \cup {c} \in P
  <2>1. IsFiniteSet(V)
      BY FS_Subset
  <2>2. SumOver(V \cup {c}, g) = SumOver(V, g) + g[c]
      BY <2>1, <1>0, SumAdd
  <2> QED
      BY <2>2, <1>2
<1> HIDE DEF P
<1>3. IsFiniteSet(S \ {a})
    BY FS_Subset
<1>4. S \ {a} \in P
    BY <1>1, <1>2, <1>3, SetOfSubsets
<1>5. SumOver(S, g) = SumOver(S \ {a}, g) + g[a]
    BY <1>0, SumRemove
<1> QED
    BY <1>4, <1>5 DEF P

LEMMA SumOfZeros ==
    ASSUME NEW S, IsFiniteSet(S), NEW g, \A c \in S : g[c] = 0
    PROVE  SumOver(S, g) = 0
<1>1. CASE S = {}
    BY <1>1, SumEmpty
<1>2. CASE S # {}
    BY <1>2, SumOfOne
<1> QED
    BY <1>1, <1>2

\* What is moved from one element to another leaves the sum alone.
LEMMA SumMove ==
    ASSUME NEW S, IsFiniteSet(S), NEW g, \A c \in S : g[c] \in Int,
           NEW a \in S, NEW b \in S, a # b, NEW d \in Int,
           NEW k, k[a] = g[a] - d, k[b] = g[b] + d,
           \A c \in S : c \notin {a, b} => k[c] = g[c]
    PROVE  SumOver(S, k) = SumOver(S, g)
<1> DEFINE mid == [c \in S |-> IF c = a THEN g[a] - d ELSE g[c]]
<1>1. /\ mid[a] = g[a] - d /\ mid[b] = g[b]
      /\ \A c \in S : mid[c] \in Int
      /\ \A c \in S : c # a => mid[c] = g[c]
      /\ \A c \in S : c # b => k[c] = mid[c]
      /\ k[b] \in Int /\ g[a] \in Int /\ g[b] \in Int
    OBVIOUS
<1> HIDE DEF mid
<1>2. SumOver(S, mid) = SumOver(S, g) - g[a] + mid[a]
    BY <1>1, SumChange
<1>3. SumOver(S, k) = SumOver(S, mid) - mid[b] + k[b]
    BY <1>1, SumChange
<1>4. SumOver(S, g) \in Int
    BY SumType
<1> QED
    BY <1>1, <1>2, <1>3, <1>4

\* Elements renamed one by one.
LEMMA SumRenamed ==
    ASSUME NEW S, IsFiniteSet(S), NEW b, \A c, d \in S : b[c] = b[d] => c = d,
           NEW g, \A c \in S : g[b[c]] \in Int,
           NEW k, \A c \in S : k[c] = g[b[c]]
    PROVE  SumOver({b[c] : c \in S}, g) = SumOver(S, k)
<1> DEFINE Image(V) == {b[c] : c \in V}
           P == {V \in SUBSET S : IsFiniteSet(Image(V)) /\ SumOver(Image(V), g) = SumOver(V, k)}
<1>1. {} \in P
  <2>1. Image({}) = {}
      OBVIOUS
  <2> QED
      BY <2>1, SumEmpty, FS_EmptySet
<1>2. ASSUME NEW V \in SUBSET S, NEW c \in S \ V, V \in P PROVE V \cup {c} \in P
  <2>1. Image(V \cup {c}) = Image(V) \cup {b[c]} /\ b[c] \notin Image(V)
      OBVIOUS
  <2>2. IsFiniteSet(V) /\ IsFiniteSet(Image(V)) /\ SumOver(Image(V), g) = SumOver(V, k)
      BY <1>2, FS_Subset
  <2>3. \A y \in S : g[b[y]] \in Int /\ k[y] = g[b[y]]
      OBVIOUS
  <2>7. c \in S /\ (\A y \in V : k[y] \in Int) /\ \A y \in Image(V) : g[y] \in Int
      BY <2>3
  <2> HIDE DEF Image
  <2>4. SumOver(Image(V) \cup {b[c]}, g) = SumOver(Image(V), g) + g[b[c]]
      BY <2>1, <2>2, <2>3, <2>7, SumAdd
  <2>5. SumOver(V \cup {c}, k) = SumOver(V, k) + k[c]
      BY <2>2, <2>3, <2>7, SumAdd
  <2>6. IsFiniteSet(Image(V) \cup {b[c]})
      BY <2>2, FS_AddElement
  <2> QED
      BY <2>1, <2>2, <2>3, <2>4, <2>5, <2>6, <2>7
<1> HIDE DEF P
<1>3. S \in P
    BY <1>1, <1>2, SetOfSubsets
<1> QED
    BY <1>3 DEF P

-----------------------------------------------------------------------------
(* Preflows: what saturating, pushing and relabelling keep.                 *)

\* An edge incident to a has a as one end and another node as the other.
LEMMA EndFacts ==
    ASSUME NEW x \in Edge, NEW a \in {EdgeU[x], EdgeV[x]}
    PROVE  /\ a \in Node
           /\ x \in Incident(a)
           /\ Other(a, x) \in Node
           /\ Other(a, x) \in {EdgeU[x], EdgeV[x]}
           /\ Other(a, x) # a
           /\ Other(Other(a, x), x) = a
           /\ {EdgeU[x], EdgeV[x]} = {a, Other(a, x)}
BY EdgeAssumption DEF Other, Incident

LEMMA FiniteGraph ==
    /\ IsFiniteSet(Node) /\ IsFiniteSet(Edge)
    /\ \A W \in SUBSET Node : IsFiniteSet(W) /\ Crossing(W) \subseteq Edge
                              /\ IsFiniteSet(Crossing(W))
<1>1. IsFiniteSet(Node) /\ IsFiniteSet(Edge)
    BY SizeAssumption, FS_Interval DEF Node, Edge
<1>2. \A W : Crossing(W) \subseteq Edge
    BY DEF Crossing
<1> QED
    BY <1>1, <1>2, FS_Subset

LEMMA FiniteIncident ==
    ASSUME NEW X \in SUBSET Incident(s)
    PROVE  IsFiniteSet(X) /\ \A x \in X : Cap[x] \in Int
<1>1. X \subseteq Edge
    BY DEF Incident
<1> QED
    BY <1>1, FiniteGraph, FS_Subset, EdgeAssumption

\* The flow into a set is an integer on every edge.
LEMMA InflowType ==
    ASSUME NEW fl \in [Edge -> Int], NEW W
    PROVE  \A x \in Edge : Inflow(fl, W)[x] \in Int
BY DEF Inflow

\* Flow moved along an edge keeps the balance: it leaves one end and reaches the
\* other, and whether the edge crosses into a set depends on its ends.  The excess of
\* the source does not matter.
LEMMA MoveKeepsBalance ==
    ASSUME NEW ex \in [Node -> Int], NEW fl \in [Edge -> Int], FlowBalanced(ex, fl),
           NEW x \in Edge, NEW a \in {EdgeU[x], EdgeV[x]}, NEW d \in Int,
           NEW ex2 \in [Node -> Int],
           a # s => ex2[a] = ex[a] - d,
           Other(a, x) # s => ex2[Other(a, x)] = ex[Other(a, x)] + d,
           \A c \in Node \ {s, a, Other(a, x)} : ex2[c] = ex[c]
    PROVE  FlowBalanced(ex2, FlowAfter(fl, a, x, d))
<1> DEFINE b == Other(a, x)
           fl2 == FlowAfter(fl, a, x, d)
<1>1. /\ a \in Node /\ b \in Node /\ b # a /\ {EdgeU[x], EdgeV[x]} = {a, b}
    BY EndFacts
<1>2. /\ fl2 \in [Edge -> Int]
      /\ fl2[x] = IF a = EdgeU[x] THEN fl[x] + d ELSE fl[x] - d
      /\ \A y \in Edge : y # x => fl2[y] = fl[y]
    BY DEF FlowAfter
<1> HIDE DEF b, fl2
<1> SUFFICES ASSUME NEW W \in SUBSET (Node \ {s})
             PROVE  SumOver(W, ex2) = SumOver(Crossing(W), Inflow(fl2, W))
    BY DEF FlowBalanced, fl2
<1> DEFINE X == Crossing(W)
           old == Inflow(fl, W)
           new == Inflow(fl2, W)
<1>3. SumOver(W, ex) = SumOver(X, old)
    BY DEF FlowBalanced
<1>4. IsFiniteSet(W) /\ IsFiniteSet(X) /\ X \subseteq Edge
    BY FiniteGraph
<1>5. /\ \A y \in X : old[y] \in Int /\ new[y] \in Int
      /\ \A y \in X : y # x => new[y] = old[y]
      /\ old[x] = IF EdgeV[x] \in W THEN fl[x] ELSE -fl[x]
      /\ new[x] = IF EdgeV[x] \in W THEN fl2[x] ELSE -fl2[x]
    BY <1>2, <1>4 DEF Inflow
<1>6. x \in X <=> (a \in W) # (b \in W)
    BY <1>1, EdgeAssumption DEF Crossing
<1>7. \A c \in W : c \in Node /\ c # s /\ ex[c] \in Int /\ ex2[c] \in Int
    OBVIOUS
<1>8. SumOver(W, ex) \in Int
    BY <1>4, <1>7, SumType
<1>9. \A c \in W : /\ c = a => ex2[c] = ex[c] - d
                   /\ c = b => ex2[c] = ex[c] + d
                   /\ c \notin {a, b} => ex2[c] = ex[c]
    BY <1>7 DEF b
<1> HIDE DEF X, old, new
<1>10. CASE a \in W /\ b \notin W
  <2>1. SumOver(W, ex2) = SumOver(W, ex) - ex[a] + ex2[a]
      BY <1>4, <1>7, <1>9, <1>10, SumChange
  <2>2. SumOver(X, new) = SumOver(X, old) - old[x] + new[x]
      BY <1>4, <1>5, <1>6, <1>10, SumChange
  <2>3. new[x] = old[x] - d /\ old[x] \in Int
      BY <1>1, <1>2, <1>5, <1>10, EdgeAssumption
  <2>4. ex2[a] = ex[a] - d /\ ex[a] \in Int
      BY <1>7, <1>9, <1>10
  <2> QED
      BY <2>1, <2>2, <2>3, <2>4, <1>3, <1>8 DEF X, new
<1>11. CASE a \notin W /\ b \in W
  <2>1. SumOver(W, ex2) = SumOver(W, ex) - ex[b] + ex2[b]
      BY <1>4, <1>7, <1>9, <1>11, SumChange
  <2>2. SumOver(X, new) = SumOver(X, old) - old[x] + new[x]
      BY <1>4, <1>5, <1>6, <1>11, SumChange
  <2>3. new[x] = old[x] + d /\ old[x] \in Int
      BY <1>1, <1>2, <1>5, <1>11, EdgeAssumption
  <2>4. ex2[b] = ex[b] + d /\ ex[b] \in Int
      BY <1>7, <1>9, <1>11
  <2> QED
      BY <2>1, <2>2, <2>3, <2>4, <1>3, <1>8 DEF X, new
<1>12. CASE (a \in W) = (b \in W)
  <2>1. SumOver(X, new) = SumOver(X, old)
    <3>1. \A y \in X : old[y] = new[y]
        BY <1>5, <1>6, <1>12
    <3> QED
        BY <3>1, <1>4, <1>5, SumSame
  <2>2. SumOver(W, ex2) = SumOver(W, ex)
    <3>1. CASE a \notin W
      <4>1. \A c \in W : ex[c] = ex2[c]
          BY <3>1, <1>9, <1>12
      <4> QED
          BY <4>1, <1>4, <1>7, SumSame
    <3>2. CASE a \in W
      <4>1. b \in W /\ ex2[a] = ex[a] - d /\ ex2[b] = ex[b] + d
          BY <3>2, <1>9, <1>12
      <4> QED
          BY <3>2, <4>1, <1>1, <1>4, <1>7, <1>9, SumMove
    <3> QED
        BY <3>1, <3>2
  <2> QED
      BY <2>1, <2>2, <1>3 DEF X, new
<1> QED
    BY <1>10, <1>11, <1>12

\* What push moves along an admissible edge is positive, no more than the
\* excess and no more than the edge can carry.
LEMMA MovedFacts ==
    ASSUME NEW x \in Edge, NEW a \in {EdgeU[x], EdgeV[x]},
           NEW fl \in [Edge -> Int], NEW ex \in [Node -> Nat],
           ex[a] > 0, FlowFrom(fl, a, x) < Cap[x]
    PROVE  LET d == Amount(fl, ex, a, x)
           IN  /\ d \in Nat
               /\ d > 0
               /\ d <= ex[a]
               /\ d <= Residual(fl, a, x)
BY EndFacts, EdgeAssumption DEF Amount, Lesser, Residual, FlowFrom

\* A saturated edge of the source brings its capacity to its other end.
LEMMA SaturateAccounted ==
    ASSUME NEW ex \in [Node -> Nat], NEW pend \in SUBSET Incident(s), NEW x \in pend,
           NEW b \in Node, ExcessAccounted(ex, pend), NEW ex2 \in [Node -> Nat],
           ex2[b] = ex[b] + Cap[x], \A c \in Node : c # b => ex2[c] = ex[c]
    PROVE  ExcessAccounted(ex2, pend \ {x})
<1> DEFINE X == Incident(s) \ pend
<1>1. \A c \in Node : ex[c] \in Int /\ ex2[c] \in Int
    OBVIOUS
<1>2. SumOver(Node, ex2) = SumOver(Node, ex) - ex[b] + ex2[b]
    BY <1>1, FiniteGraph, SumChange
<1>3. x \in Incident(s) /\ Cap[x] \in Int
    BY EdgeAssumption DEF Incident
<1>4. Incident(s) \ (pend \ {x}) = X \cup {x} /\ x \notin X
    BY <1>3
<1>5. IsFiniteSet(X) /\ \A y \in X : Cap[y] \in Int
    BY FiniteIncident
<1>6. SumOver(Node, ex) = SumOver(X, Cap)
    BY DEF ExcessAccounted
<1> HIDE DEF X
<1>7. SumOver(X \cup {x}, Cap) = SumOver(X, Cap) + Cap[x]
    BY <1>3, <1>4, <1>5, SumAdd
<1>8. SumOver(X, Cap) \in Int
    BY <1>5, SumType
<1>9. SumOver(Node, ex2) = SumOver(X, Cap) + Cap[x]
  <2>1. ex2[b] = ex[b] + Cap[x] /\ ex[b] \in Int
      BY <1>1
  <2> QED
      BY <2>1, <1>2, <1>3, <1>6, <1>8
<1> QED
    BY <1>4, <1>7, <1>9 DEF ExcessAccounted

LEMMA MoveAccounted ==
    ASSUME NEW ex \in [Node -> Nat], NEW pend, ExcessAccounted(ex, pend),
           NEW a \in Node, NEW b \in Node, a # b, NEW d \in Int,
           NEW ex2, ex2[a] = ex[a] - d, ex2[b] = ex[b] + d,
           \A c \in Node : c \notin {a, b} => ex2[c] = ex[c]
    PROVE  ExcessAccounted(ex2, pend)
<1>1. \A c \in Node : ex[c] \in Int
    OBVIOUS
<1>2. SumOver(Node, ex2) = SumOver(Node, ex)
    BY <1>1, FiniteGraph, SumMove
<1> QED
    BY <1>2 DEF ExcessAccounted

\* What new_graph and the first line of preflow leave is a preflow.
LEMMA StartIsPreflow ==
    ASSUME NEW ht, ht = [a \in Node |-> IF a = s THEN N ELSE 0],
           NEW ex, ex = [a \in Node |-> 0], NEW fl, fl = [x \in Edge |-> 0]
    PROVE  Preflow(ht, ex, fl, Incident(s))
<1>1. /\ ht \in [Node -> Nat] /\ ex \in [Node -> Nat] /\ fl \in [Edge -> Int]
      /\ ht[s] = N /\ ht[t] = 0 /\ \A a \in Node \ {s} : ht[a] = 0
    BY SizeAssumption, NodeFacts
<1>2. \A x \in Edge : fl[x] = 0 /\ -Cap[x] <= fl[x] /\ fl[x] <= Cap[x]
    BY EdgeAssumption
<1>3. \A x \in Incident(s) : x \in Edge
    BY DEF Incident
<1>4. Labelled(ht, fl, Incident(s))
  <2> SUFFICES ASSUME NEW x \in Edge, NEW a \in {EdgeU[x], EdgeV[x]}, a # s
               PROVE  ht[a] <= ht[Other(a, x)] + 1
      BY EndFacts DEF Labelled
  <2> QED
      BY <1>1, EndFacts
<1>5. FlowBalanced(ex, fl)
  <2> SUFFICES ASSUME NEW W \in SUBSET (Node \ {s})
               PROVE  SumOver(W, ex) = SumOver(Crossing(W), Inflow(fl, W))
      BY DEF FlowBalanced
  <2>1. IsFiniteSet(W) /\ IsFiniteSet(Crossing(W)) /\ Crossing(W) \subseteq Edge
      BY FiniteGraph
  <2>2. SumOver(W, ex) = 0
    <3>1. \A c \in W : ex[c] = 0
        OBVIOUS
    <3> QED
        BY <2>1, <3>1, SumOfZeros
  <2>3. SumOver(Crossing(W), Inflow(fl, W)) = 0
    <3>1. \A x \in Edge : fl[x] = 0
        OBVIOUS
    <3>2. \A j \in Int : j <= 0 /\ 0 <= j => -j = 0
        OBVIOUS
    <3>3. \A x \in Edge : fl[x] \in Int /\ fl[x] <= 0 /\ 0 <= fl[x]
        BY <3>1
    <3>4. \A x \in Edge : -fl[x] = 0
        BY <3>2, <3>3, Zenon
    <3>5. \A x \in Edge : Inflow(fl, W)[x] = 0
        BY <3>1, <3>4 DEF Inflow
    <3> QED
        BY <2>1, <3>5, SumOfZeros
  <2> QED
      BY <2>2, <2>3
<1>6. ExcessAccounted(ex, Incident(s))
  <2>1. SumOver(Node, ex) = 0
    <3>1. \A a \in Node : ex[a] = 0
        OBVIOUS
    <3> QED
        BY <3>1, FiniteGraph, SumOfZeros
  <2>2. Incident(s) \ Incident(s) = {}
      OBVIOUS
  <2> QED
      BY <2>1, <2>2, SumEmpty DEF ExcessAccounted
<1> QED
    BY <1>1, <1>2, <1>3, <1>4, <1>5, <1>6 DEF Preflow

\* An edge of the source saturated: its other end is low, so nothing goes down.
LEMMA SaturateKeepsPreflow ==
    ASSUME NEW ht, NEW ex, NEW fl, NEW pend, Preflow(ht, ex, fl, pend), NEW x \in pend,
           NEW fl2, fl2 = FlowAfter(fl, s, x, Cap[x]),
           NEW ex2, ex2 = [ex EXCEPT ![Other(s, x)] = @ + Cap[x]]
    PROVE  Preflow(ht, ex2, fl2, pend \ {x})
<1> DEFINE b == Other(s, x)
<1> USE DEF Preflow
<1>1. /\ x \in Edge /\ pend \subseteq Incident(s) /\ fl[x] = 0
      /\ s \in {EdgeU[x], EdgeV[x]}
    BY DEF Incident
<1>2. b \in Node /\ b # s /\ s \in Node
    BY <1>1, EndFacts, NodeFacts
<1>3. x \in DOMAIN fl /\ Cap[x] \in Nat /\ Cap[x] > 0
    BY <1>1, EdgeAssumption
<1>4. /\ fl2 \in [Edge -> Int]
      /\ fl2[x] = IF s = EdgeU[x] THEN Cap[x] ELSE -Cap[x]
      /\ \A y \in Edge : y # x => fl2[y] = fl[y]
    BY <1>1, <1>3 DEF FlowAfter
<1> HIDE DEF b
<1>5. ex2 \in [Node -> Nat] /\ pend \ {x} \in SUBSET Incident(s)
    BY <1>1, <1>2, <1>3 DEF b
<1>6. \A y \in Edge : -Cap[y] <= fl2[y] /\ fl2[y] <= Cap[y]
  <2> SUFFICES ASSUME NEW y \in Edge PROVE -Cap[y] <= fl2[y] /\ fl2[y] <= Cap[y]
      OBVIOUS
  <2>1. CASE y = x
      BY <2>1, <1>3, <1>4
  <2>2. CASE y # x
      BY <2>2, <1>4
  <2> QED
      BY <2>1, <2>2
<1>7. Labelled(ht, fl2, pend \ {x})
  <2> SUFFICES ASSUME NEW y \in Edge, NEW a \in {EdgeU[y], EdgeV[y]},
                      Residual(fl2, a, y) > 0, ~(a = s /\ y \in pend \ {x})
               PROVE  ht[a] <= ht[Other(a, y)] + 1
      BY DEF Labelled
  <2>1. CASE y # x
      BY <2>1, <1>4 DEF Labelled, Residual, FlowFrom
  <2>2. CASE y = x
    <3>1. a # s
        BY <2>2, <1>1, <1>3, <1>4 DEF Residual, FlowFrom
    <3>2. ht[a] = 0 /\ ht[Other(a, y)] \in Nat
        BY <3>1, <1>1, EndFacts
    <3> QED
        BY <3>2
  <2> QED
      BY <2>1, <2>2
<1>8. \A y \in pend \ {x} : fl2[y] = 0
    BY <1>1, <1>4 DEF Incident
<1>9. FlowBalanced(ex2, fl2)
  <2>1. ex \in [Node -> Int] /\ ex2 \in [Node -> Int] /\ Cap[x] \in Int
      BY <1>3, <1>5
  <2>2. ex2[b] = ex[b] + Cap[x] /\ \A c \in Node \ {s, s, b} : ex2[c] = ex[c]
      BY <1>2 DEF b
  <2>3. FlowBalanced(ex2, FlowAfter(fl, s, x, Cap[x]))
      BY <1>1, <2>1, <2>2, MoveKeepsBalance DEF b
  <2> QED
      BY <2>3
<1>10. ExcessAccounted(ex2, pend \ {x})
  <2>1. /\ ex2[b] = ex[b] + Cap[x] /\ \A c \in Node : c # b => ex2[c] = ex[c]
        /\ ex \in [Node -> Nat] /\ ex2 \in [Node -> Nat] /\ ExcessAccounted(ex, pend)
      BY <1>2, <1>5 DEF b
  <2> HIDE DEF Preflow
  <2> QED
      BY <1>1, <1>2, <2>1, SaturateAccounted
<1> QED
    BY <1>4, <1>5, <1>6, <1>7, <1>8, <1>9, <1>10

\* A push goes down, so the reverse edge it may open goes up.
LEMMA PushKeepsPreflow ==
    ASSUME NEW ht, NEW ex, NEW fl, Preflow(ht, ex, fl, {}),
           NEW a \in Node, NEW x \in Incident(a), ex[a] > 0, Admissible(fl, ht, a, x),
           NEW fl2, fl2 = FlowAfter(fl, a, x, Amount(fl, ex, a, x)),
           NEW ex2, ex2 = ExcessAfter(ex, a, x, Amount(fl, ex, a, x))
    PROVE  Preflow(ht, ex2, fl2, {})
<1> DEFINE b == Other(a, x)
           d == Amount(fl, ex, a, x)
<1> USE DEF Preflow
<1>1. x \in Edge /\ a \in {EdgeU[x], EdgeV[x]}
    BY DEF Incident
<1>2. /\ a \in Node /\ b \in Node /\ b # a
      /\ {EdgeU[x], EdgeV[x]} = {a, b} /\ Other(b, x) = a
    BY <1>1, EndFacts
<1>3. /\ ht[a] > ht[b] /\ FlowFrom(fl, a, x) < Cap[x]
      /\ ex2 = [ex EXCEPT ![a] = @ - d, ![b] = @ + d]
      /\ fl2 = [fl EXCEPT ![x] = IF a = EdgeU[x] THEN @ + d ELSE @ - d]
    BY DEF Admissible, ExcessAfter, FlowAfter
<1>4. d \in Nat /\ d > 0 /\ d <= ex[a] /\ d <= Residual(fl, a, x)
    BY <1>1, <1>3, MovedFacts
<1> HIDE DEF d, b
<1>5. ex2 \in [Node -> Nat] /\ fl2 \in [Edge -> Int]
    BY <1>1, <1>2, <1>3, <1>4
<1>6. \A y \in Edge : -Cap[y] <= fl2[y] /\ fl2[y] <= Cap[y]
  <2> SUFFICES ASSUME NEW y \in Edge PROVE -Cap[y] <= fl2[y] /\ fl2[y] <= Cap[y]
      OBVIOUS
  <2>1. CASE y = x
    <3>1. /\ fl2[x] = IF a = EdgeU[x] THEN fl[x] + d ELSE fl[x] - d
          /\ fl[x] \in Int /\ Cap[x] \in Nat
          /\ -Cap[x] <= fl[x] /\ fl[x] <= Cap[x]
        BY <1>1, <1>3, EdgeAssumption
    <3> QED
        BY <2>1, <3>1, <1>4 DEF Residual, FlowFrom
  <2>2. CASE y # x
      BY <2>2, <1>3
  <2> QED
      BY <2>1, <2>2
<1>7. Labelled(ht, fl2, {})
  <2> SUFFICES ASSUME NEW y \in Edge, NEW c \in {EdgeU[y], EdgeV[y]},
                      Residual(fl2, c, y) > 0
               PROVE  ht[c] <= ht[Other(c, y)] + 1
      BY DEF Labelled
  <2>1. CASE y # x
      BY <2>1, <1>3 DEF Labelled, Residual, FlowFrom
  <2>2. CASE y = x /\ c = a
    <3>1. fl[x] \in Int /\ Cap[x] \in Int
        BY <1>1, EdgeAssumption
    <3>2. Residual(fl, a, x) > 0
        BY <1>3, <3>1 DEF Residual, FlowFrom
    <3> QED
        BY <2>2, <3>2, <1>1 DEF Labelled
  <2>3. CASE y = x /\ c = b
      BY <2>3, <1>2, <1>3
  <2> QED
      BY <2>1, <2>2, <2>3, <1>2
<1>8. FlowBalanced(ex2, fl2)
  <2>1. ex \in [Node -> Int] /\ ex2 \in [Node -> Int] /\ d \in Int
      BY <1>4, <1>5
  <2>2. /\ ex2[a] = ex[a] - d /\ ex2[b] = ex[b] + d
        /\ \A c \in Node \ {s, a, b} : ex2[c] = ex[c]
      BY <1>2, <1>3
  <2>3. FlowBalanced(ex2, FlowAfter(fl, a, x, d))
      BY <1>1, <2>1, <2>2, MoveKeepsBalance DEF b
  <2> QED
      BY <2>3 DEF d
<1>9. ExcessAccounted(ex2, {})
  <2>1. /\ ex2[a] = ex[a] - d /\ ex2[b] = ex[b] + d
        /\ \A c \in Node : c \notin {a, b} => ex2[c] = ex[c]
        /\ ex \in [Node -> Nat] /\ d \in Int /\ a # b /\ ExcessAccounted(ex, {})
      BY <1>2, <1>3, <1>4
  <2> HIDE DEF Preflow
  <2> QED
      BY <1>2, <2>1, MoveAccounted
<1> QED
    BY <1>5, <1>6, <1>7, <1>8, <1>9

\* A relabelled node had no residual edge that goes down.
LEMMA RelabelKeepsPreflow ==
    ASSUME NEW ht, NEW ex, NEW fl, Preflow(ht, ex, fl, {}), NEW a \in Inner,
           \A x \in Incident(a) : ~Admissible(fl, ht, a, x),
           NEW ht2, ht2 = [ht EXCEPT ![a] = @ + 1]
    PROVE  Preflow(ht2, ex, fl, {})
<1> USE DEF Preflow
<1>1. /\ a \in Node /\ a # s /\ a # t /\ s \in Node /\ t \in Node
    BY NodeFacts
<1>2. ht2 \in [Node -> Nat] /\ ht2[s] = N /\ ht2[t] = 0
    BY <1>1
<1>3. Labelled(ht2, fl, {})
  <2> SUFFICES ASSUME NEW y \in Edge, NEW c \in {EdgeU[y], EdgeV[y]},
                      Residual(fl, c, y) > 0
               PROVE  ht2[c] <= ht2[Other(c, y)] + 1
      BY DEF Labelled
  <2>1. /\ c \in Node /\ Other(c, y) \in Node /\ Other(c, y) # c
        /\ y \in Incident(c)
      BY EndFacts
  <2>2. ht[c] <= ht[Other(c, y)] + 1
      BY DEF Labelled
  <2>3. CASE c = a
    <3>1. ht[a] <= ht[Other(a, y)]
        BY <2>1, <2>3, EdgeAssumption DEF Admissible, Residual, FlowFrom
    <3> QED
        BY <2>1, <2>3, <3>1
  <2>4. CASE c # a
      BY <2>1, <2>2, <2>4
  <2> QED
      BY <2>3, <2>4
<1> QED
    BY <1>2, <1>3

LEMMA SumOfPart ==
    ASSUME NEW X \in SUBSET Incident(s)
    PROVE  SumOver(X, Cap) <= SumOver(Incident(s), Cap) /\ SumOver(Incident(s), Cap) \in Int
<1> DEFINE S == Incident(s)
           P == {V \in SUBSET (S \ X) : SumOver(X, Cap) <= SumOver(X \cup V, Cap)}
<1>1. /\ IsFiniteSet(S) /\ IsFiniteSet(S \ X)
      /\ \A V \in SUBSET S : IsFiniteSet(V) /\ SumOver(V, Cap) \in Int
  <2>1. \A V \in SUBSET S : IsFiniteSet(V) /\ \A x \in V : Cap[x] \in Int
      BY FiniteIncident
  <2>2. \A V \in SUBSET S : SumOver(V, Cap) \in Int
      BY <2>1, SumType
  <2> QED
      BY <2>1, <2>2
<1>2. \A x \in S : Cap[x] \in Nat
    BY EdgeAssumption DEF Incident
<1>3. {} \in P
  <2>1. X \cup {} = X /\ SumOver(X, Cap) \in Int
      BY <1>1
  <2> QED
      BY <2>1
<1>4. ASSUME NEW V \in SUBSET (S \ X), NEW c \in (S \ X) \ V, V \in P
      PROVE  V \cup {c} \in P
  <2> DEFINE Y == X \cup V
  <2>1. X \cup (V \cup {c}) = Y \cup {c} /\ c \notin Y /\ Y \in SUBSET S
      OBVIOUS
  <2>2. \A x \in Y : Cap[x] \in Int
      BY <1>2, <2>1
  <2> HIDE DEF Y
  <2>3. IsFiniteSet(Y) /\ SumOver(Y, Cap) \in Int /\ SumOver(X, Cap) \in Int
        /\ Cap[c] \in Int /\ Cap[c] >= 0
      BY <1>1, <1>2, <2>1
  <2>4. SumOver(Y \cup {c}, Cap) = SumOver(Y, Cap) + Cap[c]
      BY <2>1, <2>2, <2>3, SumAdd
  <2>5. SumOver(X, Cap) <= SumOver(Y, Cap)
      BY <1>4 DEF Y
  <2>6. SumOver(X, Cap) <= SumOver(Y \cup {c}, Cap)
      BY <2>3, <2>4, <2>5
  <2> QED
      BY <2>1, <2>6
<1> HIDE DEF P
<1>5. S \ X \in P
    BY <1>1, <1>3, <1>4, SetOfSubsets
<1>6. X \cup (S \ X) = S
    OBVIOUS
<1> QED
    BY <1>1, <1>5, <1>6 DEF P

\* No node ever has more than the edges of the source can carry together: a part of a
\* sum of natural numbers is no more than the whole.
LEMMA ExcessIsLimited ==
    ASSUME NEW ht, NEW ex, NEW fl, NEW pend, Preflow(ht, ex, fl, pend), NEW a \in Node
    PROVE  ex[a] <= SourceCapacity
<1> DEFINE only == [c \in Node |-> IF c = a THEN ex[a] ELSE 0]
           X == Incident(s) \ pend
<1>1. ex \in [Node -> Nat] /\ SumOver(Node, ex) = SumOver(X, Cap)
    BY DEF Preflow, ExcessAccounted
<1>2. /\ \A c \in Node : only[c] \in Int /\ ex[c] \in Int /\ only[c] <= ex[c]
      /\ \A c \in Node : c # a => only[c] = 0
      /\ only[a] = ex[a] /\ ex[a] \in Int
    BY <1>1
<1> HIDE DEF only
<1>3. SumOver(Node, only) = ex[a]
    BY <1>2, FiniteGraph, SumOfOne
<1>4. SumOver(Node, only) <= SumOver(Node, ex) /\ SumOver(Node, ex) \in Int
    BY <1>2, FiniteGraph, SumLess, SumType
<1>5. SumOver(X, Cap) <= SourceCapacity /\ SourceCapacity \in Int
    BY SumOfPart DEF SourceCapacity
<1> QED
    BY <1>1, <1>2, <1>3, <1>4, <1>5

\* There are N - 2 nodes besides source and sink, and N - 1 heights strictly between
\* 0 and N, those of the sink and the source, as well as between N and 2N: in each
\* range some height is nobody's.
LEMMA HeightGap ==
    ASSUME NEW ht \in [Node -> Nat], ht[s] = N, ht[t] = 0, NEW low \in {0, N}
    PROVE  \E k \in low + 1 .. low + N - 1 : \A a \in Node : ht[a] # k
<1> USE SizeAssumption
<1> DEFINE K == low + 1 .. low + N - 1
           g == [a \in Inner |-> IF ht[a] \in K THEN ht[a] ELSE low + 1]
<1> SUFFICES ASSUME \A k \in K : \E a \in Node : ht[a] = k
             PROVE  FALSE
    OBVIOUS
<1>1. ASSUME NEW k \in K PROVE \E a \in Inner : g[a] = k
  <2>1. PICK a \in Node : ht[a] = k
      OBVIOUS
  <2>2. a \in Inner
      BY <2>1 DEF Inner
  <2> QED
      BY <2>1, <2>2
<1>2. Inner = 1 .. N - 2
  <2> SUFFICES ASSUME NEW a PROVE a \in Inner <=> a \in 1 .. N - 2
      OBVIOUS
  <2>1. a \in Inner => a \in Int /\ 0 <= a /\ a <= N - 1 /\ a # 0 /\ a # N - 1
      BY DEF Inner, Node, s, t
  <2>2. a \in Int /\ 1 <= a /\ a <= N - 2 => a \in Inner
      BY DEF Inner, Node, s, t
  <2> QED
      BY <2>1, <2>2
<1>3. IsFiniteSet(Inner) /\ Cardinality(Inner) = N - 2
    BY <1>2, FS_Interval
<1>4. IsFiniteSet(K) /\ Cardinality(K) = N - 1
  <2>1. low + 1 \in Int /\ low + N - 1 \in Int
      OBVIOUS
  <2>2. IsFiniteSet(K)
      BY <2>1, FS_Interval
  <2>3. Cardinality(K) = IF low + 1 > low + N - 1 THEN 0 ELSE low + N - 1 - (low + 1) + 1
      BY <2>1, FS_Interval
  <2> QED
      BY <2>2, <2>3
<1>5. CASE N = 2
    BY <1>5, <1>1, <1>2
<1>6. CASE N # 2
  <2>1. low + 1 \in K
      BY <1>6
  <2>2. g \in Surjection(Inner, K)
      BY <1>1, <2>1 DEF Surjection
  <2>3. Cardinality(K) <= Cardinality(Inner)
      BY <2>2, <1>3, FS_Surjection
  <2> QED
      BY <2>3, <1>3, <1>4
<1> QED
    BY <1>5, <1>6

\* No residual edge leaves S.
Saturated(fl, S) ==
    \A x \in Edge : \A a \in {EdgeU[x], EdgeV[x]} :
        a \in S /\ Other(a, x) \notin S => Residual(fl, a, x) = 0

\* The nodes above a height that is nobody's are such a cut.
LEMMA SomeCutIsSaturated ==
    ASSUME NEW ht, NEW ex, NEW fl, Preflow(ht, ex, fl, {})
    PROVE  \E S \in Cuts : Saturated(fl, S)
<1> USE DEF Preflow
<1>1. PICK k \in 1 .. N - 1 : \A a \in Node : ht[a] # k
  <2>1. \E k \in 0 + 1 .. 0 + N - 1 : \A a \in Node : ht[a] # k
      BY HeightGap
  <2> QED
      BY <2>1, SizeAssumption
<1> DEFINE S == {a \in Node : ht[a] > k}
<1>2. S \in Cuts
    BY NodeFacts, SizeAssumption DEF Cuts
<1>3. Saturated(fl, S)
  <2> SUFFICES ASSUME NEW x \in Edge, NEW a \in {EdgeU[x], EdgeV[x]},
                      a \in S, Other(a, x) \notin S
               PROVE  Residual(fl, a, x) = 0
      BY DEF Saturated
  <2>1. a \in Node /\ Other(a, x) \in Node
      BY EndFacts
  <2>2. ht[Other(a, x)] < k /\ ht[a] > k
      BY <2>1, <1>1
  <2>3. ~(Residual(fl, a, x) > 0)
      BY <2>1, <2>2 DEF Labelled
  <2>4. Residual(fl, a, x) >= 0
      BY EdgeAssumption DEF Residual, FlowFrom
  <2>5. Residual(fl, a, x) \in Int
      BY EdgeAssumption DEF Residual, FlowFrom
  <2> QED
      BY <2>3, <2>4, <2>5
<1> QED
    BY <1>2, <1>3

\* When nobody but the source and the sink has excess, what has reached the sink has
\* crossed every cut: for the nodes on the sink's side, no more has come in than the
\* crossing edges can carry, and exactly that over a saturated cut, which is therefore
\* a smallest one.
LEMMA AnswerCrosses ==
    ASSUME NEW ht, NEW ex, NEW fl, Preflow(ht, ex, fl, {}), \A a \in Inner : ex[a] = 0,
           NEW S \in Cuts
    PROVE  /\ ex[t] \in Int
           /\ SumOver(Crossing(S), Cap) \in Int
           /\ ex[t] <= SumOver(Crossing(S), Cap)
           /\ Saturated(fl, S) => ex[t] = SumOver(Crossing(S), Cap)
<1> DEFINE W == Node \ S
           X == Crossing(S)
           g == Inflow(fl, W)
<1>1. /\ ex \in [Node -> Nat] /\ fl \in [Edge -> Int] /\ FlowBalanced(ex, fl)
      /\ \A x \in Edge : /\ fl[x] \in Int /\ Cap[x] \in Int
                         /\ -Cap[x] <= fl[x] /\ fl[x] <= Cap[x]
    BY EdgeAssumption DEF Preflow
<1>2. S \subseteq Node /\ W \in SUBSET (Node \ {s}) /\ t \in W
    BY NodeFacts DEF Cuts
<1>3. Crossing(W) = X
    BY <1>2, EdgeAssumption DEF Crossing
<1>4. IsFiniteSet(W) /\ IsFiniteSet(X) /\ X \subseteq Edge
    BY <1>2, FiniteGraph
<1>5. SumOver(W, ex) = ex[t]
  <2>1. \A c \in W : c # t => ex[c] = 0
      BY <1>2, NodeFacts
  <2>2. ex[t] \in Int
      BY <1>1, <1>2
  <2> QED
      BY <1>2, <1>4, <2>1, <2>2, SumOfOne
<1>6. ex[t] = SumOver(X, g)
    BY <1>1, <1>2, <1>3, <1>5 DEF FlowBalanced
<1>7. \A x \in X : /\ x \in Edge /\ Cap[x] \in Int /\ g[x] \in Int
                   /\ g[x] <= Cap[x]
    BY <1>1, <1>4 DEF Inflow
<1>8. ASSUME Saturated(fl, S), NEW x \in X PROVE g[x] = Cap[x]
  <2>1. /\ x \in Edge /\ EdgeU[x] \in Node /\ EdgeV[x] \in Node /\ EdgeU[x] # EdgeV[x]
        /\ (EdgeU[x] \in S) # (EdgeV[x] \in S)
      BY <1>4, EdgeAssumption DEF Crossing
  <2>2. CASE EdgeU[x] \in S
    <3>1. Other(EdgeU[x], x) = EdgeV[x] /\ EdgeV[x] \notin S
        BY <2>1, <2>2 DEF Other
    <3>2. Residual(fl, EdgeU[x], x) = 0
        BY <1>8, <2>1, <2>2, <3>1 DEF Saturated
    <3>3. g[x] = fl[x]
        BY <2>1, <3>1 DEF Inflow
    <3> QED
        BY <1>1, <2>1, <3>2, <3>3 DEF Residual, FlowFrom
  <2>3. CASE EdgeV[x] \in S
    <3>1. Other(EdgeV[x], x) = EdgeU[x] /\ EdgeU[x] \notin S
        BY <2>1, <2>3 DEF Other
    <3>2. Residual(fl, EdgeV[x], x) = 0
        BY <1>8, <2>1, <2>3, <3>1 DEF Saturated
    <3>3. g[x] = -fl[x]
        BY <2>1, <2>3 DEF Inflow
    <3> QED
        BY <1>1, <2>1, <3>2, <3>3 DEF Residual, FlowFrom
  <2> QED
      BY <2>1, <2>2, <2>3
<1> HIDE DEF X, g
<1>9. SumOver(X, g) \in Int /\ SumOver(X, Cap) \in Int
    BY <1>4, <1>7, SumType
<1>10. SumOver(X, g) <= SumOver(X, Cap)
    BY <1>4, <1>7, SumLess
<1>11. Saturated(fl, S) => SumOver(X, g) = SumOver(X, Cap)
    BY <1>4, <1>7, <1>8, SumSame
<1> QED
    BY <1>6, <1>9, <1>10, <1>11 DEF X

\* The excess of the sink is then the value of a maximum flow.
LEMMA AnswerIsSmallestCut ==
    ASSUME NEW ht, NEW ex, NEW fl, Preflow(ht, ex, fl, {}), \A a \in Inner : ex[a] = 0
    PROVE  ex[t] = MaxFlowValue
<1> DEFINE V == {SumOver(Crossing(S), Cap) : S \in Cuts}
<1>1. PICK S \in Cuts : Saturated(fl, S)
    BY SomeCutIsSaturated
<1>2. \A v \in V : v \in Int /\ ex[t] \in Int /\ ex[t] <= v
    BY AnswerCrosses
<1>3. ex[t] \in V
    BY <1>1, AnswerCrosses
<1> HIDE DEF V
<1>4. \A v \in V : (\A y \in V : v <= y) => v = ex[t]
    BY <1>2, <1>3
<1>5. Sets!Min(V) = ex[t]
    BY <1>2, <1>3, <1>4 DEF Sets!Min
<1> QED
    BY <1>5 DEF MaxFlowValue, V

=============================================================================
