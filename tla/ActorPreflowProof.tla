------------------------- MODULE ActorPreflowProof --------------------------
(***************************************************************************)
(* Proofs about ActorPreflow, for every graph: what the mailboxes and the  *)
(* counter pushRequest guarantee, although the accesses to the flow of an  *)
(* edge race.                                                              *)
(***************************************************************************)
EXTENDS ActorPreflow, FlowGraphProof, FiniteSetTheorems

-----------------------------------------------------------------------------
(* The parts of the invariant.                                              *)

Messages ==
    [kind : {"request"}, x : Edge, d : Int, height : Int]
    \cup [kind : {"accept"}]
    \cup [kind : {"reject"}, x : Edge, d : Int]
    \cup [kind : {"isdone"}]

Places == [step : Steps, x : Int, d : Int, seen : Int]

Boxes == [Node -> Seq(Messages)]

Types ==
    /\ h \in [Node -> Int] /\ e \in [Node -> Int] /\ pushRequest \in [Node -> Int]
    /\ listIndex \in [Node -> Nat]
    /\ f \in [Edge -> Int]
    /\ box \in Boxes
    /\ at \in [Node -> Places]
    /\ finish \in 0 .. N - 2

\* msg may be in the mailbox of b when the heights are ht: only nodes with an
\* edge get requests and answers, and a request has its sender's height.
Fits(ht, b, msg) ==
    /\ msg.kind = "request" =>
         msg.x \in Incident(b) /\ msg.height = ht[Other(b, msg.x)]
    /\ msg.kind \in {"accept", "reject"} => Len(Adj[b]) > 0

BoxesFit(bx, ht) ==
    /\ bx \in Boxes
    /\ \A b \in Node : \A i \in 1 .. Len(bx[b]) : Fits(ht, b, bx[b][i])

\* A node is at one of its own edges, and an inner node's loop within its list.
PlaceFits(a, pl, ix) ==
    /\ pl.step \in {"saturate", "test", "amount", "load", "store", "send"} =>
         pl.x \in Incident(a)
    /\ pl.step = "undo" => pl.x \in Edge /\ Len(Adj[a]) > 0
    /\ pl.step = "saturate" => a = s
    /\ pl.step \in {"test", "amount", "load", "store"} => a \in Inner
    /\ pl.step = "send" /\ a # s => a \in Inner
    /\ pl.step \in {"test", "amount", "load", "store", "send"} /\ a # s =>
         ix < Len(Adj[a])
    /\ ix <= Len(Adj[a])

PlacesFit == \A a \in Node : PlaceFits(a, at[a], listIndex[a])

\* Outstanding(a) in the mailboxes bx.
OutstandingIn(bx, a) ==
    UNION {{<<b, i>> : i \in {j \in 1 .. Len(bx[b]) : Concerns(a, b, bx[b][j])}} : b \in Node}

Counts(bx, a, n) ==
    IsFiniteSet(OutstandingIn(bx, a)) /\ Cardinality(OutstandingIn(bx, a)) = n

CountsFit(bx, pr) == \A a \in Node : Counts(bx, a, pr[a])

IInv ==
    /\ Types
    /\ BoxesFit(box, h)
    /\ PlacesFit
    /\ CountsFit(box, pushRequest)

-----------------------------------------------------------------------------
(* Messages and mailboxes.                                                  *)

LEMMA NumberFacts ==
    /\ N \in Nat /\ N >= 2
    /\ \A a \in Node : a \in Int
    /\ \A x \in Edge : x \in Int
    /\ \A a \in Node : Len(Adj[a]) \in Nat
    /\ \A x \in Edge : Cap[x] \in Int
BY SizeAssumption, EdgeAssumption, LengthFacts DEF Node, Edge

\* The other end point of a node's edge.
LEMMA OtherFacts ==
    ASSUME NEW a \in Node, NEW x \in Incident(a)
    PROVE  /\ x \in Edge
           /\ Other(a, x) \in Node
           /\ Other(a, x) # a
           /\ x \in Incident(Other(a, x))
           /\ Other(Other(a, x), x) = a
           /\ Len(Adj[a]) > 0
<1>1. x \in Edge
    BY DEF Incident
<1>2. PICK i \in 1 .. Len(Adj[a]) : Adj[a][i] = x
    BY AdjAssumption
<1> QED
    BY <1>1, <1>2, EdgeAssumption, LengthFacts DEF Incident, Other

\* The messages that are sent.
LEMMA MessageFacts ==
    /\ \A x \in Edge, d \in Int, ht \in Int :
         /\ Request(x, d, ht) \in Messages
         /\ Request(x, d, ht).kind = "request" /\ Request(x, d, ht).x = x
         /\ Request(x, d, ht).height = ht
    /\ \A x \in Edge, d \in Int :
         Reject(x, d) \in Messages /\ Reject(x, d).kind = "reject"
    /\ Accept \in Messages /\ Accept.kind = "accept"
    /\ IsDone \in Messages /\ IsDone.kind = "isdone"
BY DEF Messages, Request, Reject, Accept, IsDone

LEMMA MessageFields ==
    ASSUME NEW msg \in Messages
    PROVE  /\ msg.kind = "request" => msg.x \in Edge /\ msg.d \in Int /\ msg.height \in Int
           /\ msg.kind = "reject" => msg.x \in Edge /\ msg.d \in Int
           /\ msg.kind \in {"request", "accept", "reject", "isdone"}
<1>1. CASE msg \in [kind : {"request"}, x : Edge, d : Int, height : Int]
    BY <1>1
<1>2. CASE msg \in [kind : {"accept"}]
    BY <1>2
<1>3. CASE msg \in [kind : {"reject"}, x : Edge, d : Int]
    BY <1>3
<1>4. CASE msg \in [kind : {"isdone"}]
    BY <1>4
<1> QED
    BY <1>1, <1>2, <1>3, <1>4 DEF Messages

\* Sending puts one message at the end of one mailbox.
LEMMA SentFacts ==
    ASSUME NEW bx \in Boxes, NEW to \in Node, NEW msg \in Messages
    PROVE  /\ Sent(bx, to, msg) \in Boxes
           /\ Len(bx[to]) \in Nat
           /\ Len(Sent(bx, to, msg)[to]) = Len(bx[to]) + 1
           /\ Sent(bx, to, msg)[to][Len(bx[to]) + 1] = msg
           /\ \A i \in 1 .. Len(bx[to]) : Sent(bx, to, msg)[to][i] = bx[to][i]
           /\ \A c \in Node : c # to => Sent(bx, to, msg)[c] = bx[c]
<1>1. bx[to] \in Seq(Messages)
    BY DEF Boxes
<1>2. Sent(bx, to, msg) \in Boxes
    BY <1>1, AppendProperties DEF Boxes, Sent
<1>3. Sent(bx, to, msg)[to] = Append(bx[to], msg)
    BY DEF Boxes, Sent
<1>4. \A c \in Node : c # to => Sent(bx, to, msg)[c] = bx[c]
    BY DEF Boxes, Sent
<1> QED
    BY <1>1, <1>2, <1>3, <1>4, AppendProperties, LenProperties

Taken(bx, b) == [bx EXCEPT ![b] = Tail(@)]

\* Receiving takes the first message of one mailbox.
LEMMA TakenFacts ==
    ASSUME NEW bx \in Boxes, NEW b \in Node, bx[b] # << >>
    PROVE  /\ Taken(bx, b) \in Boxes
           /\ Len(bx[b]) \in Nat /\ Len(bx[b]) > 0
           /\ Len(Taken(bx, b)[b]) = Len(bx[b]) - 1
           /\ \A i \in 1 .. Len(bx[b]) - 1 : Taken(bx, b)[b][i] = bx[b][i + 1]
           /\ \A c \in Node : c # b => Taken(bx, b)[c] = bx[c]
           /\ Head(bx[b]) = bx[b][1] /\ Head(bx[b]) \in Messages
<1>1. bx[b] \in Seq(Messages)
    BY DEF Boxes
<1>2. /\ Head(bx[b]) \in Messages /\ Tail(bx[b]) \in Seq(Messages)
      /\ Len(Tail(bx[b])) = Len(bx[b]) - 1
      /\ \A i \in 1 .. Len(Tail(bx[b])) : Tail(bx[b])[i] = bx[b][i + 1]
    BY <1>1, HeadTailProperties
<1>3. Taken(bx, b) \in Boxes
    BY <1>2 DEF Boxes, Taken
<1>4. Taken(bx, b)[b] = Tail(bx[b])
    BY DEF Boxes, Taken
<1>5. \A c \in Node : c # b => Taken(bx, b)[c] = bx[c]
    BY DEF Boxes, Taken
<1>6. Len(bx[b]) \in Nat /\ Len(bx[b]) > 0
    BY <1>1, EmptySeq
<1>7. Head(bx[b]) = bx[b][1]
    BY <1>1
<1> QED
    BY <1>2, <1>3, <1>4, <1>5, <1>6, <1>7

LEMMA SentFits ==
    ASSUME NEW bx, NEW ht, BoxesFit(bx, ht), NEW to \in Node, NEW msg \in Messages,
           Fits(ht, to, msg)
    PROVE  BoxesFit(Sent(bx, to, msg), ht)
<1> DEFINE new == Sent(bx, to, msg)
<1>1. bx \in Boxes
    BY DEF BoxesFit
<1>2. SUFFICES ASSUME NEW b \in Node, NEW i \in 1 .. Len(new[b])
               PROVE  Fits(ht, b, new[b][i])
    BY <1>1, SentFacts DEF BoxesFit
<1>3. CASE b # to
    BY <1>1, <1>3, SentFacts DEF BoxesFit
<1>4. CASE b = to
  <2>1. i \in 1 .. Len(bx[to]) \/ i = Len(bx[to]) + 1
      BY <1>1, <1>4, SentFacts
  <2> QED
      BY <2>1, <1>1, <1>4, SentFacts DEF BoxesFit
<1> QED
    BY <1>3, <1>4

LEMMA TakenFits ==
    ASSUME NEW bx, NEW ht, BoxesFit(bx, ht), NEW b \in Node, bx[b] # << >>
    PROVE  /\ BoxesFit(Taken(bx, b), ht)
           /\ Fits(ht, b, Head(bx[b])) /\ Head(bx[b]) \in Messages
<1> DEFINE new == Taken(bx, b)
<1>1. bx \in Boxes
    BY DEF BoxesFit
<1>2. Fits(ht, b, Head(bx[b])) /\ Head(bx[b]) \in Messages
    BY <1>1, TakenFacts DEF BoxesFit
<1>3. ASSUME NEW c \in Node, NEW i \in 1 .. Len(new[c])
      PROVE  Fits(ht, c, new[c][i])
  <2>1. CASE c # b
      BY <1>1, <2>1, <1>3, TakenFacts DEF BoxesFit
  <2>2. CASE c = b
    <3>1. i \in 1 .. Len(bx[b]) - 1 /\ i + 1 \in 1 .. Len(bx[b])
        BY <1>1, <2>2, <1>3, TakenFacts
    <3> QED
        BY <3>1, <1>1, <2>2, TakenFacts DEF BoxesFit
  <2> QED
      BY <2>1, <2>2
<1> QED
    BY <1>1, <1>2, <1>3, TakenFacts DEF BoxesFit

-----------------------------------------------------------------------------
(* Counting requests and answers.                                           *)

LEMMA OutstandingMember ==
    ASSUME NEW bx, NEW a, NEW b \in Node, NEW i
    PROVE  <<b, i>> \in OutstandingIn(bx, a) <=>
             i \in 1 .. Len(bx[b]) /\ Concerns(a, b, bx[b][i])
BY DEF OutstandingIn

LEMMA OutstandingPairs ==
    ASSUME NEW bx, NEW a, NEW q \in OutstandingIn(bx, a)
    PROVE  \E b \in Node : \E i \in 1 .. Len(bx[b]) :
             q = <<b, i>> /\ Concerns(a, b, bx[b][i])
BY DEF OutstandingIn

\* A message sent counts for the node it concerns and for no other.
LEMMA SentCounts ==
    ASSUME NEW bx \in Boxes, NEW to \in Node, NEW msg \in Messages,
           NEW a \in Node, NEW n \in Int, Counts(bx, a, n)
    PROVE  Counts(Sent(bx, to, msg), a, IF Concerns(a, to, msg) THEN n + 1 ELSE n)
<1> DEFINE new == Sent(bx, to, msg)
           k   == Len(bx[to]) + 1
           old == OutstandingIn(bx, a)
<1>1. /\ Len(bx[to]) \in Nat
      /\ Len(new[to]) = k
      /\ new[to][k] = msg
      /\ \A i \in 1 .. Len(bx[to]) : new[to][i] = bx[to][i]
      /\ \A c \in Node : c # to => new[c] = bx[c]
    BY SentFacts
<1>2. /\ k \in 1 .. k /\ k \notin 1 .. Len(bx[to])
      /\ \A i : i # k => (i \in 1 .. k <=> i \in 1 .. Len(bx[to]))
    BY <1>1
<1> HIDE DEF new, k
<1>3. ASSUME NEW b \in Node, NEW i
      PROVE  <<b, i>> \in OutstandingIn(new, a) <=>
               <<b, i>> \in old \/ (b = to /\ i = k /\ Concerns(a, to, msg))
  <2>1. /\ <<b, i>> \in OutstandingIn(new, a) <=>
             i \in 1 .. Len(new[b]) /\ Concerns(a, b, new[b][i])
        /\ <<b, i>> \in old <=> i \in 1 .. Len(bx[b]) /\ Concerns(a, b, bx[b][i])
      BY OutstandingMember
  <2>2. CASE b # to
      BY <2>1, <2>2, <1>1
  <2>3. CASE b = to /\ i = k
      BY <2>1, <2>3, <1>1, <1>2
  <2>4. CASE b = to /\ i # k
      BY <2>1, <2>4, <1>1, <1>2
  <2> QED
      BY <2>2, <2>3, <2>4
<1>4. \A q : q \in OutstandingIn(new, a) <=>
               q \in old \/ (q = <<to, k>> /\ Concerns(a, to, msg))
  <2>1. ASSUME NEW q \in OutstandingIn(new, a) PROVE \E b \in Node : \E i : q = <<b, i>>
      BY OutstandingPairs
  <2>2. ASSUME NEW q \in old PROVE \E b \in Node : \E i : q = <<b, i>>
      BY OutstandingPairs
  <2> QED
      BY <2>1, <2>2, <1>3
<1>5. <<to, k>> \notin old
    BY <1>2, OutstandingMember
<1>6. IsFiniteSet(old) /\ Cardinality(old) = n
    BY DEF Counts
<1> HIDE DEF old
<1>7. CASE Concerns(a, to, msg)
  <2>1. OutstandingIn(new, a) = old \cup {<<to, k>>}
      BY <1>4, <1>7
  <2>2. IsFiniteSet(old \cup {<<to, k>>}) /\ Cardinality(old \cup {<<to, k>>}) = n + 1
      BY <1>5, <1>6, FS_AddElement
  <2> QED
      BY <2>1, <2>2, <1>7 DEF Counts, new
<1>8. CASE ~Concerns(a, to, msg)
  <2>1. OutstandingIn(new, a) = old
      BY <1>4, <1>8
  <2> QED
      BY <2>1, <1>6, <1>8 DEF Counts, new
<1> QED
    BY <1>7, <1>8

\* A message received no longer counts, and the others of its mailbox move up.
LEMMA TakenCounts ==
    ASSUME NEW bx \in Boxes, NEW b \in Node, bx[b] # << >>,
           NEW a \in Node, NEW n \in Int, Counts(bx, a, n)
    PROVE  Counts(Taken(bx, b), a, IF Concerns(a, b, Head(bx[b])) THEN n - 1 ELSE n)
<1> DEFINE new  == Taken(bx, b)
           old  == OutstandingIn(bx, a)
           rest == old \ {<<b, 1>>}
           g    == [q \in rest |-> IF q[1] = b THEN <<b, q[2] - 1>> ELSE q]
<1> HIDE DEF new
<1>1. /\ Len(bx[b]) \in Nat /\ Len(bx[b]) > 0
      /\ Len(new[b]) = Len(bx[b]) - 1
      /\ \A i \in 1 .. Len(bx[b]) - 1 : new[b][i] = bx[b][i + 1]
      /\ \A c \in Node : c # b => new[c] = bx[c]
      /\ Head(bx[b]) = bx[b][1]
    BY TakenFacts DEF new
<1>2. IsFiniteSet(old) /\ Cardinality(old) = n
    BY DEF Counts
<1>3. <<b, 1>> \in old <=> Concerns(a, b, Head(bx[b]))
  <2>1. 1 \in 1 .. Len(bx[b])
      BY <1>1
  <2>2. <<b, 1>> \in old <=> 1 \in 1 .. Len(bx[b]) /\ Concerns(a, b, bx[b][1])
      BY OutstandingMember
  <2> QED
      BY <2>1, <2>2, <1>1
<1>4. /\ IsFiniteSet(rest)
      /\ Cardinality(rest) = IF Concerns(a, b, Head(bx[b])) THEN n - 1 ELSE n
    BY <1>2, <1>3, FS_RemoveElement
<1>5. ASSUME NEW q \in rest
      PROVE  \/ \E c \in Node : \E i : c # b /\ q = <<c, i>> /\ g[q] = q
             \/ \E i \in 2 .. Len(bx[b]) : q = <<b, i>> /\ g[q] = <<b, i - 1>>
  <2>1. PICK c \in Node : \E i \in 1 .. Len(bx[c]) : q = <<c, i>>
      BY OutstandingPairs
  <2>4. PICK i \in 1 .. Len(bx[c]) : q = <<c, i>>
      BY <2>1
  <2>2. CASE c # b
      BY <2>4, <2>2
  <2>3. CASE c = b
    <3>1. i # 1 /\ i \in 2 .. Len(bx[b])
        BY <2>4, <2>3, <1>1
    <3> QED
        BY <3>1, <2>4, <2>3
  <2> QED
      BY <2>2, <2>3
<1>6. g \in [rest -> OutstandingIn(new, a)]
  <2>1. ASSUME NEW q \in rest PROVE g[q] \in OutstandingIn(new, a)
    <3>1. CASE \E c \in Node : \E i : c # b /\ q = <<c, i>> /\ g[q] = q
      <4>1. PICK c \in Node : \E i : c # b /\ q = <<c, i>> /\ g[q] = q
          BY <3>1
      <4>2. PICK i : q = <<c, i>>
          BY <4>1
      <4>3. i \in 1 .. Len(bx[c]) /\ Concerns(a, c, bx[c][i])
          BY <4>2, OutstandingMember
      <4>4. <<c, i>> \in OutstandingIn(new, a)
          BY <4>1, <4>3, <1>1, OutstandingMember
      <4> QED
          BY <4>1, <4>2, <4>4
    <3>2. CASE \E i \in 2 .. Len(bx[b]) : q = <<b, i>> /\ g[q] = <<b, i - 1>>
      <4>1. PICK i \in 2 .. Len(bx[b]) : q = <<b, i>> /\ g[q] = <<b, i - 1>>
          BY <3>2
      <4>2. Concerns(a, b, bx[b][i])
          BY <4>1, OutstandingMember
      <4>3. i - 1 \in 1 .. Len(new[b]) /\ new[b][i - 1] = bx[b][i]
        <5>1. i - 1 \in 1 .. Len(bx[b]) - 1 /\ (i - 1) + 1 = i
            BY <1>1
        <5> QED
            BY <5>1, <1>1
      <4> QED
          BY <4>1, <4>2, <4>3, OutstandingMember
    <3> QED
        BY <3>1, <3>2, <1>5
  <2> QED
      BY <2>1
<1>7. IsInjective(g)
  <2> SUFFICES ASSUME NEW q \in rest, NEW r \in rest, g[q] = g[r]
               PROVE  q = r
      BY DEF IsInjective
  <2> HIDE DEF g, rest
  <2> QED
      BY <1>5, <1>1
<1>8. \A r \in OutstandingIn(new, a) : \E q \in rest : g[q] = r
  <2> SUFFICES ASSUME NEW r \in OutstandingIn(new, a)
               PROVE  \E q \in rest : g[q] = r
      OBVIOUS
  <2>1. PICK c \in Node : \E i \in 1 .. Len(new[c]) :
              r = <<c, i>> /\ Concerns(a, c, new[c][i])
      BY OutstandingPairs
  <2>4. PICK i \in 1 .. Len(new[c]) : r = <<c, i>> /\ Concerns(a, c, new[c][i])
      BY <2>1
  <2>2. CASE c # b
    <3>1. r \in rest
        BY <2>4, <2>2, <1>1, OutstandingMember
    <3> QED
        BY <3>1, <2>4, <2>2
  <2>3. CASE c = b
    <3>1. /\ i \in 1 .. Len(bx[b]) - 1 /\ i + 1 \in 1 .. Len(bx[b])
          /\ i + 1 # 1 /\ (i + 1) - 1 = i
        BY <2>4, <2>3, <1>1
    <3>2. <<b, i + 1>> \in rest
        BY <3>1, <2>4, <2>3, <1>1, OutstandingMember
    <3> QED
        BY <3>1, <3>2, <2>4, <2>3
  <2> QED
      BY <2>2, <2>3
<1>9. ExistsBijection(rest, OutstandingIn(new, a))
  <2>1. g \in Bijection(rest, OutstandingIn(new, a))
      BY <1>6, <1>7, <1>8 DEF Bijection, Injection, Surjection
  <2> QED
      BY <2>1 DEF ExistsBijection
<1> QED
    BY <1>4, <1>9, FS_Bijection DEF Counts, new

\* A message can be of interest only to those who wait for it.
LEMMA ConcernFacts ==
    /\ \A a, b, c \in Node : \A x \in Incident(b) : \A d, ht \in Int :
         Concerns(c, b, Request(x, d, ht)) <=> c = Other(b, x)
    /\ \A b, c \in Node : Concerns(c, b, Accept) <=> c = b
    /\ \A b, c \in Node : \A x \in Edge : \A d \in Int :
         Concerns(c, b, Reject(x, d)) <=> c = b
    /\ \A b, c \in Node : ~Concerns(c, b, IsDone)
BY DEF Concerns, Request, Accept, Reject, IsDone

-----------------------------------------------------------------------------
(* pushToNeighbours.                                                        *)

\* The loop of a ran up to its next access of an edge: only a's own height and
\* place have changed, and the height only with no request unanswered.
Walked(a, rq) ==
    /\ h' \in [Node -> Int] /\ listIndex' \in [Node -> Nat] /\ at' \in [Node -> Places]
    /\ \A c \in Node : c # a => h'[c] = h[c] /\ listIndex'[c] = listIndex[c] /\ at'[c] = at[c]
    /\ h'[a] # h[a] => rq <= 0
    /\ PlaceFits(a, at'[a], listIndex'[a])

LEMMA IdleFits ==
    ASSUME NEW a \in Node, NEW ix, ix <= Len(Adj[a])
    PROVE  Idle \in Places /\ PlaceFits(a, Idle, ix)
BY DEF Idle, At, Places, Steps, PlaceFits

LEMMA BeginFits ==
    ASSUME NEW a \in Inner, NEW ix \in Nat, ix < Len(Adj[a])
    PROVE  /\ Begin(a, Adj[a][ix + 1]) \in Places
           /\ PlaceFits(a, Begin(a, Adj[a][ix + 1]), ix)
<1>1. a \in Node /\ a # s
    BY NodeFacts
<1>2. Adj[a][ix + 1] \in Edge /\ Adj[a][ix + 1] \in Incident(a) /\ ix + 1 \in 1 .. Len(Adj[a])
  <2>1. ix + 1 \in 1 .. Len(Adj[a])
      BY <1>1, LengthFacts
  <2> QED
      BY <1>1, <2>1, LinkFacts
<1>3. Adj[a][ix + 1] \in Int
    BY <1>2, NumberFacts
<1> DEFINE x == Adj[a][ix + 1]
<1> HIDE DEF x
<1>4. \A st \in {"test", "amount"} :
        At(st, x, 0, 0) \in Places /\ PlaceFits(a, At(st, x, 0, 0), ix)
    BY <1>1, <1>2, <1>3 DEF At, Places, Steps, PlaceFits, x
<1> QED
    BY <1>4 DEF Begin, x

LEMMA GoOnWalks ==
    ASSUME Types, NEW a \in Inner, NEW ex \in Int, NEW rq \in Int, NEW ix \in Nat,
           ix <= Len(Adj[a]), Len(Adj[a]) > 0, GoOn(a, ex, rq, ix)
    PROVE  Walked(a, rq)
<1> DEFINE waits    == ex = 0 \/ (ix = Len(Adj[a]) /\ Pauses(ex, rq))
           relabels == ~waits /\ ix = Len(Adj[a])
           from     == IF relabels THEN 0 ELSE ix
           place    == IF waits THEN Idle ELSE Begin(a, Adj[a][from + 1])
<1>1. /\ h' = [h EXCEPT ![a] = IF relabels THEN @ + 1 ELSE @]
      /\ listIndex' = [listIndex EXCEPT ![a] = from]
      /\ at' = [at EXCEPT ![a] = place]
    BY DEF GoOn
<1>2. a \in Node /\ Len(Adj[a]) \in Nat
    BY NodeFacts, LengthFacts
<1>3. relabels => rq <= 0
    BY DEF Pauses
<1>4. from \in Nat /\ from <= Len(Adj[a]) /\ (~waits => from < Len(Adj[a]))
    BY <1>2
<1> HIDE DEF waits, relabels, from
<1>5. place \in Places /\ PlaceFits(a, place, from)
    BY <1>2, <1>4, IdleFits, BeginFits
<1> HIDE DEF place
<1> QED
    BY <1>1, <1>2, <1>3, <1>4, <1>5 DEF Walked, Types

LEMMA PushToNeighboursWalks ==
    ASSUME Types, PlacesFit, NEW a \in Node, NEW ex \in Int, NEW rq \in Int,
           Len(Adj[a]) > 0, PushToNeighbours(a, ex, rq)
    PROVE  Walked(a, rq)
<1>1. listIndex[a] \in Nat /\ listIndex[a] <= Len(Adj[a])
    BY DEF Types, PlacesFit, PlaceFits
<1>2. CASE a \notin Inner \/ Pauses(ex, rq)
  <2>1. at' = [at EXCEPT ![a] = Idle] /\ UNCHANGED <<h, listIndex>>
      BY <1>2 DEF PushToNeighbours
  <2> QED
      BY <2>1, <1>1, IdleFits DEF Walked, Types
<1>3. CASE ~(a \notin Inner \/ Pauses(ex, rq))
    BY <1>3, <1>1, GoOnWalks DEF PushToNeighbours
<1> QED
    BY <1>2, <1>3

\* Another step of a: its place changes and nobody's height.
LEMMA MovedWalks ==
    ASSUME Types, NEW a \in Node, NEW place \in Places, NEW rq,
           PlaceFits(a, place, listIndex[a]),
           at' = [at EXCEPT ![a] = place], UNCHANGED <<h, listIndex>>
    PROVE  Walked(a, rq)
BY DEF Walked, Types

-----------------------------------------------------------------------------
(* A step that leaves the mailboxes right for the old heights leaves them   *)
(* right for the new ones: who is relabelled has no request on its way.     *)

LEMMA HeightsFollow ==
    ASSUME NEW bx, NEW pr \in [Node -> Int], BoxesFit(bx, h), CountsFit(bx, pr),
           \A c \in Node : h'[c] # h[c] => pr[c] <= 0
    PROVE  BoxesFit(bx, h')
<1>1. SUFFICES ASSUME NEW b \in Node, NEW i \in 1 .. Len(bx[b]), bx[b][i].kind = "request"
               PROVE  h'[Other(b, bx[b][i].x)] = h[Other(b, bx[b][i].x)]
    BY DEF BoxesFit, Fits
<1> DEFINE c == Other(b, bx[b][i].x)
<1>2. c \in Node
    BY <1>1, OtherFacts DEF BoxesFit, Fits
<1>3. <<b, i>> \in OutstandingIn(bx, c)
    BY <1>1, OutstandingMember DEF Concerns
<1>4. IsFiniteSet(OutstandingIn(bx, c)) /\ Cardinality(OutstandingIn(bx, c)) = pr[c]
    BY <1>2 DEF CountsFit, Counts
<1>5. Cardinality(OutstandingIn(bx, c)) \in Nat /\ Cardinality(OutstandingIn(bx, c)) # 0
    BY <1>3, <1>4, FS_EmptySet, FS_CardinalityType
<1> QED
    BY <1>2, <1>4, <1>5

\* What a node's step must show.
LEMMA NodeStepKeeps ==
    ASSUME IInv, NEW a \in Node, Walked(a, pushRequest'[a]),
           e' \in [Node -> Int], f' \in [Edge -> Int], pushRequest' \in [Node -> Int],
           finish' \in 0 .. N - 2,
           BoxesFit(box', h), CountsFit(box', pushRequest')
    PROVE  IInv'
<1>1. BoxesFit(box', h')
    BY HeightsFollow DEF Walked
<1>2. PlacesFit'
    BY DEF IInv, PlacesFit, Walked
<1>3. Types'
    BY DEF Types, Walked, BoxesFit
<1> QED
    BY <1>1, <1>2, <1>3 DEF IInv

-----------------------------------------------------------------------------
(* What each kind of message does to the mailboxes and the counters.        *)

LEMMA RequestSent ==
    ASSUME NEW bx, NEW ht \in [Node -> Int], NEW pr \in [Node -> Int],
           BoxesFit(bx, ht), CountsFit(bx, pr),
           NEW a \in Node, NEW x \in Incident(a), NEW d \in Int
    PROVE  /\ BoxesFit(Sent(bx, Other(a, x), Request(x, d, ht[a])), ht)
           /\ CountsFit(Sent(bx, Other(a, x), Request(x, d, ht[a])), [pr EXCEPT ![a] = @ + 1])
<1> DEFINE b   == Other(a, x)
           msg == Request(x, d, ht[a])
<1>1. x \in Edge /\ b \in Node /\ x \in Incident(b) /\ Other(b, x) = a
    BY OtherFacts
<1>2. msg \in Messages /\ Fits(ht, b, msg)
    BY <1>1, MessageFacts DEF Fits
<1>3. \A c \in Node : Concerns(c, b, msg) <=> c = a
    BY <1>1, ConcernFacts
<1> HIDE DEF b, msg
<1>4. ASSUME NEW c \in Node
      PROVE  Counts(Sent(bx, b, msg), c, [pr EXCEPT ![a] = @ + 1][c])
  <2>1. bx \in Boxes /\ pr[c] \in Int /\ Counts(bx, c, pr[c])
      BY DEF BoxesFit, CountsFit
  <2>2. Counts(Sent(bx, b, msg), c, IF Concerns(c, b, msg) THEN pr[c] + 1 ELSE pr[c])
      BY <2>1, <1>1, <1>2, SentCounts
  <2> QED
      BY <2>2, <1>3
<1> QED
    BY <1>1, <1>2, <1>4, SentFits DEF CountsFit, b, msg

\* The answer to a request takes its place in its sender's count.
LEMMA RequestAnswered ==
    ASSUME NEW bx, NEW ht \in [Node -> Int], NEW pr \in [Node -> Int],
           BoxesFit(bx, ht), CountsFit(bx, pr),
           NEW a \in Node, bx[a] # << >>, Head(bx[a]).kind = "request",
           NEW msg \in {Accept, Reject(Head(bx[a]).x, Head(bx[a]).d)}
    PROVE  /\ BoxesFit(Sent(Taken(bx, a), Other(a, Head(bx[a]).x), msg), ht)
           /\ CountsFit(Sent(Taken(bx, a), Other(a, Head(bx[a]).x), msg), pr)
           /\ Len(Adj[a]) > 0
<1> DEFINE hd    == Head(bx[a])
           b     == Other(a, hd.x)
           taken == Taken(bx, a)
<1>1. hd \in Messages /\ Fits(ht, a, hd) /\ BoxesFit(taken, ht)
    BY TakenFits
<1>2. hd.x \in Incident(a) /\ hd.d \in Int /\ hd.x \in Edge
    BY <1>1, MessageFields DEF Fits
<1>3. b \in Node /\ Len(Adj[b]) > 0 /\ Len(Adj[a]) > 0
  <2>1. b \in Node /\ hd.x \in Incident(b) /\ Len(Adj[a]) > 0
      BY <1>2, OtherFacts
  <2> QED
      BY <2>1, OtherFacts
<1>4. msg \in Messages /\ msg.kind \in {"accept", "reject"} /\ Fits(ht, b, msg)
    BY <1>2, <1>3, MessageFacts DEF Fits
<1>5. \A c \in Node : Concerns(c, b, msg) <=> c = b
    BY <1>2, <1>3, ConcernFacts
<1>6. \A c \in Node : Concerns(c, a, hd) <=> c = b
    BY DEF Concerns
<1>7. ASSUME NEW c \in Node PROVE Counts(Sent(taken, b, msg), c, pr[c])
  <2>1. /\ bx \in Boxes /\ taken \in Boxes
        /\ pr[c] \in Int /\ Counts(bx, c, pr[c])
      BY <1>1 DEF BoxesFit, CountsFit
  <2>2. Counts(taken, c, IF Concerns(c, a, hd) THEN pr[c] - 1 ELSE pr[c])
      BY <2>1, TakenCounts
  <2> HIDE DEF taken, b, hd
  <2>3. CASE c = b
    <3>1. Counts(taken, c, pr[c] - 1) /\ pr[c] - 1 \in Int
        BY <2>1, <2>2, <2>3, <1>6
    <3>2. Counts(Sent(taken, b, msg), c,
                 IF Concerns(c, b, msg) THEN (pr[c] - 1) + 1 ELSE pr[c] - 1)
        BY <3>1, <2>1, <1>3, <1>4, SentCounts
    <3>3. (pr[c] - 1) + 1 = pr[c]
        BY <2>1
    <3> QED
        BY <3>2, <3>3, <2>3, <1>5
  <2>4. CASE c # b
    <3>1. Counts(taken, c, pr[c])
        BY <2>2, <2>4, <1>6
    <3>2. Counts(Sent(taken, b, msg), c,
                 IF Concerns(c, b, msg) THEN pr[c] + 1 ELSE pr[c])
        BY <3>1, <2>1, <1>3, <1>4, SentCounts
    <3> QED
        BY <3>2, <2>4, <1>5
  <2> QED
      BY <2>3, <2>4
<1> HIDE DEF taken
<1>8. BoxesFit(Sent(taken, b, msg), ht)
    BY <1>1, <1>3, <1>4, SentFits
<1> QED
    BY <1>3, <1>7, <1>8 DEF CountsFit, taken

LEMMA AnswerTaken ==
    ASSUME NEW bx, NEW ht \in [Node -> Int], NEW pr \in [Node -> Int],
           BoxesFit(bx, ht), CountsFit(bx, pr),
           NEW a \in Node, bx[a] # << >>, Head(bx[a]).kind \in {"accept", "reject"}
    PROVE  /\ BoxesFit(Taken(bx, a), ht)
           /\ CountsFit(Taken(bx, a), [pr EXCEPT ![a] = @ - 1])
           /\ Len(Adj[a]) > 0
           /\ Head(bx[a]).kind = "reject" => Head(bx[a]).x \in Edge /\ Head(bx[a]).d \in Int
<1>1. Head(bx[a]) \in Messages /\ Fits(ht, a, Head(bx[a])) /\ BoxesFit(Taken(bx, a), ht)
    BY TakenFits
<1>2. Len(Adj[a]) > 0
    BY <1>1 DEF Fits
<1>3. Head(bx[a]).kind = "reject" => Head(bx[a]).x \in Edge /\ Head(bx[a]).d \in Int
    BY <1>1, MessageFields
<1>4. \A c \in Node : Concerns(c, a, Head(bx[a])) <=> c = a
    BY DEF Concerns
<1>5. ASSUME NEW c \in Node
      PROVE  Counts(Taken(bx, a), c, [pr EXCEPT ![a] = @ - 1][c])
  <2>1. bx \in Boxes /\ pr[c] \in Int /\ Counts(bx, c, pr[c])
      BY DEF BoxesFit, CountsFit
  <2>2. Counts(Taken(bx, a), c, IF Concerns(c, a, Head(bx[a])) THEN pr[c] - 1 ELSE pr[c])
      BY <2>1, TakenCounts
  <2> QED
      BY <2>2, <1>4
<1> QED
    BY <1>1, <1>2, <1>3, <1>5 DEF CountsFit

LEMMA IsDoneTaken ==
    ASSUME NEW bx, NEW ht \in [Node -> Int], NEW pr \in [Node -> Int],
           BoxesFit(bx, ht), CountsFit(bx, pr),
           NEW a \in Node, bx[a] # << >>, Head(bx[a]).kind = "isdone"
    PROVE  BoxesFit(Taken(bx, a), ht) /\ CountsFit(Taken(bx, a), pr)
<1>1. BoxesFit(Taken(bx, a), ht)
    BY TakenFits
<1>2. \A c \in Node : ~Concerns(c, a, Head(bx[a]))
    BY DEF Concerns
<1>3. ASSUME NEW c \in Node PROVE Counts(Taken(bx, a), c, pr[c])
  <2>1. bx \in Boxes /\ pr[c] \in Int /\ Counts(bx, c, pr[c])
      BY DEF BoxesFit, CountsFit
  <2>2. Counts(Taken(bx, a), c, IF Concerns(c, a, Head(bx[a])) THEN pr[c] - 1 ELSE pr[c])
      BY <2>1, TakenCounts
  <2> QED
      BY <2>2, <1>2
<1> QED
    BY <1>1, <1>3 DEF CountsFit

LEMMA IsDoneSent ==
    ASSUME NEW bx, NEW ht \in [Node -> Int], NEW pr \in [Node -> Int],
           BoxesFit(bx, ht), CountsFit(bx, pr), NEW b \in Node
    PROVE  BoxesFit(Sent(bx, b, IsDone), ht) /\ CountsFit(Sent(bx, b, IsDone), pr)
<1>1. BoxesFit(Sent(bx, b, IsDone), ht)
    BY MessageFacts, SentFits DEF Fits
<1>2. ASSUME NEW c \in Node PROVE Counts(Sent(bx, b, IsDone), c, pr[c])
  <2>1. bx \in Boxes /\ pr[c] \in Int /\ Counts(bx, c, pr[c])
      BY DEF BoxesFit, CountsFit
  <2>2. Counts(Sent(bx, b, IsDone), c, IF Concerns(c, b, IsDone) THEN pr[c] + 1 ELSE pr[c])
      BY <2>1, MessageFacts, SentCounts
  <2> QED
      BY <2>2, ConcernFacts
<1> QED
    BY <1>1, <1>2 DEF CountsFit

-----------------------------------------------------------------------------
(* The steps.                                                               *)

LEMMA InitHolds ==
    Init => IInv
<1> SUFFICES ASSUME Init PROVE IInv
    OBVIOUS
<1>1. /\ h = [a \in Node |-> IF a = s THEN N ELSE 0]
      /\ e = [a \in Node |-> 0] /\ pushRequest = [a \in Node |-> 0]
      /\ listIndex = [a \in Node |-> 0] /\ f = [x \in Edge |-> 0]
      /\ box = [a \in Node |-> << >>] /\ finish = 0
      /\ at = [a \in Node |-> IF a = s /\ Adj[s] # << >>
                              THEN At("saturate", Adj[s][1], 0, 0) ELSE Idle]
    BY DEF Init
<1>2. ASSUME NEW a \in Node PROVE at[a] \in Places /\ PlaceFits(a, at[a], 0)
  <2>1. CASE a = s /\ Adj[s] # << >>
    <3>1. Adj[s] \in Seq(Edge)
        BY <2>1, AdjAssumption
    <3>2. 1 \in 1 .. Len(Adj[s])
        BY <2>1, <3>1, EmptySeq
    <3>3. Adj[s][1] \in Incident(s) /\ Adj[s][1] \in Int
        BY <3>2, LinkFacts, NodeFacts, NumberFacts
    <3> QED
        BY <1>1, <2>1, <3>3, LengthFacts DEF At, Places, Steps, PlaceFits
  <2>2. CASE ~(a = s /\ Adj[s] # << >>)
      BY <1>1, <2>2, LengthFacts, IdleFits
  <2> QED
      BY <2>1, <2>2
<1>3. << >> \in Seq(Messages) /\ Len(<< >>) = 0
    BY EmptySeq
<1>4. Types
    BY <1>1, <1>2, <1>3, NumberFacts DEF Types, Boxes
<1>5. BoxesFit(box, h)
    BY <1>1, <1>3, <1>4 DEF BoxesFit, Types
<1>6. PlacesFit
    BY <1>1, <1>2 DEF PlacesFit
<1>7. ASSUME NEW a \in Node PROVE Counts(box, a, pushRequest[a])
  <2>1. \A b \in Node : \A i : i \notin 1 .. Len(box[b])
      BY <1>1, <1>3
  <2>2. OutstandingIn(box, a) = {}
      BY <2>1 DEF OutstandingIn
  <2> QED
      BY <1>1, <2>2, FS_EmptySet DEF Counts
<1> QED
    BY <1>4, <1>5, <1>6, <1>7 DEF IInv, CountsFit

\* What the invariant says of a node and its place.
LEMMA PlaceOf ==
    ASSUME IInv, NEW a \in Node
    PROVE  /\ h[a] \in Int /\ e[a] \in Int /\ pushRequest[a] \in Int
           /\ listIndex[a] \in Nat /\ listIndex[a] <= Len(Adj[a])
           /\ at[a].step \in Steps /\ at[a].x \in Int
           /\ at[a].d \in Int /\ at[a].seen \in Int
           /\ PlaceFits(a, at[a], listIndex[a])
BY DEF IInv, Types, PlacesFit, PlaceFits, Places

LEMMA SaturateKeeps ==
    ASSUME IInv, Saturate
    PROVE  IInv'
<1> DEFINE x     == at[s].x
           place == At("send", x, Cap[x], 0)
<1>1. s \in Node /\ x \in Incident(s) /\ x \in Edge /\ Cap[x] \in Int /\ x \in Int
    BY PlaceOf, NodeFacts, OtherFacts, NumberFacts DEF Saturate, PlaceFits
<1>2. place \in Places /\ PlaceFits(s, place, listIndex[s])
    BY <1>1, PlaceOf DEF At, Places, Steps, PlaceFits
<1>3. /\ at' = [at EXCEPT ![s] = place] /\ UNCHANGED <<h, listIndex, pushRequest, box, finish>>
      /\ f' = [f EXCEPT ![x] = Cap[x]] /\ e' = [e EXCEPT ![s] = @ - Cap[x]]
    BY DEF Saturate, controlVars
<1> HIDE DEF place, x
<1>4. Walked(s, pushRequest'[s])
    BY <1>1, <1>2, <1>3, MovedWalks DEF IInv
<1>5. e' \in [Node -> Int] /\ f' \in [Edge -> Int]
    BY <1>1, <1>3, PlaceOf DEF IInv, Types
<1> QED
    BY <1>1, <1>3, <1>4, <1>5, NodeStepKeeps DEF IInv, Types

LEMMA SendFromSourceKeeps ==
    ASSUME IInv, SendFromSource
    PROVE  IInv'
<1> DEFINE x     == at[s].x
           i     == CHOOSE j \in 1 .. Len(Adj[s]) : Adj[s][j] = x
           place == IF i < Len(Adj[s]) THEN At("saturate", Adj[s][i + 1], 0, 0) ELSE Idle
<1>1. s \in Node /\ x \in Incident(s) /\ at[s].d \in Int
    BY PlaceOf, NodeFacts DEF SendFromSource, PlaceFits
<1>2. i \in 1 .. Len(Adj[s])
    BY <1>1, AdjAssumption
<1>3. /\ at' = [at EXCEPT ![s] = place]
      /\ box' = Sent(box, Other(s, x), Request(x, at[s].d, h[s]))
      /\ pushRequest' = [pushRequest EXCEPT ![s] = @ + 1]
      /\ UNCHANGED <<h, e, f, listIndex, finish>>
    BY DEF SendFromSource, controlVars
<1> HIDE DEF i
<1>4. place \in Places /\ PlaceFits(s, place, listIndex[s])
  <2>1. CASE i < Len(Adj[s])
    <3>1. i + 1 \in 1 .. Len(Adj[s])
        BY <1>1, <1>2, <2>1, LengthFacts
    <3>2. Adj[s][i + 1] \in Incident(s) /\ Adj[s][i + 1] \in Int
        BY <3>1, <1>1, LinkFacts, NumberFacts
    <3> QED
        BY <2>1, <3>2, <1>1, PlaceOf DEF At, Places, Steps, PlaceFits
  <2>2. CASE ~(i < Len(Adj[s]))
      BY <2>2, <1>1, PlaceOf, IdleFits
  <2> QED
      BY <2>1, <2>2
<1> HIDE DEF place, x
<1>5. Walked(s, pushRequest'[s])
    BY <1>1, <1>3, <1>4, MovedWalks DEF IInv
<1>6. /\ BoxesFit(box', h) /\ CountsFit(box', pushRequest')
      /\ pushRequest' \in [Node -> Int]
  <2>1. /\ BoxesFit(box, h) /\ CountsFit(box, pushRequest)
        /\ h \in [Node -> Int] /\ pushRequest \in [Node -> Int]
      BY DEF IInv, Types
  <2>2. /\ BoxesFit(Sent(box, Other(s, x), Request(x, at[s].d, h[s])), h)
        /\ CountsFit(Sent(box, Other(s, x), Request(x, at[s].d, h[s])),
                     [pushRequest EXCEPT ![s] = @ + 1])
      BY <1>1, <2>1, RequestSent
  <2> QED
      BY <1>1, <1>3, <2>1, <2>2
<1> QED
    BY <1>1, <1>3, <1>5, <1>6, NodeStepKeeps DEF IInv, Types

LEMMA TestKeeps ==
    ASSUME IInv, NEW a \in Node, Test(a)
    PROVE  IInv'
<1> DEFINE x == at[a].x
<1>1. /\ a \in Inner /\ a # s /\ x \in Incident(a) /\ x \in Int
      /\ listIndex[a] \in Nat /\ listIndex[a] < Len(Adj[a])
    BY PlaceOf, NodeFacts DEF Test, PlaceFits
<1>2. UNCHANGED <<e, pushRequest, f, box, finish>>
    BY DEF Test, controlVars
<1>3. Walked(a, pushRequest'[a])
  <2>1. CASE f[x] < Cap[x]
    <3>1. at' = [at EXCEPT ![a] = At("amount", x, 0, 0)] /\ UNCHANGED <<h, listIndex>>
        BY <2>1 DEF Test
    <3>2. At("amount", x, 0, 0) \in Places /\ PlaceFits(a, At("amount", x, 0, 0), listIndex[a])
        BY <1>1, PlaceOf DEF At, Places, Steps, PlaceFits
    <3> HIDE DEF x
    <3> QED
        BY <3>1, <3>2, MovedWalks DEF IInv
  <2>2. CASE ~(f[x] < Cap[x])
    <3>1. GoOn(a, e[a], pushRequest[a], listIndex[a] + 1)
        BY <2>2 DEF Test
    <3>2. /\ listIndex[a] + 1 \in Nat /\ listIndex[a] + 1 <= Len(Adj[a]) /\ Len(Adj[a]) > 0
        BY <1>1, LengthFacts
    <3> QED
        BY <1>1, <1>2, <3>1, <3>2, PlaceOf, GoOnWalks DEF IInv
  <2> QED
      BY <2>1, <2>2
<1> QED
    BY <1>2, <1>3, NodeStepKeeps DEF IInv, Types

LEMMA TakeAmountKeeps ==
    ASSUME IInv, NEW a \in Node, TakeAmount(a)
    PROVE  IInv'
<1> DEFINE x     == at[a].x
           d     == PushAmount(a, x, e[a], f[x])
           place == At("load", x, d, 0)
<1>1. /\ a \in Inner /\ a # s /\ x \in Incident(a) /\ x \in Int
      /\ listIndex[a] < Len(Adj[a]) /\ listIndex[a] <= Len(Adj[a])
    BY PlaceOf, NodeFacts DEF TakeAmount, PlaceFits
<1>2. d \in Int
  <2>1. x \in Edge /\ f[x] \in Int /\ Cap[x] \in Int /\ e[a] \in Int
      BY <1>1, OtherFacts, NumberFacts, PlaceOf DEF IInv, Types
  <2> HIDE DEF x
  <2> QED
      BY <2>1 DEF PushAmount, Lesser
<1>3. /\ e' = [e EXCEPT ![a] = @ - d] /\ at' = [at EXCEPT ![a] = place]
      /\ UNCHANGED <<h, pushRequest, listIndex, f, box, finish>>
    BY DEF TakeAmount, controlVars
<1> HIDE DEF d
<1>4. place \in Places /\ PlaceFits(a, place, listIndex[a])
    BY <1>1, <1>2 DEF At, Places, Steps, PlaceFits
<1> HIDE DEF place
<1>5. Walked(a, pushRequest'[a])
    BY <1>3, <1>4, MovedWalks DEF IInv
<1>6. e' \in [Node -> Int]
    BY <1>2, <1>3, PlaceOf DEF IInv, Types
<1> QED
    BY <1>3, <1>5, <1>6, NodeStepKeeps DEF IInv, Types

LEMMA LoadKeeps ==
    ASSUME IInv, NEW a \in Node, Load(a)
    PROVE  IInv'
<1> DEFINE x     == at[a].x
           place == At("store", x, at[a].d, f[x])
<1>1. /\ a \in Inner /\ x \in Incident(a) /\ x \in Int /\ at[a].d \in Int
      /\ PlaceFits(a, at[a], listIndex[a])
    BY PlaceOf DEF Load, PlaceFits
<1>2. f[x] \in Int
    BY <1>1, OtherFacts DEF IInv, Types
<1>3. at' = [at EXCEPT ![a] = place] /\ UNCHANGED <<h, e, pushRequest, listIndex, f, box, finish>>
    BY DEF Load, controlVars
<1>4. place \in Places /\ PlaceFits(a, place, listIndex[a])
    BY <1>1, <1>2 DEF Load, At, Places, Steps, PlaceFits
<1> HIDE DEF place
<1>5. Walked(a, pushRequest'[a])
    BY <1>3, <1>4, MovedWalks DEF IInv
<1> QED
    BY <1>3, <1>5, NodeStepKeeps DEF IInv, Types

LEMMA StoreKeeps ==
    ASSUME IInv, NEW a \in Node, Store(a)
    PROVE  IInv'
<1> DEFINE x     == at[a].x
           place == At("send", x, at[a].d, 0)
           fx    == FlowPlus(a, x, at[a].seen, at[a].d)
<1>1. /\ a \in Inner /\ x \in Incident(a) /\ x \in Int /\ at[a].d \in Int
      /\ at[a].seen \in Int /\ PlaceFits(a, at[a], listIndex[a])
    BY PlaceOf DEF Store, PlaceFits
<1>2. fx \in Int
    BY <1>1 DEF FlowPlus
<1>3. /\ at' = [at EXCEPT ![a] = place] /\ f' = [f EXCEPT ![x] = fx]
      /\ UNCHANGED <<h, e, pushRequest, listIndex, box, finish>>
    BY DEF Store, controlVars
<1>4. place \in Places /\ PlaceFits(a, place, listIndex[a])
    BY <1>1 DEF Store, At, Places, Steps, PlaceFits
<1> HIDE DEF place, fx
<1>5. Walked(a, pushRequest'[a])
    BY <1>3, <1>4, MovedWalks DEF IInv
<1>6. f' \in [Edge -> Int]
    BY <1>2, <1>3 DEF IInv, Types
<1> QED
    BY <1>3, <1>5, <1>6, NodeStepKeeps DEF IInv, Types

LEMMA SendRequestKeeps ==
    ASSUME IInv, NEW a \in Node, a # s, SendRequest(a)
    PROVE  IInv'
<1> DEFINE x == at[a].x
<1>1. /\ a \in Inner /\ x \in Incident(a) /\ at[a].d \in Int
      /\ listIndex[a] \in Nat /\ listIndex[a] < Len(Adj[a])
    BY PlaceOf DEF SendRequest, PlaceFits
<1>2. /\ box' = Sent(box, Other(a, x), Request(x, at[a].d, h[a]))
      /\ pushRequest' = [pushRequest EXCEPT ![a] = @ + 1]
      /\ GoOn(a, e[a], pushRequest[a] + 1, listIndex[a] + 1)
      /\ UNCHANGED <<e, f, finish>>
    BY DEF SendRequest, controlVars
<1>3. /\ BoxesFit(box', h) /\ CountsFit(box', pushRequest')
      /\ pushRequest' \in [Node -> Int] /\ pushRequest'[a] = pushRequest[a] + 1
  <2>1. /\ BoxesFit(box, h) /\ CountsFit(box, pushRequest)
        /\ h \in [Node -> Int] /\ pushRequest \in [Node -> Int]
      BY DEF IInv, Types
  <2>2. /\ BoxesFit(Sent(box, Other(a, x), Request(x, at[a].d, h[a])), h)
        /\ CountsFit(Sent(box, Other(a, x), Request(x, at[a].d, h[a])),
                     [pushRequest EXCEPT ![a] = @ + 1])
      BY <1>1, <2>1, RequestSent
  <2> QED
      BY <1>1, <1>2, <2>1, <2>2
<1>4. listIndex[a] + 1 \in Nat /\ listIndex[a] + 1 <= Len(Adj[a]) /\ Len(Adj[a]) > 0
    BY <1>1, LengthFacts
<1>5. e[a] \in Int /\ pushRequest[a] + 1 \in Int
    BY PlaceOf
<1>6. Walked(a, pushRequest'[a])
    BY <1>1, <1>2, <1>3, <1>4, <1>5, GoOnWalks DEF IInv
<1> QED
    BY <1>2, <1>3, <1>6, NodeStepKeeps DEF IInv, Types

LEMMA ReceivePushRequestKeeps ==
    ASSUME IInv, NEW a \in Node, ReceivePushRequest(a)
    PROVE  IInv'
<1> DEFINE msg    == Head(box[a])
           sender == Other(a, msg.x)
           reply == IF Accepts(a, msg) THEN Accept ELSE Reject(msg.x, msg.d)
<1>1. box[a] # << >> /\ msg.kind = "request"
    BY DEF ReceivePushRequest, Receives
<1>2. box' = Sent(Taken(box, a), sender, reply) /\ UNCHANGED <<pushRequest, f, finish>>
    BY DEF ReceivePushRequest, Taken, controlVars
<1>3. BoxesFit(box', h) /\ CountsFit(box', pushRequest') /\ Len(Adj[a]) > 0
    BY <1>1, <1>2, RequestAnswered DEF IInv, Types
<1>4. /\ msg.d \in Int /\ e[a] \in Int /\ pushRequest[a] \in Int
      /\ listIndex[a] <= Len(Adj[a])
    BY <1>1, TakenFits, MessageFields, PlaceOf DEF IInv
<1> HIDE DEF msg
<1>5. Walked(a, pushRequest'[a]) /\ e' \in [Node -> Int]
  <2>1. CASE Accepts(a, msg) /\ a \in {s, t}
    <3>1. /\ at' = [at EXCEPT ![a] = At("report", 0, 0, 0)] /\ UNCHANGED <<h, listIndex>>
          /\ e' = [e EXCEPT ![a] = @ + msg.d]
        BY <2>1 DEF ReceivePushRequest, msg
    <3>2. /\ At("report", 0, 0, 0) \in Places
          /\ PlaceFits(a, At("report", 0, 0, 0), listIndex[a])
        BY <1>4 DEF At, Places, Steps, PlaceFits
    <3>3. Walked(a, pushRequest'[a])
        BY <3>1, <3>2, MovedWalks DEF IInv
    <3> QED
        BY <1>4, <3>1, <3>3 DEF IInv, Types
  <2>2. CASE Accepts(a, msg) /\ a \notin {s, t}
    <3>1. /\ PushToNeighbours(a, e[a] + msg.d, pushRequest[a])
          /\ e' = [e EXCEPT ![a] = @ + msg.d]
        BY <2>2 DEF ReceivePushRequest, msg
    <3>2. e[a] + msg.d \in Int
        BY <1>4
    <3> QED
        BY <1>2, <1>3, <1>4, <3>1, <3>2, PushToNeighboursWalks DEF IInv, Types
  <2>3. CASE ~Accepts(a, msg)
    <3>1. PushToNeighbours(a, e[a], pushRequest[a]) /\ e' = e
        BY <2>3 DEF ReceivePushRequest, msg
    <3> QED
        BY <1>2, <1>3, <1>4, <3>1, PushToNeighboursWalks DEF IInv, Types
  <2> QED
      BY <2>1, <2>2, <2>3
<1> QED
    BY <1>2, <1>3, <1>5, NodeStepKeeps DEF IInv, Types

LEMMA ReportKeeps ==
    ASSUME IInv, NEW a \in Node, Report(a)
    PROVE  IInv'
<1>1. at' = [at EXCEPT ![a] = Idle] /\ UNCHANGED <<h, e, pushRequest, listIndex, f, box, finish>>
    BY DEF Report, controlVars
<1>2. Idle \in Places /\ PlaceFits(a, Idle, listIndex[a])
    BY PlaceOf, IdleFits
<1>3. Walked(a, pushRequest'[a])
    BY <1>1, <1>2, MovedWalks DEF IInv
<1> QED
    BY <1>1, <1>3, NodeStepKeeps DEF IInv, Types

LEMMA ReceiveAcceptKeeps ==
    ASSUME IInv, NEW a \in Node, ReceiveAccept(a)
    PROVE  IInv'
<1>1. /\ box[a] # << >> /\ Head(box[a]).kind = "accept"
      /\ box' = Taken(box, a) /\ pushRequest' = [pushRequest EXCEPT ![a] = @ - 1]
      /\ PushToNeighbours(a, e[a], pushRequest[a] - 1)
      /\ UNCHANGED <<e, f, finish>>
    BY DEF ReceiveAccept, Receives, Taken, Answered, controlVars
<1>2. BoxesFit(box', h) /\ CountsFit(box', pushRequest') /\ Len(Adj[a]) > 0
    BY <1>1, AnswerTaken DEF IInv, Types
<1>3. /\ pushRequest' \in [Node -> Int] /\ pushRequest'[a] = pushRequest[a] - 1
      /\ pushRequest[a] - 1 \in Int /\ e[a] \in Int
    BY <1>1, PlaceOf DEF IInv, Types
<1>4. Walked(a, pushRequest'[a])
    BY <1>1, <1>2, <1>3, PushToNeighboursWalks DEF IInv
<1> QED
    BY <1>1, <1>2, <1>3, <1>4, NodeStepKeeps DEF IInv, Types

LEMMA ReceiveRejectKeeps ==
    ASSUME IInv, NEW a \in Node, ReceiveReject(a)
    PROVE  IInv'
<1> DEFINE msg   == Head(box[a])
           place == At("undo", msg.x, msg.d, f[msg.x])
<1>1. /\ box[a] # << >> /\ msg.kind = "reject"
      /\ box' = Taken(box, a) /\ pushRequest' = [pushRequest EXCEPT ![a] = @ - 1]
      /\ e' = [e EXCEPT ![a] = @ + msg.d] /\ at' = [at EXCEPT ![a] = place]
      /\ UNCHANGED <<h, listIndex, f, finish>>
    BY DEF ReceiveReject, Receives, Taken, Answered, ExcessBack, controlVars
<1>2. /\ BoxesFit(box', h) /\ CountsFit(box', pushRequest')
      /\ Len(Adj[a]) > 0 /\ msg.x \in Edge /\ msg.d \in Int
    BY <1>1, AnswerTaken DEF IInv, Types
<1> HIDE DEF msg
<1>3. f[msg.x] \in Int /\ msg.x \in Int /\ listIndex[a] <= Len(Adj[a])
    BY <1>2, PlaceOf, NumberFacts DEF IInv, Types
<1>4. place \in Places /\ PlaceFits(a, place, listIndex[a])
    BY <1>2, <1>3 DEF At, Places, Steps, PlaceFits
<1> HIDE DEF place
<1>5. Walked(a, pushRequest'[a])
    BY <1>1, <1>4, MovedWalks DEF IInv
<1>6. e' \in [Node -> Int] /\ pushRequest' \in [Node -> Int]
    BY <1>1, <1>2, PlaceOf DEF IInv, Types
<1> QED
    BY <1>1, <1>2, <1>5, <1>6, NodeStepKeeps DEF IInv, Types

LEMMA UndoKeeps ==
    ASSUME IInv, NEW a \in Node, Undo(a)
    PROVE  IInv'
<1>1. /\ f' = [f EXCEPT ![at[a].x] = Restored(a)]
      /\ PushToNeighbours(a, e[a], pushRequest[a])
      /\ UNCHANGED <<e, pushRequest, box, finish>>
    BY DEF Undo, controlVars
<1>2. /\ at[a].x \in Edge /\ Len(Adj[a]) > 0 /\ at[a].d \in Int /\ at[a].seen \in Int
      /\ e[a] \in Int /\ pushRequest[a] \in Int
    BY PlaceOf DEF Undo, PlaceFits
<1>3. f' \in [Edge -> Int]
    BY <1>1, <1>2 DEF IInv, Types, Restored, FlowPlus
<1>4. Walked(a, pushRequest'[a])
    BY <1>1, <1>2, PushToNeighboursWalks DEF IInv
<1> QED
    BY <1>1, <1>3, <1>4, NodeStepKeeps DEF IInv, Types

LEMMA ReceiveIsDoneKeeps ==
    ASSUME IInv, NEW a \in Node, ReceiveIsDone(a)
    PROVE  IInv'
<1>1. /\ box[a] # << >> /\ Head(box[a]).kind = "isdone" /\ box' = Taken(box, a)
      /\ UNCHANGED <<h, e, pushRequest, listIndex, f, at, finish>>
    BY DEF ReceiveIsDone, Receives, Taken, controlVars
<1>2. BoxesFit(box', h) /\ CountsFit(box', pushRequest')
    BY <1>1, IsDoneTaken DEF IInv, Types
<1>3. Walked(a, pushRequest'[a])
    BY <1>1, PlaceOf DEF IInv, Types, Walked
<1> QED
    BY <1>1, <1>2, <1>3, NodeStepKeeps DEF IInv, Types

\* The nodes' part of the invariant when the controller takes a step.
LEMMA ControlKeeps ==
    ASSUME IInv, UNCHANGED nodeVars, finish' \in 0 .. N - 2
    PROVE  IInv'
BY DEF IInv, nodeVars, Types, BoxesFit, PlacesFit, CountsFit

LEMMA FlowsBecomeFinish ==
    ASSUME NEW in, NEW out, FlowsBecome(in, out)
    PROVE  finish' \in 0 .. N - 2
<1>1. Inner # {} => 1 \in 0 .. N - 2
    BY SizeAssumption DEF Inner, Node, s, t
<1>2. 0 \in 0 .. N - 2
    BY SizeAssumption
<1> QED
    BY <1>1, <1>2 DEF FlowsBecome, Restart

LEMMA ControlStepKeeps ==
    ASSUME IInv, ControlStep
    PROVE  IInv'
<1>0. finish \in 0 .. N - 2 /\ 0 \in 0 .. N - 2
    BY SizeAssumption DEF IInv, Types
<1>1. CASE ReceiveIncomingFlow
    BY <1>1, FlowsBecomeFinish, ControlKeeps DEF ReceiveIncomingFlow
<1>2. CASE ReceiveOutgoingFlow
    BY <1>2, FlowsBecomeFinish, ControlKeeps DEF ReceiveOutgoingFlow
<1>3. CASE SendFinishRequest
  <2>1. /\ finish \in Node /\ finish' \in 0 .. N - 2
        /\ box' = Sent(box, finish, IsDone)
        /\ UNCHANGED <<h, e, pushRequest, listIndex, f, at>>
      BY <1>3, <1>0, SizeAssumption DEF SendFinishRequest, Node
  <2>2. BoxesFit(box', h) /\ CountsFit(box', pushRequest)
      BY <2>1, IsDoneSent DEF IInv, Types
  <2>3. Types'
      BY <2>1, <2>2 DEF IInv, Types, BoxesFit
  <2>4. PlacesFit'
      BY <2>1 DEF IInv, PlacesFit
  <2> QED
      BY <2>1, <2>2, <2>3, <2>4 DEF IInv
<1>4. CASE ReceiveDone
    BY <1>4, <1>0, ControlKeeps DEF ReceiveDone, Restart
<1>5. CASE ReceiveMaxflow
    BY <1>5, <1>0, ControlKeeps DEF ReceiveMaxflow
<1> QED
    BY <1>1, <1>2, <1>3, <1>4, <1>5 DEF ControlStep

LEMMA NextKeeps ==
    IInv /\ [Next]_vars => IInv'
<1> SUFFICES ASSUME IInv, [Next]_vars PROVE IInv'
    OBVIOUS
<1>0. finish \in 0 .. N - 2
    BY DEF IInv, Types
<1>1. CASE \E a \in Node : NodeStep(a)
    BY <1>1, TestKeeps, TakeAmountKeeps, LoadKeeps, StoreKeeps, SendRequestKeeps,
       ReceivePushRequestKeeps, ReportKeeps, ReceiveAcceptKeeps, ReceiveRejectKeeps,
       UndoKeeps, ReceiveIsDoneKeeps, SaturateKeeps, SendFromSourceKeeps DEF NodeStep
<1>2. CASE ControlStep
    BY <1>2, ControlStepKeeps
<1>3. CASE Ask
    BY <1>3, <1>0, ControlKeeps DEF Ask, controlVars
<1>4. CASE Rest
    BY <1>4, <1>0, ControlKeeps DEF Rest, vars, controlVars
<1>5. CASE UNCHANGED vars
    BY <1>5, <1>0, ControlKeeps DEF vars, controlVars
<1> QED
    BY <1>1, <1>2, <1>3, <1>4, <1>5 DEF Next

-----------------------------------------------------------------------------
(* The flow of the nodes, the handlers and the messages.                    *)

\* The flow a message carries, and the messages of a mailbox.
Carried(msg) == IF msg.kind \in {"request", "reject"} THEN msg.d ELSE 0

Mail(q) == SumOver(1 .. Len(q), [i \in 1 .. Len(q) |-> Carried(q[i])])

LEMMA CarriedType == \A msg \in Messages : Carried(msg) \in Int
BY MessageFields DEF Carried

LEMMA MailType ==
    ASSUME NEW q \in Seq(Messages)
    PROVE  Mail(q) \in Int
<1>1. Len(q) \in Nat /\ \A i \in 1 .. Len(q) : q[i] \in Messages
    BY LenProperties, ElementOfSeq
<1>2. IsFiniteSet(1 .. Len(q))
    BY <1>1, FS_Interval
<1> DEFINE g == [i \in 1 .. Len(q) |-> Carried(q[i])]
<1>3. \A i \in 1 .. Len(q) : g[i] \in Int
    BY <1>1, CarriedType
<1> HIDE DEF g
<1>4. SumOver(1 .. Len(q), g) \in Int
    BY <1>2, <1>3, SumType
<1> QED
    BY <1>4 DEF Mail, g

\* A message more at the end of a mailbox.
LEMMA MailAppended ==
    ASSUME NEW q \in Seq(Messages), NEW msg \in Messages, NEW r \in Seq(Messages),
           Len(r) = Len(q) + 1, r[Len(q) + 1] = msg,
           \A i \in 1 .. Len(q) : r[i] = q[i]
    PROVE  Mail(r) = Mail(q) + Carried(msg)
<1> DEFINE old == 1 .. Len(q)
           z == Len(q) + 1
           g == [i \in 1 .. Len(q) |-> Carried(q[i])]
           k == [i \in 1 .. Len(r) |-> Carried(r[i])]
<1>1. Len(q) \in Nat /\ old \cup {z} = 1 .. Len(r) /\ z \notin old
    BY LenProperties
<1>2. \A i \in old : q[i] \in Messages
    BY ElementOfSeq
<1>3. \A i \in old : k[i] = g[i] /\ g[i] \in Int /\ k[i] \in Int
    BY <1>1, <1>2, CarriedType
<1>4. k[z] = Carried(msg) /\ k[z] \in Int
    BY <1>1, CarriedType
<1>5. IsFiniteSet(old)
    BY <1>1, FS_Interval
<1>6. Mail(q) = SumOver(old, g) /\ Mail(r) = SumOver(old \cup {z}, k)
    BY <1>1 DEF Mail
<1> HIDE DEF old, z, g, k
<1>7. SumOver(old \cup {z}, k) = SumOver(old, k) + k[z]
    BY <1>1, <1>3, <1>4, <1>5, SumAdd
<1>8. SumOver(old, g) = SumOver(old, k)
    BY <1>3, <1>5, SumSame
<1> QED
    BY <1>4, <1>6, <1>7, <1>8

\* The first message of a mailbox taken out: the others move up.
LEMMA MailTaken ==
    ASSUME NEW q \in Seq(Messages), q # << >>, NEW r \in Seq(Messages),
           Len(r) = Len(q) - 1, \A i \in 1 .. Len(r) : r[i] = q[i + 1]
    PROVE  Mail(r) = Mail(q) - Carried(q[1])
<1> DEFINE old == 1 .. Len(q)
           new == 1 .. Len(r)
           z == 1
           g == [i \in 1 .. Len(q) |-> Carried(q[i])]
           k == [i \in 1 .. Len(r) |-> Carried(r[i])]
           up == [i \in 1 .. Len(r) |-> i + 1]
<1>1. Len(q) \in Nat /\ Len(r) \in Nat /\ Len(q) = Len(r) + 1 /\ z \in old
    BY LenProperties, EmptySeq
<1>a. \A i \in new : up[i] = i + 1
    OBVIOUS
<1>b. \A i \in new : i + 1 \in old \ {z}
    BY <1>1
<1>2. \A i \in new : up[i] \in old \ {z}
    BY <1>a, <1>b
<1>c. \A j \in old \ {z} : j - 1 \in new /\ (j - 1) + 1 = j
    BY <1>1
<1>3. \A j \in old \ {z} : j - 1 \in new /\ up[j - 1] = j
    BY <1>a, <1>c
<1>4. \A i, j \in new : up[i] = up[j] => i = j
    BY <1>1, <1>a
<1>5. \A i \in old : q[i] \in Messages
    BY ElementOfSeq
<1>6. \A i \in old : g[i] = Carried(q[i]) /\ g[i] \in Int
    BY <1>5, CarriedType
<1>7. \A i \in new : k[i] = g[up[i]] /\ g[up[i]] \in Int /\ k[i] \in Int
    BY <1>2, <1>6
<1>8. IsFiniteSet(new) /\ IsFiniteSet(old)
    BY <1>1, FS_Interval
<1>9. Mail(q) = SumOver(old, g) /\ Mail(r) = SumOver(new, k)
    BY DEF Mail
<1>14. g[z] = Carried(q[1]) /\ g[z] \in Int
    BY <1>1, <1>6
<1> HIDE DEF old, new, z, g, k, up
<1>10. old \ {z} = {up[i] : i \in new}
    BY <1>2, <1>3
<1>11. SumOver(old, g) = SumOver(old \ {z}, g) + g[z]
    BY <1>1, <1>6, <1>8, SumRemove
<1>12. SumOver({up[i] : i \in new}, g) = SumOver(new, k)
    BY <1>4, <1>7, <1>8, SumRenamed
<1>13. SumOver(new, k) \in Int
    BY <1>7, <1>8, SumType
<1>15. SumOver(old, g) = SumOver(new, k) + g[z]
    BY <1>10, <1>11, <1>12, Zenon
<1>16. Mail(q) = Mail(r) + Carried(q[1]) /\ Mail(r) \in Int /\ Carried(q[1]) \in Int
    BY <1>9, <1>13, <1>14, <1>15, Zenon
<1> QED
    BY <1>16

\* Sending and receiving, seen from what the mailboxes carry.
LEMMA MailSent ==
    ASSUME NEW bx \in Boxes, NEW to \in Node, NEW msg \in Messages
    PROVE  /\ Mail(Sent(bx, to, msg)[to]) = Mail(bx[to]) + Carried(msg)
           /\ \A c \in Node : c # to => Sent(bx, to, msg)[c] = bx[c]
<1>1. Sent(bx, to, msg)[to] \in Seq(Messages) /\ bx[to] \in Seq(Messages)
    BY SentFacts DEF Boxes
<1>2. /\ Len(Sent(bx, to, msg)[to]) = Len(bx[to]) + 1
      /\ Sent(bx, to, msg)[to][Len(bx[to]) + 1] = msg
      /\ \A i \in 1 .. Len(bx[to]) : Sent(bx, to, msg)[to][i] = bx[to][i]
      /\ \A c \in Node : c # to => Sent(bx, to, msg)[c] = bx[c]
    BY SentFacts
<1> DEFINE q == bx[to]
           r == Sent(bx, to, msg)[to]
<1> HIDE DEF q, r
<1>3. Mail(r) = Mail(q) + Carried(msg)
    BY <1>1, <1>2, MailAppended DEF q, r
<1> QED
    BY <1>2, <1>3 DEF q, r

LEMMA MailReceived ==
    ASSUME NEW bx \in Boxes, NEW b \in Node, bx[b] # << >>
    PROVE  /\ Mail(Taken(bx, b)[b]) = Mail(bx[b]) - Carried(Head(bx[b]))
           /\ \A c \in Node : c # b => Taken(bx, b)[c] = bx[c]
<1> DEFINE q == bx[b]
           r == Taken(bx, b)[b]
<1>1. r \in Seq(Messages) /\ q \in Seq(Messages) /\ q # << >>
    BY TakenFacts DEF Boxes
<1>2. /\ Len(q) \in Nat /\ Len(r) = Len(q) - 1
      /\ \A i \in 1 .. Len(q) - 1 : r[i] = q[i + 1]
      /\ Head(q) = q[1]
      /\ \A c \in Node : c # b => Taken(bx, b)[c] = bx[c]
    BY TakenFacts
<1> HIDE DEF q, r
<1>3. \A i \in 1 .. Len(r) : r[i] = q[i + 1]
    BY <1>2
<1>4. Mail(r) = Mail(q) - Carried(q[1])
    BY <1>1, <1>2, <1>3, MailTaken
<1> QED
    BY <1>2, <1>4 DEF q, r

\* What a push in progress has taken, by the place of its node.
Hand(pl) == IF pl.step \in {"load", "store", "send"} THEN pl.d ELSE 0

\* A node's share: its excess, what its handler holds and what its mail carries.
Share(ee, pl, bx, a) == ee[a] + Hand(pl[a]) + Mail(bx[a])

Total(ee, pl, bx) == SumOver(Node, [a \in Node |-> Share(ee, pl, bx, a)])

LEMMA ConservedMeans ==
    /\ ExcessIsConserved <=> Total(e, at, box) = 0
    /\ ExcessIsConserved' <=> Total(e', at', box') = 0
BY DEF ExcessIsConserved, Total, Share, InHand, Hand, InMessages, Mail, Carried

LEMMA NodesFinite == IsFiniteSet(Node)
BY NumberFacts, FS_Interval DEF Node

LEMMA ShareType ==
    ASSUME IInv, NEW a \in Node
    PROVE  /\ Share(e, at, box, a) \in Int
           /\ e[a] \in Int /\ Hand(at[a]) \in Int /\ Mail(box[a]) \in Int
<1>1. e[a] \in Int /\ Hand(at[a]) \in Int
    BY PlaceOf DEF Hand
<1>2. Mail(box[a]) \in Int
    BY MailType DEF IInv, Types, Boxes
<1> QED
    BY <1>1, <1>2 DEF Share

\* No node's share changes.
LEMMA SharesStay ==
    ASSUME IInv, \A c \in Node : Share(e', at', box', c) = Share(e, at, box, c)
    PROVE  ExcessIsConserved => ExcessIsConserved'
<1> DEFINE g == [c \in Node |-> Share(e, at, box, c)]
           k == [c \in Node |-> Share(e', at', box', c)]
<1>1. \A c \in Node : g[c] \in Int /\ g[c] = k[c]
    BY ShareType
<1>2. Total(e, at, box) = SumOver(Node, g) /\ Total(e', at', box') = SumOver(Node, k)
    BY DEF Total
<1> HIDE DEF g, k
<1>3. SumOver(Node, g) = SumOver(Node, k)
    BY <1>1, NodesFinite, SumSame
<1> QED
    BY <1>2, <1>3, ConservedMeans

\* Only one node's share is touched, and it comes out the same.
LEMMA OwnShareStays ==
    ASSUME IInv, NEW a \in Node,
           \A c \in Node : c # a =>
             e'[c] = e[c] /\ at'[c] = at[c] /\ box'[c] = box[c],
           Share(e', at', box', a) = Share(e, at, box, a)
    PROVE  ExcessIsConserved => ExcessIsConserved'
<1>1. \A c \in Node : c # a => Share(e', at', box', c) = Share(e, at, box, c)
    BY DEF Share
<1> QED
    BY <1>1, SharesStay

\* d goes from a's share to b's.
LEMMA ShareMoves ==
    ASSUME IInv, NEW a \in Node, NEW b \in Node, a # b, NEW d \in Int,
           \A c \in Node : c \notin {a, b} =>
             e'[c] = e[c] /\ at'[c] = at[c] /\ box'[c] = box[c],
           Share(e', at', box', a) = Share(e, at, box, a) - d,
           Share(e', at', box', b) = Share(e, at, box, b) + d
    PROVE  ExcessIsConserved => ExcessIsConserved'
<1> DEFINE g == [c \in Node |-> Share(e, at, box, c)]
           k == [c \in Node |-> Share(e', at', box', c)]
<1>1. \A c \in Node : g[c] = Share(e, at, box, c) /\ k[c] = Share(e', at', box', c)
    OBVIOUS
<1>2. \A c \in Node : g[c] \in Int
    BY ShareType
<1>3. \A c \in Node : c \notin {a, b} => k[c] = g[c]
    BY <1>1 DEF Share
<1>4. Total(e, at, box) = SumOver(Node, g) /\ Total(e', at', box') = SumOver(Node, k)
    BY DEF Total
<1>5. k[a] = g[a] - d /\ k[b] = g[b] + d
    BY <1>1
<1> HIDE DEF g, k
<1>6. SumOver(Node, k) = SumOver(Node, g)
    BY <1>2, <1>3, <1>5, NodesFinite, SumMove
<1> QED
    BY <1>4, <1>6, ConservedMeans

\* The loop has nothing in hand when it comes to an edge or stops.
LEMMA GoOnHand ==
    ASSUME IInv, NEW a \in Node, NEW ex, NEW rq, NEW ix, GoOn(a, ex, rq, ix)
    PROVE  Hand(at'[a]) = 0 /\ \A c \in Node : c # a => at'[c] = at[c]
<1>1. at \in [Node -> Places]
    BY DEF IInv, Types
<1> DEFINE waits    == ex = 0 \/ (ix = Len(Adj[a]) /\ Pauses(ex, rq))
           relabels == ~waits /\ ix = Len(Adj[a])
           from     == IF relabels THEN 0 ELSE ix
           place    == IF waits THEN Idle ELSE Begin(a, Adj[a][from + 1])
<1>2. at' = [at EXCEPT ![a] = place]
    BY DEF GoOn
<1>3. Hand(Idle) = 0 /\ \A x : Hand(Begin(a, x)) = 0
    BY DEF Hand, Idle, At, Begin
<1> HIDE DEF waits, from
<1>4. Hand(place) = 0
    BY <1>3
<1> QED
    BY <1>1, <1>2, <1>4

LEMMA PushToNeighboursHand ==
    ASSUME IInv, NEW a \in Node, NEW ex, NEW rq, PushToNeighbours(a, ex, rq)
    PROVE  Hand(at'[a]) = 0 /\ \A c \in Node : c # a => at'[c] = at[c]
<1>1. CASE a \notin Inner \/ Pauses(ex, rq)
  <2>1. at \in [Node -> Places] /\ at' = [at EXCEPT ![a] = Idle]
      BY <1>1 DEF IInv, Types, PushToNeighbours
  <2>2. Hand(Idle) = 0
      BY DEF Hand, Idle, At
  <2> QED
      BY <2>1, <2>2
<1>2. CASE ~(a \notin Inner \/ Pauses(ex, rq))
    BY <1>2, GoOnHand DEF PushToNeighbours
<1> QED
    BY <1>1, <1>2

\* The steps inside a handler: what a gives or gets back, it has in hand.
LEMMA HandlerConserves ==
    ASSUME IInv, NEW a \in Node, ExcessIsConserved,
           Test(a) \/ TakeAmount(a) \/ Load(a) \/ Store(a) \/ Report(a) \/ Undo(a)
           \/ (a = s /\ Saturate)
    PROVE  ExcessIsConserved'
<1>0. /\ at \in [Node -> Places] /\ e \in [Node -> Int]
      /\ e[a] \in Int /\ Hand(at[a]) \in Int /\ Mail(box[a]) \in Int
    BY ShareType DEF IInv, Types
<1>1. SUFFICES /\ box' = box
               /\ \A c \in Node : c # a => e'[c] = e[c] /\ at'[c] = at[c]
               /\ e'[a] + Hand(at'[a]) = e[a] + Hand(at[a])
               /\ e'[a] \in Int /\ Hand(at'[a]) \in Int
  <2>1. ASSUME box' = box, e'[a] + Hand(at'[a]) = e[a] + Hand(at[a]),
               e'[a] \in Int, Hand(at'[a]) \in Int
        PROVE  Share(e', at', box', a) = Share(e, at, box, a)
      BY <1>0, <2>1 DEF Share
  <2> QED
      BY <2>1, OwnShareStays
<1>2. CASE Test(a)
  <2>1. Hand(at[a]) = 0 /\ UNCHANGED <<e, box>>
      BY <1>2 DEF Test, Hand
  <2>2. CASE f[at[a].x] < Cap[at[a].x]
    <3>1. at' = [at EXCEPT ![a] = At("amount", at[a].x, 0, 0)]
        BY <1>2, <2>2 DEF Test
    <3>2. Hand(At("amount", at[a].x, 0, 0)) = 0
        BY DEF Hand, At
    <3> QED
        BY <1>0, <2>1, <3>1, <3>2
  <2>3. CASE ~(f[at[a].x] < Cap[at[a].x])
      BY <1>0, <1>2, <2>1, <2>3, GoOnHand DEF Test
  <2> QED
      BY <2>2, <2>3
<1>3. CASE TakeAmount(a)
  <2> DEFINE d == PushAmount(a, at[a].x, e[a], f[at[a].x])
             place == At("load", at[a].x, d, 0)
  <2>1. d \in Int
    <3>1. at[a].x \in Edge
        BY <1>3, PlaceOf, OtherFacts DEF TakeAmount, PlaceFits
    <3>2. f[at[a].x] \in Int /\ Cap[at[a].x] \in Int
        BY <3>1, NumberFacts DEF IInv, Types
    <3> QED
        BY <1>0, <3>2 DEF PushAmount, Lesser
  <2>2. Hand(at[a]) = 0 /\ Hand(place) = d
      BY <1>3 DEF TakeAmount, Hand, At
  <2>3. box' = box /\ e' = [e EXCEPT ![a] = @ - d] /\ at' = [at EXCEPT ![a] = place]
      BY <1>3 DEF TakeAmount
  <2> HIDE DEF d, place
  <2>4. e'[a] = e[a] - d /\ at'[a] = place /\ \A c \in Node : c # a => e'[c] = e[c] /\ at'[c] = at[c]
      BY <1>0, <2>3
  <2> QED
      BY <1>0, <2>1, <2>2, <2>3, <2>4
<1>4. CASE Load(a)
  <2> DEFINE place == At("store", at[a].x, at[a].d, f[at[a].x])
  <2>1. Hand(at[a]) = at[a].d /\ Hand(place) = at[a].d
      BY <1>4 DEF Load, Hand, At
  <2>2. at' = [at EXCEPT ![a] = place] /\ UNCHANGED <<e, box>>
      BY <1>4 DEF Load
  <2> HIDE DEF place
  <2> QED
      BY <1>0, <2>1, <2>2
<1>5. CASE Store(a)
  <2> DEFINE place == At("send", at[a].x, at[a].d, 0)
  <2>1. Hand(at[a]) = at[a].d /\ Hand(place) = at[a].d
      BY <1>5 DEF Store, Hand, At
  <2>2. at' = [at EXCEPT ![a] = place] /\ UNCHANGED <<e, box>>
      BY <1>5 DEF Store
  <2> HIDE DEF place
  <2> QED
      BY <1>0, <2>1, <2>2
<1>6. CASE Report(a)
  <2>1. Hand(at[a]) = 0 /\ Hand(Idle) = 0
      BY <1>6 DEF Report, Hand, Idle, At
  <2>2. at' = [at EXCEPT ![a] = Idle] /\ UNCHANGED <<e, box>>
      BY <1>6 DEF Report
  <2> QED
      BY <1>0, <2>1, <2>2
<1>7. CASE Undo(a)
  <2>1. Hand(at[a]) = 0 /\ UNCHANGED <<e, box>>
      BY <1>7 DEF Undo, Hand
  <2>2. Hand(at'[a]) = 0 /\ \A c \in Node : c # a => at'[c] = at[c]
      BY <1>7, PushToNeighboursHand DEF Undo
  <2> QED
      BY <1>0, <2>1, <2>2
<1>8. CASE a = s /\ Saturate
  <2> DEFINE d == Cap[at[s].x]
             place == At("send", at[s].x, d, 0)
  <2>1. d \in Int
      BY <1>8, PlaceOf, OtherFacts, NumberFacts DEF Saturate, PlaceFits
  <2>2. Hand(at[s]) = 0 /\ Hand(place) = d
      BY <1>8 DEF Saturate, Hand, At
  <2>3. box' = box /\ e' = [e EXCEPT ![s] = @ - d] /\ at' = [at EXCEPT ![s] = place]
      BY <1>8 DEF Saturate
  <2> HIDE DEF d, place
  <2>4. e'[s] = e[s] - d /\ at'[s] = place /\ \A c \in Node : c # s => e'[c] = e[c] /\ at'[c] = at[c]
      BY <1>0, <1>8, <2>3
  <2> QED
      BY <1>0, <1>8, <2>1, <2>2, <2>3, <2>4
<1> QED
    BY <1>2, <1>3, <1>4, <1>5, <1>6, <1>7, <1>8

\* A request leaves with the flow its sender had in hand.
LEMMA RequestConserves ==
    ASSUME IInv, NEW a \in Node, ExcessIsConserved,
           (a # s /\ SendRequest(a)) \/ (a = s /\ SendFromSource)
    PROVE  ExcessIsConserved'
<1> DEFINE x   == at[a].x
           b   == Other(a, x)
           d   == at[a].d
           msg == Request(x, d, h[a])
<1>1. x \in Incident(a) /\ d \in Int /\ h[a] \in Int /\ at[a].step = "send"
    BY PlaceOf DEF SendRequest, SendFromSource, PlaceFits
<1>2. b \in Node /\ b # a /\ x \in Edge
    BY <1>1, OtherFacts
<1>3. msg \in Messages /\ Carried(msg) = d
    BY <1>1, <1>2, MessageFacts DEF Carried, Request
<1>4. box' = Sent(box, b, msg) /\ e' = e
    BY DEF SendRequest, SendFromSource
<1>5. Hand(at[a]) = d
    BY <1>1 DEF Hand
<1>6. Hand(at'[a]) = 0 /\ \A c \in Node : c # a => at'[c] = at[c]
  <2>1. CASE a # s /\ SendRequest(a)
      BY <2>1, GoOnHand DEF SendRequest
  <2>2. CASE a = s /\ SendFromSource
    <3>1. PICK y : at' = [at EXCEPT ![a] = IF y > 0 THEN At("saturate", y, 0, 0) ELSE Idle]
               \/ at' = [at EXCEPT ![a] = At("saturate", y, 0, 0)]
               \/ at' = [at EXCEPT ![a] = Idle]
        BY <2>2 DEF SendFromSource
    <3>2. Hand(Idle) = 0 /\ \A z : Hand(At("saturate", z, 0, 0)) = 0
        BY DEF Hand, Idle, At
    <3>3. at \in [Node -> Places]
        BY DEF IInv, Types
    <3> QED
        BY <3>1, <3>2, <3>3
  <2> QED
      BY <2>1, <2>2
<1> HIDE DEF x, b, d, msg
<1>7. box \in Boxes
    BY DEF IInv, Types
<1>8. Mail(box'[b]) = Mail(box[b]) + d /\ \A c \in Node : c # b => box'[c] = box[c]
    BY <1>2, <1>3, <1>4, <1>7, MailSent
<1>9. Share(e', at', box', a) = Share(e, at, box, a) - d
    BY <1>1, <1>2, <1>4, <1>5, <1>6, <1>8, ShareType DEF Share
<1>10. Share(e', at', box', b) = Share(e, at, box, b) + d
    BY <1>1, <1>2, <1>4, <1>6, <1>8, ShareType DEF Share
<1> QED
    BY <1>1, <1>2, <1>4, <1>6, <1>8, <1>9, <1>10, ShareMoves

\* An accepted request's flow becomes excess, a rejected one's goes back.
LEMMA AnswerConserves ==
    ASSUME IInv, NEW a \in Node, ExcessIsConserved, ReceivePushRequest(a)
    PROVE  ExcessIsConserved'
<1> DEFINE msg    == Head(box[a])
           sender == Other(a, msg.x)
           reply  == IF Accepts(a, msg) THEN Accept ELSE Reject(msg.x, msg.d)
           d      == msg.d
<1>1. box[a] # << >> /\ msg.kind = "request"
    BY DEF ReceivePushRequest, Receives
<1>2. box' = Sent(Taken(box, a), sender, reply)
    BY DEF ReceivePushRequest, Taken
<1>3. /\ msg \in Messages /\ msg.x \in Incident(a) /\ d \in Int /\ msg.x \in Edge
    BY <1>1, TakenFits, MessageFields DEF IInv, Fits
<1>4. sender \in Node /\ sender # a
    BY <1>3, OtherFacts
<1>5. Carried(msg) = d
    BY <1>1 DEF Carried
<1>6. reply \in Messages /\ Carried(reply) = IF Accepts(a, msg) THEN 0 ELSE d
    BY <1>3, MessageFacts DEF Carried, Reject, Accept
<1>7. Hand(at[a]) = 0
    BY DEF ReceivePushRequest, Receives, Idle, At, Hand
<1>8. Hand(at'[a]) = 0 /\ \A c \in Node : c # a => at'[c] = at[c]
  <2>1. CASE Accepts(a, msg) /\ a \in {s, t}
    <3>1. at' = [at EXCEPT ![a] = At("report", 0, 0, 0)] /\ at \in [Node -> Places]
        BY <2>1 DEF ReceivePushRequest, IInv, Types
    <3>2. Hand(At("report", 0, 0, 0)) = 0
        BY DEF Hand, At
    <3> QED
        BY <3>1, <3>2
  <2>2. CASE ~(Accepts(a, msg) /\ a \in {s, t})
    <3>1. PICK ex : PushToNeighbours(a, ex, pushRequest[a])
        BY <2>2 DEF ReceivePushRequest
    <3> QED
        BY <3>1, PushToNeighboursHand
  <2> QED
      BY <2>1, <2>2
<1>9. e' = [e EXCEPT ![a] = IF Accepts(a, msg) THEN @ + d ELSE @]
    BY DEF ReceivePushRequest, IInv, Types
<1>10. /\ \A c \in Node : c # a => e'[c] = e[c]
       /\ e'[a] = IF Accepts(a, msg) THEN e[a] + d ELSE e[a]
    BY <1>9 DEF IInv, Types
<1> HIDE DEF msg, sender, reply, d
<1>11. /\ Mail(Taken(box, a)[a]) = Mail(box[a]) - d
       /\ \A c \in Node : c # a => Taken(box, a)[c] = box[c]
       /\ Taken(box, a) \in Boxes
    BY <1>1, <1>5, MailReceived, TakenFacts DEF IInv, Types, msg
<1>12. /\ Mail(box'[sender]) = Mail(Taken(box, a)[sender]) + Carried(reply)
       /\ \A c \in Node : c # sender => box'[c] = Taken(box, a)[c]
    BY <1>2, <1>4, <1>6, <1>11, MailSent
<1>13. Mail(box'[a]) = Mail(box[a]) - d /\ Mail(box'[sender]) = Mail(box[sender]) + Carried(reply)
    BY <1>4, <1>11, <1>12
<1>14. \A c \in Node : c \notin {a, sender} => box'[c] = box[c]
    BY <1>11, <1>12
<1>15. CASE Accepts(a, msg)
  <2>1. Share(e', at', box', a) = Share(e, at, box, a)
      BY <1>3, <1>7, <1>8, <1>10, <1>13, <1>15, ShareType DEF Share
  <2>2. Share(e', at', box', sender) = Share(e, at, box, sender)
      BY <1>4, <1>6, <1>8, <1>10, <1>13, <1>15, ShareType DEF Share
  <2>3. \A c \in Node : c \notin {a, sender} => Share(e', at', box', c) = Share(e, at, box, c)
      BY <1>8, <1>10, <1>14 DEF Share
  <2> QED
      BY <2>1, <2>2, <2>3, SharesStay
<1>16. CASE ~Accepts(a, msg)
  <2>1. Share(e', at', box', a) = Share(e, at, box, a) - d
      BY <1>3, <1>7, <1>8, <1>10, <1>13, <1>16, ShareType DEF Share
  <2>2. Share(e', at', box', sender) = Share(e, at, box, sender) + d
      BY <1>3, <1>4, <1>6, <1>8, <1>10, <1>13, <1>16, ShareType DEF Share
  <2> QED
      BY <1>3, <1>4, <1>8, <1>10, <1>14, <2>1, <2>2, ShareMoves
<1> QED
    BY <1>15, <1>16

\* The other messages: only a rejected request's answer brings flow.
LEMMA ReceiptConserves ==
    ASSUME IInv, NEW a \in Node, ExcessIsConserved,
           ReceiveAccept(a) \/ ReceiveReject(a) \/ ReceiveIsDone(a)
    PROVE  ExcessIsConserved'
<1> DEFINE msg == Head(box[a])
<1>1. box[a] # << >> /\ box' = Taken(box, a) /\ msg.kind \in {"accept", "reject", "isdone"}
    BY DEF ReceiveAccept, ReceiveReject, ReceiveIsDone, Receives, Taken
<1>2. msg \in Messages /\ Carried(msg) \in Int
    BY <1>1, TakenFits, CarriedType DEF IInv
<1>3. /\ Mail(box'[a]) = Mail(box[a]) - Carried(msg)
      /\ \A c \in Node : c # a => box'[c] = box[c]
    BY <1>1, MailReceived DEF IInv, Types
<1>4. Hand(at[a]) = 0
    BY DEF ReceiveAccept, ReceiveReject, ReceiveIsDone, Receives, Idle, At, Hand
<1>5. /\ Hand(at'[a]) = 0 /\ \A c \in Node : c # a => at'[c] = at[c]
      /\ \A c \in Node : c # a => e'[c] = e[c]
      /\ e'[a] = e[a] + Carried(msg)
  <2>0. e \in [Node -> Int] /\ at \in [Node -> Places] /\ e[a] \in Int
      BY DEF IInv, Types
  <2>1. CASE ReceiveAccept(a)
    <3>1. Carried(msg) = 0 /\ e' = e
        BY <2>1 DEF ReceiveAccept, Receives, Carried
    <3>2. Hand(at'[a]) = 0 /\ \A c \in Node : c # a => at'[c] = at[c]
        BY <2>1, PushToNeighboursHand DEF ReceiveAccept
    <3> QED
        BY <2>0, <3>1, <3>2
  <2>2. CASE ReceiveReject(a)
    <3>1. Carried(msg) = msg.d /\ e' = [e EXCEPT ![a] = @ + msg.d]
          /\ at' = [at EXCEPT ![a] = At("undo", msg.x, msg.d, f[msg.x])]
        BY <2>2 DEF ReceiveReject, Receives, Carried, ExcessBack
    <3>2. Hand(At("undo", msg.x, msg.d, f[msg.x])) = 0
        BY DEF Hand, At
    <3> HIDE DEF msg
    <3> QED
        BY <2>0, <3>1, <3>2
  <2>3. CASE ReceiveIsDone(a)
    <3>1. Carried(msg) = 0 /\ e' = e /\ at' = at
        BY <2>3 DEF ReceiveIsDone, Receives, Carried
    <3> QED
        BY <2>0, <1>4, <3>1
  <2> QED
      BY <2>1, <2>2, <2>3
<1> HIDE DEF msg
<1>6. Share(e', at', box', a) = Share(e, at, box, a)
    BY <1>2, <1>3, <1>4, <1>5, ShareType DEF Share
<1> QED
    BY <1>3, <1>5, <1>6, OwnShareStays

LEMMA ControlConserves ==
    ASSUME IInv, ExcessIsConserved, ControlStep \/ Ask \/ Rest \/ UNCHANGED vars
    PROVE  ExcessIsConserved'
<1>1. CASE SendFinishRequest
  <2>1. finish \in Node /\ box' = Sent(box, finish, IsDone) /\ UNCHANGED <<e, at>>
      BY <1>1, SizeAssumption DEF SendFinishRequest, Node, IInv, Types
  <2>2. Carried(IsDone) = 0 /\ IsDone \in Messages
      BY MessageFacts DEF Carried
  <2>3. /\ Mail(box'[finish]) = Mail(box[finish]) + 0
        /\ \A c \in Node : c # finish => box'[c] = box[c]
      BY <2>1, <2>2, MailSent DEF IInv, Types
  <2>4. Share(e', at', box', finish) = Share(e, at, box, finish)
      BY <2>1, <2>3, ShareType DEF Share
  <2> QED
      BY <2>1, <2>3, <2>4, OwnShareStays
<1>2. CASE ~SendFinishRequest
  <2>1. UNCHANGED <<e, at, box>>
      BY <1>2 DEF ControlStep, ReceiveIncomingFlow, ReceiveOutgoingFlow, ReceiveDone,
                  ReceiveMaxflow, Ask, Rest, vars, nodeVars
  <2> QED
      BY <2>1, SharesStay
<1> QED
    BY <1>1, <1>2

-----------------------------------------------------------------------------
(* What the sink has never falls below nothing.  Only one actor writes the  *)
(* flow of an edge to the sink, its other end point, for the sink sends no  *)
(* request: on these edges nothing races, a push has room, and what the     *)
(* sink accepts is natural.                                                 *)

\* x leads from the inner node a to the sink.
ToSink(a, x) == a \in Inner /\ x \in Incident(a) /\ Other(a, x) = t

\* What x can still carry from a when its flow is fx.
Room(a, x, fx) == IF EdgeU[x] = a THEN Cap[x] - fx ELSE fx + Cap[x]

RoomLeft(ff) == \A a \in Node : \A x \in Edge : ToSink(a, x) => Room(a, x, ff[x]) >= 0

\* A node whose excess is ee pushes only what it has, and what it read of an
\* edge to the sink is still so.
PlaceGood(a, pl, ee, ff) ==
    /\ pl.step \in {"test", "amount"} => ee > 0
    /\ pl.step \in {"load", "store", "send"} /\ a # s => ee >= 0
    /\ pl.step = "undo" => a # t /\ pl.x \in Incident(a)
    /\ pl.step \in {"load", "store", "send", "undo"} /\ Other(a, pl.x) = t => pl.d >= 0
    /\ ToSink(a, pl.x) =>
         /\ pl.step \in {"load", "store"} => pl.d <= Room(a, pl.x, ff[pl.x])
         /\ pl.step \in {"store", "undo"} => pl.seen = ff[pl.x]

PlacesGood == \A a \in Node : PlaceGood(a, at[a], e[a], f)

\* What the sink is sent and what it sends back is natural.
MailGood(b, msg) ==
    /\ msg.kind = "request" /\ b = t => msg.d >= 0
    /\ msg.kind = "reject" => msg.x \in Incident(b) /\ (Other(b, msg.x) = t => msg.d >= 0)

BoxesGood(bx) == \A b \in Node : \A i \in 1 .. Len(bx[b]) : MailGood(b, bx[b][i])

SinkInv ==
    /\ \A a \in Node : h[a] >= 0
    /\ e[t] >= 0
    /\ pushRequest[t] = 0
    /\ RoomLeft(f)
    /\ PlacesGood
    /\ BoxesGood(box)

LEMMA SentGood ==
    ASSUME NEW bx \in Boxes, BoxesGood(bx), NEW to \in Node, NEW msg \in Messages,
           MailGood(to, msg)
    PROVE  BoxesGood(Sent(bx, to, msg))
<1> DEFINE new == Sent(bx, to, msg)
<1>1. SUFFICES ASSUME NEW b \in Node, NEW i \in 1 .. Len(new[b])
               PROVE  MailGood(b, new[b][i])
    BY DEF BoxesGood
<1>2. CASE b # to
    BY <1>2, SentFacts DEF BoxesGood
<1>3. CASE b = to
  <2>1. i \in 1 .. Len(bx[to]) \/ i = Len(bx[to]) + 1
      BY <1>3, SentFacts
  <2> QED
      BY <2>1, <1>3, SentFacts DEF BoxesGood
<1> QED
    BY <1>2, <1>3

LEMMA TakenGood ==
    ASSUME NEW bx \in Boxes, BoxesGood(bx), NEW b \in Node, bx[b] # << >>
    PROVE  BoxesGood(Taken(bx, b)) /\ MailGood(b, Head(bx[b]))
<1> DEFINE new == Taken(bx, b)
<1>1. MailGood(b, Head(bx[b]))
    BY TakenFacts DEF BoxesGood
<1>2. ASSUME NEW c \in Node, NEW i \in 1 .. Len(new[c])
      PROVE  MailGood(c, new[c][i])
  <2>1. CASE c # b
      BY <2>1, <1>2, TakenFacts DEF BoxesGood
  <2>2. CASE c = b
    <3>1. i \in 1 .. Len(bx[b]) - 1 /\ i + 1 \in 1 .. Len(bx[b])
        BY <2>2, <1>2, TakenFacts
    <3> QED
        BY <3>1, <2>2, TakenFacts DEF BoxesGood
  <2> QED
      BY <2>1, <2>2
<1> QED
    BY <1>1, <1>2 DEF BoxesGood

\* No answer comes to the sink, which asks nothing.
LEMMA SinkAsksNothing ==
    ASSUME IInv, SinkInv, box[t] # << >>
    PROVE  Head(box[t]).kind \notin {"accept", "reject"}
<1>1. t \in Node
    BY NodeFacts
<1>2. 1 \in 1 .. Len(box[t]) /\ Head(box[t]) = box[t][1]
    BY <1>1, TakenFacts DEF IInv, Types
<1>3. IsFiniteSet(OutstandingIn(box, t)) /\ Cardinality(OutstandingIn(box, t)) = 0
    BY <1>1 DEF IInv, CountsFit, Counts, SinkInv
<1>4. OutstandingIn(box, t) = {}
    BY <1>3, FS_EmptySet
<1>5. ~Concerns(t, t, box[t][1])
    BY <1>1, <1>2, <1>4, OutstandingMember
<1> QED
    BY <1>2, <1>5 DEF Concerns

\* The other end points' edges to the sink are not a's.
LEMMA OwnEdge ==
    ASSUME NEW a \in Node, a # t, NEW x \in Incident(a),
           NEW c \in Node, c # a, NEW y, ToSink(c, y)
    PROVE  y # x
<1>1. CASE y = x
  <2>1. x \in Edge /\ a \in {EdgeU[x], EdgeV[x]} /\ c \in {EdgeU[x], EdgeV[x]}
      BY <1>1 DEF ToSink, Incident
  <2>2. Other(c, x) = a
      BY <2>1, EndPoints
  <2> QED
      BY <1>1, <2>2 DEF ToSink
<1> QED
    BY <1>1

LEMMA RoomType ==
    ASSUME NEW a, NEW x \in Edge, NEW fx \in Int
    PROVE  Room(a, x, fx) \in Int
BY NumberFacts DEF Room

\* What the step of a node must show.
LEMMA SinkStepKeeps ==
    ASSUME IInv, SinkInv, NEW a \in Node,
           \A c \in Node : c # a => e'[c] = e[c] /\ at'[c] = at[c],
           \/ f' = f
           \/ /\ a # t
              /\ \E x \in Incident(a) :
                   /\ \A y \in Edge : y # x => f'[y] = f[y]
                   /\ ToSink(a, x) => Room(a, x, f'[x]) >= 0,
           PlaceGood(a, at'[a], e'[a], f'),
           a = t => e'[a] >= 0,
           \A c \in Node : h'[c] >= 0,
           pushRequest'[t] = 0,
           BoxesGood(box')
    PROVE  SinkInv'
<1>1. ASSUME NEW c \in Node, c # a, NEW y \in Edge, ToSink(c, y)
      PROVE  f'[y] = f[y]
    BY <1>1, OwnEdge
<1>2. PlacesGood'
  <2>1. ASSUME NEW c \in Node, c # a PROVE PlaceGood(c, at'[c], e'[c], f')
    <3>1. PlaceGood(c, at[c], e[c], f)
        BY DEF SinkInv, PlacesGood
    <3>2. ToSink(c, at[c].x) => at[c].x \in Edge
        BY DEF ToSink, Incident
    <3>3. ToSink(c, at[c].x) => f'[at[c].x] = f[at[c].x]
        BY <3>2, <2>1, <1>1
    <3>4. PlaceGood(c, at[c], e[c], f')
        BY <3>1, <3>3 DEF PlaceGood
    <3> QED
        BY <2>1, <3>4
  <2> QED
      BY <2>1 DEF PlacesGood
<1>3. RoomLeft(f')
  <2>1. SUFFICES ASSUME NEW c \in Node, NEW y \in Edge, ToSink(c, y)
                 PROVE  Room(c, y, f'[y]) >= 0
      BY DEF RoomLeft
  <2>2. Room(c, y, f[y]) >= 0
      BY <2>1 DEF SinkInv, RoomLeft
  <2>3. CASE f'[y] = f[y]
      BY <2>2, <2>3
  <2>4. CASE f'[y] # f[y]
    <3>1. c = a
        BY <2>1, <2>4, <1>1
    <3> QED
        BY <2>1, <2>4, <3>1
  <2> QED
      BY <2>3, <2>4
<1>4. e'[t] >= 0
    BY NodeFacts DEF SinkInv
<1>5. RoomLeft(f)'
    BY <1>3 DEF RoomLeft
<1> QED
    BY <1>2, <1>4, <1>5 DEF SinkInv, BoxesGood

\* The loop goes on with excess only, and nobody gets lower.
LEMMA GoOnGood ==
    ASSUME IInv, SinkInv, NEW a \in Node, NEW ex \in Int, ex >= 0, NEW rq, NEW ix, NEW ff,
           GoOn(a, ex, rq, ix)
    PROVE  /\ PlaceGood(a, at'[a], ex, ff)
           /\ \A c \in Node : h'[c] >= 0
           /\ \A c \in Node : c # a => at'[c] = at[c]
<1> DEFINE waits    == ex = 0 \/ (ix = Len(Adj[a]) /\ Pauses(ex, rq))
           relabels == ~waits /\ ix = Len(Adj[a])
           from     == IF relabels THEN 0 ELSE ix
           place    == IF waits THEN Idle ELSE Begin(a, Adj[a][from + 1])
<1>1. /\ h' = [h EXCEPT ![a] = IF relabels THEN @ + 1 ELSE @]
      /\ at' = [at EXCEPT ![a] = place]
    BY DEF GoOn
<1>2. ~waits => ex > 0
    OBVIOUS
<1>3. PlaceGood(a, Idle, ex, ff)
    BY DEF PlaceGood, Idle, At
<1>4. ex > 0 => \A x : PlaceGood(a, Begin(a, x), ex, ff)
    BY DEF PlaceGood, Begin, At
<1> HIDE DEF waits, relabels, from
<1>5. PlaceGood(a, place, ex, ff)
    BY <1>2, <1>3, <1>4
<1> HIDE DEF place
<1>6. h \in [Node -> Int] /\ at \in [Node -> Places] /\ \A c \in Node : h[c] >= 0
    BY DEF IInv, Types, SinkInv
<1> QED
    BY <1>1, <1>5, <1>6

LEMMA PushToNeighboursGood ==
    ASSUME IInv, SinkInv, NEW a \in Node, NEW ex \in Int, NEW rq \in Int, NEW ff,
           PushToNeighbours(a, ex, rq)
    PROVE  /\ PlaceGood(a, at'[a], ex, ff)
           /\ \A c \in Node : h'[c] >= 0
           /\ \A c \in Node : c # a => at'[c] = at[c]
<1>1. CASE a \notin Inner \/ Pauses(ex, rq)
  <2>1. at' = [at EXCEPT ![a] = Idle] /\ h' = h
      BY <1>1 DEF PushToNeighbours
  <2>2. at \in [Node -> Places] /\ \A c \in Node : h[c] >= 0
      BY DEF IInv, Types, SinkInv
  <2>3. PlaceGood(a, Idle, ex, ff)
      BY DEF PlaceGood, Idle, At
  <2> QED
      BY <2>1, <2>2, <2>3
<1>2. CASE ~(a \notin Inner \/ Pauses(ex, rq))
  <2>1. ex >= 0 /\ GoOn(a, ex, rq, listIndex[a])
      BY <1>2 DEF PushToNeighbours, Pauses
  <2> QED
      BY <2>1, GoOnGood
<1> QED
    BY <1>1, <1>2

\* What SinkInv says of a node and its place, and what most steps leave alone.
LEMMA GoodPlaceOf ==
    ASSUME IInv, SinkInv, NEW a \in Node
    PROVE  /\ PlaceGood(a, at[a], e[a], f)
           /\ e \in [Node -> Int] /\ at \in [Node -> Places] /\ f \in [Edge -> Int]
           /\ pushRequest \in [Node -> Int] /\ box \in Boxes
           /\ \A c \in Node : h[c] >= 0
           /\ e[t] >= 0 /\ pushRequest[t] = 0
           /\ BoxesGood(box)
BY DEF SinkInv, PlacesGood, IInv, Types

LEMMA SaturateGood ==
    ASSUME IInv, SinkInv, Saturate
    PROVE  SinkInv'
<1> DEFINE x     == at[s].x
           place == At("send", x, Cap[x], 0)
<1>1. s \in Node /\ s # t /\ x \in Incident(s) /\ x \in Edge
    BY PlaceOf, NodeFacts, OtherFacts DEF Saturate, PlaceFits
<1>2. Cap[x] \in Int /\ Cap[x] >= 0
    BY <1>1, EdgeAssumption
<1>3. /\ at' = [at EXCEPT ![s] = place] /\ UNCHANGED <<h, pushRequest, box>>
      /\ f' = [f EXCEPT ![x] = Cap[x]] /\ e' = [e EXCEPT ![s] = @ - Cap[x]]
    BY DEF Saturate
<1>4. ~\E y : ToSink(s, y)
    BY NodeFacts DEF ToSink
<1>5. PlaceGood(s, place, e'[s], f')
    BY <1>2, <1>4 DEF PlaceGood, At
<1> HIDE DEF x, place
<1>6. at'[s] = place /\ \A c \in Node : c # s => e'[c] = e[c] /\ at'[c] = at[c]
    BY <1>1, <1>3, GoodPlaceOf
<1>7. \A y \in Edge : y # x => f'[y] = f[y]
    BY <1>3, <1>1, GoodPlaceOf
<1> QED
    BY <1>1, <1>3, <1>4, <1>5, <1>6, <1>7, SinkStepKeeps, GoodPlaceOf

LEMMA TestGood ==
    ASSUME IInv, SinkInv, NEW a \in Node, Test(a)
    PROVE  SinkInv'
<1>1. e[a] \in Int /\ e[a] > 0 /\ a # t
    BY PlaceOf, GoodPlaceOf, NodeFacts DEF Test, PlaceGood, PlaceFits
<1>2. UNCHANGED <<e, pushRequest, f, box>>
    BY DEF Test
<1>3. /\ PlaceGood(a, at'[a], e[a], f) /\ \A c \in Node : h'[c] >= 0
      /\ \A c \in Node : c # a => at'[c] = at[c]
  <2>1. CASE f[at[a].x] < Cap[at[a].x]
    <3> DEFINE place == At("amount", at[a].x, 0, 0)
    <3>1. at' = [at EXCEPT ![a] = place] /\ h' = h
        BY <2>1 DEF Test
    <3>2. PlaceGood(a, place, e[a], f)
        BY <1>1 DEF PlaceGood, At
    <3> HIDE DEF place
    <3> QED
        BY <3>1, <3>2, GoodPlaceOf
  <2>2. CASE ~(f[at[a].x] < Cap[at[a].x])
    <3>1. e[a] >= 0 /\ GoOn(a, e[a], pushRequest[a], listIndex[a] + 1)
        BY <1>1, <2>2 DEF Test
    <3> QED
        BY <1>1, <3>1, GoOnGood
  <2> QED
      BY <2>1, <2>2
<1> QED
    BY <1>1, <1>2, <1>3, SinkStepKeeps, GoodPlaceOf

LEMMA TakeAmountGood ==
    ASSUME IInv, SinkInv, NEW a \in Node, TakeAmount(a)
    PROVE  SinkInv'
<1> DEFINE x     == at[a].x
           d     == PushAmount(a, x, e[a], f[x])
           place == At("load", x, d, 0)
<1>1. a \in Inner /\ a # s /\ a # t /\ x \in Incident(a) /\ x \in Edge
    BY PlaceOf, NodeFacts, OtherFacts DEF TakeAmount, PlaceFits
<1>2. e[a] \in Int /\ e[a] > 0 /\ f[x] \in Int
    BY <1>1, GoodPlaceOf DEF TakeAmount, PlaceGood
<1>3. d = Lesser(e[a], Room(a, x, f[x]))
    BY DEF PushAmount, Room
<1>4. Room(a, x, f[x]) \in Int /\ (ToSink(a, x) => Room(a, x, f[x]) >= 0)
    BY <1>1, <1>2, RoomType DEF SinkInv, RoomLeft
<1>5. /\ e' = [e EXCEPT ![a] = @ - d] /\ at' = [at EXCEPT ![a] = place]
      /\ UNCHANGED <<h, pushRequest, f, box>>
    BY DEF TakeAmount
<1>6. Other(a, x) = t => ToSink(a, x)
    BY <1>1 DEF ToSink
<1> HIDE DEF d, x
<1>7. /\ d \in Int /\ d <= e[a]
      /\ ToSink(a, x) => d >= 0 /\ d <= Room(a, x, f[x])
    BY <1>2, <1>3, <1>4 DEF Lesser
<1>8. e'[a] = e[a] - d /\ \A c \in Node : c # a => e'[c] = e[c]
    BY <1>5, GoodPlaceOf
<1>9. e'[a] >= 0
    BY <1>2, <1>7, <1>8
<1>10. PlaceGood(a, place, e'[a], f)
    BY <1>6, <1>7, <1>9 DEF PlaceGood, At
<1> HIDE DEF place
<1>11. at'[a] = place /\ \A c \in Node : c # a => at'[c] = at[c]
    BY <1>5, GoodPlaceOf
<1> QED
    BY <1>1, <1>5, <1>8, <1>10, <1>11, SinkStepKeeps, GoodPlaceOf

LEMMA LoadGood ==
    ASSUME IInv, SinkInv, NEW a \in Node, Load(a)
    PROVE  SinkInv'
<1> DEFINE place == At("store", at[a].x, at[a].d, f[at[a].x])
<1>1. /\ at' = [at EXCEPT ![a] = place] /\ UNCHANGED <<h, e, pushRequest, f, box>>
      /\ at[a].step = "load"
    BY DEF Load
<1>2. PlaceGood(a, place, e[a], f)
    BY <1>1, GoodPlaceOf DEF PlaceGood, At
<1>3. a # t
    BY <1>1, PlaceOf, NodeFacts DEF PlaceFits
<1> HIDE DEF place
<1>4. at'[a] = place /\ \A c \in Node : c # a => at'[c] = at[c]
    BY <1>1, GoodPlaceOf
<1> QED
    BY <1>1, <1>2, <1>3, <1>4, SinkStepKeeps, GoodPlaceOf

LEMMA StoreGood ==
    ASSUME IInv, SinkInv, NEW a \in Node, Store(a)
    PROVE  SinkInv'
<1> DEFINE x     == at[a].x
           d     == at[a].d
           fx    == FlowPlus(a, x, at[a].seen, d)
           place == At("send", x, d, 0)
<1>1. /\ a \in Inner /\ a # s /\ a # t /\ x \in Incident(a) /\ x \in Edge
      /\ d \in Int /\ at[a].seen \in Int
    BY PlaceOf, NodeFacts, OtherFacts DEF Store, PlaceFits
<1>2. PlaceGood(a, at[a], e[a], f) /\ at[a].step = "store"
    BY GoodPlaceOf DEF Store
<1>3. /\ at' = [at EXCEPT ![a] = place] /\ f' = [f EXCEPT ![x] = fx]
      /\ UNCHANGED <<h, e, pushRequest, box>>
    BY DEF Store
<1>4. PlaceGood(a, place, e[a], f')
    BY <1>2 DEF PlaceGood, At
<1>5. ToSink(a, x) => d <= Room(a, x, at[a].seen)
    BY <1>2 DEF PlaceGood
<1>6. ToSink(a, x) => Room(a, x, fx) >= 0
    BY <1>1, <1>5, EdgeAssumption DEF Room, FlowPlus
<1> HIDE DEF place, fx, x, d
<1>7. at'[a] = place /\ \A c \in Node : c # a => at'[c] = at[c]
    BY <1>3, GoodPlaceOf
<1>8. f'[x] = fx /\ \A y \in Edge : y # x => f'[y] = f[y]
    BY <1>1, <1>3, GoodPlaceOf
<1> QED
    BY <1>1, <1>3, <1>4, <1>6, <1>7, <1>8, SinkStepKeeps, GoodPlaceOf

LEMMA RequestGood ==
    ASSUME IInv, SinkInv, NEW a \in Node,
           (a # s /\ SendRequest(a)) \/ (a = s /\ SendFromSource)
    PROVE  SinkInv'
<1> DEFINE x   == at[a].x
           b   == Other(a, x)
           d   == at[a].d
           msg == Request(x, d, h[a])
<1>1. /\ x \in Incident(a) /\ d \in Int /\ h[a] \in Int /\ at[a].step = "send"
      /\ a # t /\ e[a] \in Int
    BY PlaceOf, NodeFacts DEF SendRequest, SendFromSource, PlaceFits
<1>2. b \in Node /\ x \in Edge
    BY <1>1, OtherFacts
<1>3. b = t => d >= 0
    BY <1>1, GoodPlaceOf DEF PlaceGood
<1>4. msg \in Messages
    BY <1>1, <1>2, MessageFacts
<1>5. MailGood(b, msg)
    BY <1>3 DEF MailGood, Request
<1>6. /\ box' = Sent(box, b, msg) /\ UNCHANGED <<e, f>>
      /\ pushRequest' = [pushRequest EXCEPT ![a] = @ + 1]
    BY DEF SendRequest, SendFromSource
<1> HIDE DEF x, b, d, msg
<1>7. BoxesGood(box')
    BY <1>2, <1>4, <1>5, <1>6, SentGood, GoodPlaceOf
<1>8. pushRequest'[t] = 0
    BY <1>1, <1>6, GoodPlaceOf, NodeFacts
<1>9. /\ PlaceGood(a, at'[a], e[a], f) /\ \A c \in Node : h'[c] >= 0
      /\ \A c \in Node : c # a => at'[c] = at[c]
  <2>1. CASE a # s /\ SendRequest(a)
    <3>1. e[a] >= 0
        BY <2>1, <1>1, GoodPlaceOf DEF PlaceGood
    <3> QED
        BY <2>1, <3>1, <1>1, GoOnGood DEF SendRequest
  <2>2. CASE a = s /\ SendFromSource
    <3>1. PICK y : at' = [at EXCEPT ![a] = At("saturate", y, 0, 0)]
               \/ at' = [at EXCEPT ![a] = Idle]
        BY <2>2 DEF SendFromSource
    <3>2. PlaceGood(a, Idle, e[a], f) /\ \A z : PlaceGood(a, At("saturate", z, 0, 0), e[a], f)
        BY DEF PlaceGood, Idle, At
    <3>3. h' = h
        BY <2>2 DEF SendFromSource
    <3> QED
        BY <3>1, <3>2, <3>3, GoodPlaceOf
  <2> QED
      BY <2>1, <2>2
<1> QED
    BY <1>1, <1>6, <1>7, <1>8, <1>9, SinkStepKeeps

LEMMA ReceivePushRequestGood ==
    ASSUME IInv, SinkInv, NEW a \in Node, ReceivePushRequest(a)
    PROVE  SinkInv'
<1> DEFINE msg    == Head(box[a])
           sender == Other(a, msg.x)
           reply  == IF Accepts(a, msg) THEN Accept ELSE Reject(msg.x, msg.d)
           d      == msg.d
<1>1. box[a] # << >> /\ msg.kind = "request"
    BY DEF ReceivePushRequest, Receives
<1>2. box' = Sent(Taken(box, a), sender, reply) /\ UNCHANGED <<pushRequest, f>>
    BY DEF ReceivePushRequest, Taken
<1>3. /\ msg \in Messages /\ msg.x \in Incident(a) /\ d \in Int /\ msg.x \in Edge
    BY <1>1, TakenFits, MessageFields DEF IInv, Fits
<1>4. sender \in Node /\ msg.x \in Incident(sender) /\ Other(sender, msg.x) = a
    BY <1>3, OtherFacts
<1>5. BoxesGood(Taken(box, a)) /\ Taken(box, a) \in Boxes /\ MailGood(a, msg)
    BY <1>1, TakenGood, TakenFacts, GoodPlaceOf
<1>6. a = t => d >= 0
    BY <1>1, <1>5 DEF MailGood
<1>7. reply \in Messages /\ MailGood(sender, reply)
    BY <1>3, <1>4, <1>6, MessageFacts DEF MailGood, Accept, Reject
<1>8. BoxesGood(box')
    BY <1>2, <1>4, <1>5, <1>7, SentGood
<1>9. e' = [e EXCEPT ![a] = IF Accepts(a, msg) THEN @ + d ELSE @]
    BY DEF ReceivePushRequest, IInv, Types
<1>10. /\ e[a] \in Int /\ pushRequest[a] \in Int
    BY PlaceOf
<1>11. /\ \A c \in Node : c # a => e'[c] = e[c]
       /\ e'[a] = IF Accepts(a, msg) THEN e[a] + d ELSE e[a]
    BY <1>9, GoodPlaceOf
<1>12. /\ PlaceGood(a, at'[a], e'[a], f) /\ \A c \in Node : h'[c] >= 0
       /\ \A c \in Node : c # a => at'[c] = at[c]
  <2>1. CASE Accepts(a, msg) /\ a \in {s, t}
    <3>1. at' = [at EXCEPT ![a] = At("report", 0, 0, 0)] /\ h' = h
        BY <2>1 DEF ReceivePushRequest
    <3>2. PlaceGood(a, At("report", 0, 0, 0), e'[a], f)
        BY DEF PlaceGood, At
    <3> HIDE DEF msg, d
    <3> QED
        BY <3>1, <3>2, GoodPlaceOf
  <2>2. CASE Accepts(a, msg) /\ a \notin {s, t}
    <3>1. PushToNeighbours(a, e[a] + d, pushRequest[a])
        BY <2>2 DEF ReceivePushRequest
    <3>2. e[a] + d \in Int /\ e'[a] = e[a] + d
        BY <2>2, <1>3, <1>10, <1>11
    <3> HIDE DEF msg, d
    <3> QED
        BY <3>1, <3>2, <1>10, PushToNeighboursGood
  <2>3. CASE ~Accepts(a, msg)
    <3>1. PushToNeighbours(a, e[a], pushRequest[a])
        BY <2>3 DEF ReceivePushRequest
    <3>2. e'[a] = e[a]
        BY <2>3, <1>11
    <3> HIDE DEF msg, d
    <3> QED
        BY <3>1, <3>2, <1>10, PushToNeighboursGood
  <2> QED
      BY <2>1, <2>2, <2>3
<1> HIDE DEF msg, sender, reply, d
<1>13. a = t => e'[a] >= 0
    BY <1>3, <1>6, <1>10, <1>11, GoodPlaceOf
<1> QED
    BY <1>2, <1>8, <1>11, <1>12, <1>13, SinkStepKeeps, GoodPlaceOf

LEMMA ReportGood ==
    ASSUME IInv, SinkInv, NEW a \in Node, Report(a)
    PROVE  SinkInv'
<1>1. at' = [at EXCEPT ![a] = Idle] /\ UNCHANGED <<h, e, pushRequest, f, box>>
    BY DEF Report
<1>2. PlaceGood(a, Idle, e[a], f)
    BY DEF PlaceGood, Idle, At
<1>3. at'[a] = Idle /\ \A c \in Node : c # a => at'[c] = at[c]
    BY <1>1, GoodPlaceOf
<1> QED
    BY <1>1, <1>2, <1>3, SinkStepKeeps, GoodPlaceOf

LEMMA ReceiveAcceptGood ==
    ASSUME IInv, SinkInv, NEW a \in Node, ReceiveAccept(a)
    PROVE  SinkInv'
<1>1. /\ box[a] # << >> /\ Head(box[a]).kind = "accept"
      /\ box' = Taken(box, a) /\ pushRequest' = [pushRequest EXCEPT ![a] = @ - 1]
      /\ PushToNeighbours(a, e[a], pushRequest[a] - 1)
      /\ UNCHANGED <<e, f>>
    BY DEF ReceiveAccept, Receives, Taken, Answered
<1>2. a # t
    BY <1>1, SinkAsksNothing
<1>3. pushRequest'[t] = 0
    BY <1>1, <1>2, NodeFacts, GoodPlaceOf
<1>4. BoxesGood(box')
    BY <1>1, TakenGood, GoodPlaceOf
<1>5. e[a] \in Int /\ pushRequest[a] - 1 \in Int
    BY PlaceOf
<1>6. /\ PlaceGood(a, at'[a], e[a], f) /\ \A c \in Node : h'[c] >= 0
      /\ \A c \in Node : c # a => at'[c] = at[c]
    BY <1>1, <1>5, PushToNeighboursGood
<1> QED
    BY <1>1, <1>2, <1>3, <1>4, <1>6, SinkStepKeeps

LEMMA ReceiveRejectGood ==
    ASSUME IInv, SinkInv, NEW a \in Node, ReceiveReject(a)
    PROVE  SinkInv'
<1> DEFINE msg   == Head(box[a])
           place == At("undo", msg.x, msg.d, f[msg.x])
<1>1. /\ box[a] # << >> /\ msg.kind = "reject"
      /\ box' = Taken(box, a) /\ pushRequest' = [pushRequest EXCEPT ![a] = @ - 1]
      /\ e' = [e EXCEPT ![a] = @ + msg.d] /\ at' = [at EXCEPT ![a] = place]
      /\ UNCHANGED <<h, f>>
    BY DEF ReceiveReject, Receives, Taken, Answered, ExcessBack
<1>2. a # t
    BY <1>1, SinkAsksNothing
<1>3. pushRequest'[t] = 0
    BY <1>1, <1>2, NodeFacts, GoodPlaceOf
<1>4. BoxesGood(box') /\ MailGood(a, msg)
    BY <1>1, TakenGood, GoodPlaceOf
<1>5. msg.x \in Incident(a) /\ (Other(a, msg.x) = t => msg.d >= 0)
    BY <1>1, <1>4 DEF MailGood
<1>6. PlaceGood(a, place, e'[a], f)
    BY <1>2, <1>5 DEF PlaceGood, At
<1> HIDE DEF msg, place
<1>7. at'[a] = place /\ \A c \in Node : c # a => at'[c] = at[c] /\ e'[c] = e[c]
    BY <1>1, GoodPlaceOf
<1> QED
    BY <1>1, <1>2, <1>3, <1>4, <1>6, <1>7, SinkStepKeeps, GoodPlaceOf

LEMMA UndoGood ==
    ASSUME IInv, SinkInv, NEW a \in Node, Undo(a)
    PROVE  SinkInv'
<1> DEFINE x == at[a].x
           d == at[a].d
<1>1. /\ f' = [f EXCEPT ![x] = Restored(a)]
      /\ PushToNeighbours(a, e[a], pushRequest[a])
      /\ UNCHANGED <<e, pushRequest, box>>
      /\ at[a].step = "undo"
    BY DEF Undo
<1>2. a # t /\ x \in Incident(a) /\ x \in Edge
    BY <1>1, GoodPlaceOf, OtherFacts DEF PlaceGood
<1>3. d \in Int /\ at[a].seen \in Int /\ e[a] \in Int /\ pushRequest[a] \in Int
    BY PlaceOf
<1>4. ToSink(a, x) => at[a].seen = f[x] /\ d >= 0 /\ Room(a, x, f[x]) >= 0
    BY <1>1, <1>2, GoodPlaceOf DEF PlaceGood, ToSink, SinkInv, RoomLeft
<1>5. ToSink(a, x) => Room(a, x, Restored(a)) >= 0
    BY <1>2, <1>3, <1>4, EdgeAssumption DEF Room, Restored, FlowPlus
<1> HIDE DEF x, d
<1>6. f'[x] = Restored(a) /\ \A y \in Edge : y # x => f'[y] = f[y]
    BY <1>1, <1>2, GoodPlaceOf
<1>7. /\ PlaceGood(a, at'[a], e[a], f') /\ \A c \in Node : h'[c] >= 0
      /\ \A c \in Node : c # a => at'[c] = at[c]
    BY <1>1, <1>3, PushToNeighboursGood
<1> QED
    BY <1>1, <1>2, <1>5, <1>6, <1>7, SinkStepKeeps, GoodPlaceOf

LEMMA ReceiveIsDoneGood ==
    ASSUME IInv, SinkInv, NEW a \in Node, ReceiveIsDone(a)
    PROVE  SinkInv'
<1>1. /\ box[a] # << >> /\ box' = Taken(box, a) /\ UNCHANGED <<h, e, pushRequest, f, at>>
    BY DEF ReceiveIsDone, Receives, Taken
<1>2. BoxesGood(box')
    BY <1>1, TakenGood, GoodPlaceOf
<1> QED
    BY <1>1, <1>2, SinkStepKeeps, GoodPlaceOf

LEMMA OthersGood ==
    ASSUME IInv, SinkInv, ControlStep \/ Ask \/ Rest \/ UNCHANGED vars
    PROVE  SinkInv'
<1>1. UNCHANGED <<h, e, pushRequest, f, at>>
    BY DEF ControlStep, ReceiveIncomingFlow, ReceiveOutgoingFlow, SendFinishRequest,
           ReceiveDone, ReceiveMaxflow, Ask, Rest, vars, nodeVars
<1>2. BoxesGood(box')
  <2>1. CASE SendFinishRequest
    <3>1. finish \in Node /\ box' = Sent(box, finish, IsDone)
        BY <2>1, SizeAssumption DEF SendFinishRequest, Node, IInv, Types
    <3>2. MailGood(finish, IsDone) /\ IsDone \in Messages
        BY MessageFacts DEF MailGood
    <3> QED
        BY <3>1, <3>2, SentGood, GoodPlaceOf
  <2>2. CASE ~SendFinishRequest
    <3>1. box' = box
        BY <2>2 DEF ControlStep, ReceiveIncomingFlow, ReceiveOutgoingFlow, ReceiveDone,
                    ReceiveMaxflow, Ask, Rest, vars, nodeVars
    <3> QED
        BY <3>1, NodeFacts, GoodPlaceOf
  <2> QED
      BY <2>1, <2>2
<1> QED
    BY <1>1, <1>2 DEF SinkInv, PlacesGood, RoomLeft, BoxesGood

LEMMA SinkInit ==
    Init => SinkInv
<1> SUFFICES ASSUME Init PROVE SinkInv
    OBVIOUS
<1>1. /\ h = [a \in Node |-> IF a = s THEN N ELSE 0]
      /\ e = [a \in Node |-> 0] /\ pushRequest = [a \in Node |-> 0]
      /\ f = [x \in Edge |-> 0] /\ box = [a \in Node |-> << >>]
      /\ at = [a \in Node |-> IF a = s /\ Adj[s] # << >>
                              THEN At("saturate", Adj[s][1], 0, 0) ELSE Idle]
    BY DEF Init
<1>2. \A a \in Node : h[a] >= 0
    BY <1>1, NumberFacts
<1>3. e[t] = 0 /\ pushRequest[t] = 0
    BY <1>1, NodeFacts
<1>4. RoomLeft(f)
    BY <1>1, EdgeAssumption DEF RoomLeft, Room
<1>5. PlacesGood
  <2>1. \A a, x, ee : PlaceGood(a, Idle, ee, f) /\ PlaceGood(a, At("saturate", x, 0, 0), ee, f)
      BY DEF PlaceGood, Idle, At
  <2> QED
      BY <1>1, <2>1 DEF PlacesGood
<1>6. BoxesGood(box)
  <2>1. \A b \in Node : \A i : i \notin 1 .. Len(box[b])
      BY <1>1, EmptySeq
  <2> QED
      BY <2>1 DEF BoxesGood
<1> QED
    BY <1>2, <1>3, <1>4, <1>5, <1>6 DEF SinkInv

LEMMA SinkNext ==
    IInv /\ SinkInv /\ [Next]_vars => SinkInv'
BY SaturateGood, TestGood, TakeAmountGood, LoadGood, StoreGood, RequestGood,
   ReceivePushRequestGood, ReportGood, ReceiveAcceptGood, ReceiveRejectGood, UndoGood,
   ReceiveIsDoneGood, OthersGood DEF Next, NodeStep

-----------------------------------------------------------------------------
(* The controller, whose mail never carries a negative flow of the sink.    *)

ControlMessages ==
    [kind : {"incoming"}, flow : Int]
    \cup [kind : {"outgoing"}, flow : Nat]
    \cup [kind : {"done"}, status : BOOLEAN]
    \cup [kind : {"maxflow"}]

ControlInv ==
    /\ cbox \in Seq(ControlMessages)
    /\ counter \in Nat /\ incommingFlow \in Nat /\ outgoingFlow \in Nat
    /\ known \in BOOLEAN /\ ret \in BOOLEAN /\ asked \in BOOLEAN
    /\ answer \in Nat \cup {NoAnswer}

LEMMA ControlMessageFacts ==
    /\ \A n \in Int : Incoming(n) \in ControlMessages
    /\ \A n \in Nat : Outgoing(n) \in ControlMessages
    /\ \A status \in BOOLEAN : Done(status) \in ControlMessages
    /\ Maxflow \in ControlMessages
BY DEF ControlMessages, Incoming, Outgoing, Done, Maxflow

LEMMA ControlMessageFields ==
    ASSUME NEW msg \in ControlMessages
    PROVE  /\ msg.kind = "incoming" => msg.flow \in Int
           /\ msg.kind = "outgoing" => msg.flow \in Nat
           /\ msg.kind \in {"incoming", "outgoing", "done", "maxflow"}
<1>1. CASE msg \in [kind : {"incoming"}, flow : Int]
    BY <1>1
<1>2. CASE msg \in [kind : {"outgoing"}, flow : Nat]
    BY <1>2
<1>3. CASE msg \in [kind : {"done"}, status : BOOLEAN]
    BY <1>3
<1>4. CASE msg \in [kind : {"maxflow"}]
    BY <1>4
<1> QED
    BY <1>1, <1>2, <1>3, <1>4 DEF ControlMessages

\* A node's step sends the controller at most one message.
LEMMA NodeControlKeeps ==
    ASSUME IInv, SinkInv, ControlInv, NEW a \in Node, NodeStep(a)
    PROVE  ControlInv'
<1>1. UNCHANGED controlVars /\ asked' = asked
    BY DEF NodeStep, Test, TakeAmount, Load, Store, SendRequest, ReceivePushRequest,
           Report, ReceiveAccept, ReceiveReject, Undo, ReceiveIsDone, Saturate,
           SendFromSource
<1>2. e[a] \in Int /\ (a = t => e[a] \in Nat)
    BY PlaceOf DEF SinkInv
<1>3. Incoming(e[a]) \in ControlMessages /\ (a = t => Outgoing(e[a]) \in ControlMessages)
      /\ Done(e[a] = 0) \in ControlMessages
    BY <1>2, ControlMessageFacts
<1>4. \/ cbox' = cbox
      \/ \E msg \in ControlMessages : cbox' = Append(cbox, msg)
  <2>1. CASE Report(a)
    <3>1. cbox' = Append(cbox, IF a = t THEN Outgoing(e[a]) ELSE Incoming(e[a]))
        BY <2>1 DEF Report
    <3> QED
        BY <3>1, <1>3
  <2>2. CASE ReceiveAccept(a)
    <3>1. cbox' = IF a = s THEN Append(cbox, Incoming(e[a])) ELSE cbox
        BY <2>2 DEF ReceiveAccept
    <3> QED
        BY <3>1, <1>3
  <2>3. CASE ReceiveIsDone(a)
    <3>1. cbox' = IF e[a] >= 0 THEN Append(cbox, Done(e[a] = 0)) ELSE cbox
        BY <2>3 DEF ReceiveIsDone
    <3> QED
        BY <3>1, <1>3
  <2>4. CASE ~(Report(a) \/ ReceiveAccept(a) \/ ReceiveIsDone(a))
      BY <2>4 DEF NodeStep, Test, TakeAmount, Load, Store, SendRequest, ReceivePushRequest,
                  ReceiveReject, Undo, Saturate, SendFromSource
  <2> QED
      BY <2>1, <2>2, <2>3, <2>4
<1>5. cbox' \in Seq(ControlMessages)
    BY <1>4, AppendProperties DEF ControlInv
<1> QED
    BY <1>1, <1>5 DEF ControlInv, controlVars

LEMMA ControlTaken ==
    ASSUME ControlInv, NEW kind, ControlReceives(kind)
    PROVE  /\ cbox' \in Seq(ControlMessages)
           /\ Head(cbox) \in ControlMessages /\ Head(cbox).kind = kind
BY HeadTailProperties DEF ControlInv, ControlReceives

LEMMA FlowsBecomeKeeps ==
    ASSUME ControlInv, NEW in \in Nat, NEW out \in Nat, FlowsBecome(in, out),
           cbox' \in Seq(ControlMessages), asked' = asked
    PROVE  ControlInv'
<1>1. CASE Balanced(in, out) /\ ~known
  <2>1. Restart
      BY <1>1 DEF FlowsBecome
  <2>2. incommingFlow' \in Nat /\ outgoingFlow' \in Nat /\ counter' \in Nat
      BY <2>1 DEF Restart
  <2>3. known' = FALSE /\ ret' = FALSE /\ answer' = answer
      BY <2>1 DEF Restart
  <2> QED
      BY <2>2, <2>3 DEF ControlInv
<1>2. CASE ~(Balanced(in, out) /\ ~known)
    BY <1>2 DEF FlowsBecome, ControlInv
<1> QED
    BY <1>1, <1>2

LEMMA ControlStepControls ==
    ASSUME ControlInv, ControlStep \/ Ask \/ Rest \/ UNCHANGED vars
    PROVE  ControlInv'
<1>0. incommingFlow \in Nat /\ outgoingFlow \in Nat /\ counter \in Nat
    BY DEF ControlInv
<1>1. CASE ReceiveIncomingFlow
  <2>1. /\ cbox' \in Seq(ControlMessages) /\ Head(cbox).flow \in Int /\ asked' = asked
      BY <1>1, ControlTaken, ControlMessageFields DEF ReceiveIncomingFlow
  <2>2. Magnitude(Head(cbox).flow) \in Nat
      BY <2>1 DEF Magnitude
  <2> QED
      BY <1>0, <1>1, <2>1, <2>2, FlowsBecomeKeeps DEF ReceiveIncomingFlow
<1>2. CASE ReceiveOutgoingFlow
  <2>1. /\ cbox' \in Seq(ControlMessages) /\ Head(cbox).flow \in Nat /\ asked' = asked
      BY <1>2, ControlTaken, ControlMessageFields DEF ReceiveOutgoingFlow
  <2> QED
      BY <1>0, <1>2, <2>1, FlowsBecomeKeeps DEF ReceiveOutgoingFlow
<1>3. CASE SendFinishRequest
    BY <1>3 DEF SendFinishRequest, ControlInv
<1>4. CASE ReceiveDone
  <2>1. cbox' \in Seq(ControlMessages) /\ asked' = asked
      BY <1>4, ControlTaken DEF ReceiveDone
  <2>2. counter' \in Nat
      BY <1>0, <1>4 DEF ReceiveDone, Restart
  <2>3. incommingFlow' \in Nat /\ outgoingFlow' \in Nat
      BY <1>0, <1>4 DEF ReceiveDone, Restart
  <2>4. answer' \in Nat \cup {NoAnswer} /\ known' \in BOOLEAN /\ ret' \in BOOLEAN
      BY <1>0, <1>4 DEF ReceiveDone, Restart, ControlInv
  <2> QED
      BY <2>1, <2>2, <2>3, <2>4 DEF ControlInv
<1>5. CASE ReceiveMaxflow
  <2>1. cbox' \in Seq(ControlMessages)
      BY <1>5, ControlTaken DEF ReceiveMaxflow
  <2> QED
      BY <1>5, <2>1 DEF ReceiveMaxflow, ControlInv
<1>6. CASE Ask
  <2>1. cbox' \in Seq(ControlMessages)
      BY <1>6, ControlMessageFacts, AppendProperties DEF Ask, ControlInv
  <2> QED
      BY <1>6, <2>1 DEF Ask, ControlInv, controlVars
<1>7. CASE Rest \/ UNCHANGED vars
    BY <1>7 DEF Rest, vars, controlVars, ControlInv
<1> QED
    BY <1>1, <1>2, <1>3, <1>4, <1>5, <1>6, <1>7 DEF ControlStep

LEMMA ControlInit ==
    Init => ControlInv
<1> SUFFICES ASSUME Init PROVE ControlInv
    OBVIOUS
<1>1. cbox \in Seq(ControlMessages)
    BY EmptySeq DEF Init
<1>2. counter \in Nat /\ incommingFlow \in Nat /\ outgoingFlow \in Nat
    BY DEF Init
<1>3. known = TRUE /\ ret = FALSE /\ asked = FALSE /\ answer = NoAnswer
    BY DEF Init
<1> QED
    BY <1>1, <1>2, <1>3 DEF ControlInv

LEMMA ControlNext ==
    IInv /\ SinkInv /\ ControlInv /\ [Next]_vars => ControlInv'
BY NodeControlKeeps, ControlStepControls DEF Next

LEMMA TypesMeanTypeOK ==
    IInv /\ SinkInv /\ ControlInv => TypeOK
<1> SUFFICES ASSUME IInv, SinkInv, ControlInv PROVE TypeOK
    OBVIOUS
<1>1. h \in [Node -> Nat]
    BY DEF IInv, Types, SinkInv
<1>2. pushRequest \in [Node -> Nat]
  <2>1. ASSUME NEW a \in Node PROVE pushRequest[a] \in Nat
      BY FS_CardinalityType DEF IInv, CountsFit, Counts
  <2> QED
      BY <2>1 DEF IInv, Types
<1>3. \A a \in Node : listIndex[a] \in 0 .. Len(Adj[a])
    BY PlaceOf, LengthFacts
<1>4. \A a \in Node : at[a].step \in Steps /\ at[a].d \in Int /\ at[a].seen \in Int
    BY PlaceOf
<1>5. ASSUME NEW a \in Node, NEW msg \in MessagesIn(a)
      PROVE  msg.kind \in {"request", "accept", "reject", "isdone"}
  <2>1. msg \in Messages
      BY <1>5, ElementOfSeq DEF MessagesIn, IInv, Types, Boxes
  <2> QED
      BY <2>1, MessageFields
<1>6. ASSUME NEW i \in 1 .. Len(cbox)
      PROVE  cbox[i].kind \in {"incoming", "outgoing", "done", "maxflow"}
  <2>1. cbox[i] \in ControlMessages
      BY <1>6, ElementOfSeq DEF ControlInv
  <2> QED
      BY <2>1, ControlMessageFields
<1> QED
    BY <1>1, <1>2, <1>3, <1>4, <1>5, <1>6 DEF TypeOK, IInv, Types, ControlInv

-----------------------------------------------------------------------------
(* The theorems.                                                            *)

\* The mailboxes, the counters and the nodes' places fit one another in every
\* state (start_push, pushToNeighbours and the cases of Node's receive).
THEOREM Invariance == Spec => []IInv
<1>1. Init => IInv
    BY InitHolds
<1>2. IInv /\ [Next]_vars => IInv'
    BY NextKeeps
<1> QED
    BY <1>1, <1>2, PTL DEF Spec

\* In every graph pushRequest is the number of a node's requests on their way
\* and of the answers on their way back: it never goes below 0, and a node waits
\* (line 100) only while an answer is still to come.
THEOREM RequestsAlwaysCounted == Spec => []RequestsAreCounted
<1>1. ASSUME NEW a \in Node PROVE OutstandingIn(box, a) = Outstanding(a)
    BY DEF OutstandingIn, Outstanding
<1>2. IInv => RequestsAreCounted
    BY <1>1 DEF IInv, CountsFit, Counts, RequestsAreCounted
<1> QED
    BY <1>2, Invariance, PTL

\* In every graph the height in a request is its sender's height until it is
\* answered, so the receiver compares present heights (line 169).
THEOREM RequestHeightAlwaysCurrent == Spec => []RequestHeightIsCurrent
<1>1. IInv => RequestHeightIsCurrent
    BY DEF IInv, BoxesFit, Fits, RequestHeightIsCurrent, MessagesIn
<1> QED
    BY <1>1, Invariance, PTL

\* In every graph, however the actors' steps interleave, no flow is lost or made:
\* the nodes' excess, what the pushes in progress hold and what the messages carry
\* add up to nothing (lines 68-124, 170 and 196).
THEOREM ExcessAlwaysConserved == Spec => []ExcessIsConserved
<1>1. Init => ExcessIsConserved
  <2> SUFFICES ASSUME Init PROVE ExcessIsConserved
      OBVIOUS
  <2>1. ASSUME NEW a \in Node PROVE Share(e, at, box, a) = 0
    <3>1. box[a] = << >> /\ e[a] = 0 /\ Hand(at[a]) = 0
        BY DEF Init, Hand, Idle, At
    <3>2. 1 .. Len(box[a]) = {}
        BY <3>1, EmptySeq
    <3>3. Mail(box[a]) = 0
        BY <3>2, SumEmpty DEF Mail
    <3> QED
        BY <3>1, <3>3 DEF Share
  <2> DEFINE g == [a \in Node |-> Share(e, at, box, a)]
  <2>2. \A a \in Node : g[a] = 0
      BY <2>1
  <2>3. Total(e, at, box) = SumOver(Node, g)
      BY DEF Total
  <2> HIDE DEF g
  <2>4. SumOver(Node, g) = 0
      BY <2>2, NodesFinite, SumOfZeros
  <2> QED
      BY <2>3, <2>4, ConservedMeans
<1>2. IInv /\ ExcessIsConserved /\ [Next]_vars => ExcessIsConserved'
    BY HandlerConserves, RequestConserves, AnswerConserves, ReceiptConserves,
       ControlConserves DEF Next, NodeStep
<1> QED
    BY <1>1, <1>2, Invariance, PTL DEF Spec

\* In every graph the variables have their types in every state.  That the
\* controller's outgoingFlow is natural says that the sink's excess never falls
\* below 0, although the flow of an edge may be read, changed and written by two
\* actors at once (lines 68-124 and 170-204).
THEOREM TypeCorrect == Spec => []TypeOK
<1>1. Init => SinkInv /\ ControlInv
    BY SinkInit, ControlInit
<1>2. IInv /\ (SinkInv /\ ControlInv) /\ [Next]_vars => (SinkInv /\ ControlInv)'
    BY SinkNext, ControlNext
<1> QED
    BY <1>1, <1>2, Invariance, TypesMeanTypeOK, PTL DEF Spec

=============================================================================
