---------------------------- MODULE JavaPreflow ----------------------------
(***************************************************************************)
(* lab2/java/concurrent.java: preflow-push by T threads.  Each thread owns *)
(* a range of nodes, keeps those it has work for in its localq, and gets   *)
(* the others' pushes to its nodes through its external queue.             *)
(*                                                                         *)
(* A thread holds the lock of the node u it works on, and of the other end *)
(* of an edge only if that is the higher node.  So the excess of a node is *)
(* read and written by several threads at once.  A step has one access     *)
(* that others can notice: a lock, a read or write of a field it does not  *)
(* hold the lock for, an offer to another's queue.  What is done to data   *)
(* under a lock all its users hold, and to localq, joins such a step.      *)
(*                                                                         *)
(* A write is taken to be seen by the next read, though no field is        *)
(* volatile: older values would add behaviours.                            *)
(***************************************************************************)
EXTENDS MaxFlow

CONSTANTS
    T,           \* numThreads
    MaxHeight,   \* bounds of the model: no node is raised above MaxHeight,
    MaxExcess    \* and no store makes more excess than MaxExcess, or owes more

ASSUME ThreadAssumption ==
    T \in Nat /\ T > 0 /\ MaxHeight \in Nat /\ MaxExcess \in Nat

Thread == 0 .. T - 1
NoOne  == -1

VARIABLES
    h, e, f,     \* the fields of Node and Edge
    lock,        \* who holds the lock of each node
    localq,
    externalQueue,
    at,          \* the locals of each thread, with its place
    p,           \* how many of the source's edges main has pushed along
    i,           \* the node the constructor of the next Task looks at
    threadID,    \* the thread main starts next
    result       \* what preflow returns

shared == <<h, e, f>>
vars == <<shared, lock, localq, externalQueue, at, p, i, threadID, result>>
mainVars == <<p, i, threadID, result>>

Running  == -1
IntMax   == 2147483647
IntMin   == -2147483647 - 1

\* Where a thread is: the node u, which edge of its list, the amount d of a push,
\* the excess last read, whether it has pushed from u, and minHeight of relabel.
Place(step, u, k, pushed) ==
    [step |-> step, u |-> u, k |-> k, d |-> 0, seen |-> 0, pushed |-> pushed, min |-> IntMax]

PushSteps    == {"amount", "flow", "loadU", "storeU", "loadV", "storeV",
                 "queueU", "queueV", "offer"}
RelabelSteps == {"look", "height", "raise", "requeue"}
Steps == {"new", "take", "lock", "edge", "done"} \cup PushSteps \cup RelabelSteps

-----------------------------------------------------------------------------
(* Which thread owns which node.                                            *)

\* (A slip: the division is not rounded up.)
RoundedDown == N \div T

NodesPerThread == (N + T - 1) \div T

\* The range [start, end) of a Task.
Start(w) == w * NodesPerThread
End(w)   == Lesser(Start(w) + NodesPerThread, N)

InRange(w, a) == a >= Start(w) /\ a < End(w)

ownerThread(a) == Lesser(a \div NodesPerThread, T - 1)

-----------------------------------------------------------------------------

X(w) == Adj[at[w].u][at[w].k]
V(w) == Other(at[w].u, X(w))

\* (A slip: only u is locked.)
LockedNever(u, v) == FALSE

\* (A slip: the other end is locked behind u even when it is the lower one.)
LockedAlways(u, v) == TRUE

\* second != u: the other end is locked when it is the higher one.
LockedWith(u, v) == v > u

Unlocked(as) == [a \in Node |-> IF a \in as THEN NoOne ELSE lock[a]]

LastEdge(w) == at[w].k = Len(Adj[at[w].u])

\* (A slip: threadID <= numThreads.)
OneThreadMore == threadID <= T

MoreThreads == threadID < T

To(w, step) == at' = [at EXCEPT ![w].step = step]

Init ==
    /\ h = [a \in Node |-> IF a = s THEN N ELSE 0]
    /\ e = [a \in Node |-> 0]
    /\ f = [x \in Edge |-> 0]
    /\ lock = [a \in Node |-> NoOne]
    /\ localq = [w \in Thread |-> << >>]
    /\ externalQueue = [w \in Thread |-> << >>]
    /\ at = [w \in Thread |-> Place("new", s, 1, FALSE)]
    /\ p = 0 /\ i = 0 /\ threadID = 0
    /\ result = Running

-----------------------------------------------------------------------------
(* preflow, in the main thread.                                             *)

\* node[s].e += a.c; push(node[s], other(a, node[s]), a)
InitialPush ==
    /\ p < Len(Adj[s])
    /\ LET x  == Adj[s][p + 1]
           ex == [e EXCEPT ![s] = @ + Cap[x]]
           d  == Amount(f, ex, s, x)
       IN  /\ f' = FlowAfter(f, s, x, d)
           /\ e' = ExcessAfter(ex, s, x, d)
    /\ p' = p + 1
    /\ UNCHANGED <<h, lock, localq, externalQueue, at, i, threadID, result>>

\* The constructor of a Task, a node of its range at a time, while the threads
\* before it are at work.
ScanNode ==
    /\ p = Len(Adj[s]) /\ MoreThreads /\ i < End(threadID)
    /\ localq' = IF e[i] > 0 /\ i \in Inner
                 THEN [localq EXCEPT ![threadID] = Append(@, i)] ELSE localq
    /\ i' = i + 1
    /\ UNCHANGED <<shared, lock, externalQueue, at, p, threadID, result>>

StartThread ==
    /\ p = Len(Adj[s]) /\ MoreThreads /\ i >= End(threadID)
    /\ To(threadID, "take")
    /\ threadID' = threadID + 1
    /\ UNCHANGED <<shared, lock, localq, externalQueue, p, i, result>>

\* All threads have been joined.
Return ==
    /\ result = Running
    /\ \A w \in Thread : at[w].step = "done"
    /\ result' = e[t]
    /\ UNCHANGED <<shared, lock, localq, externalQueue, at, p, i, threadID>>

-----------------------------------------------------------------------------
(* run, the loop of a thread.                                               *)

\* localq.poll, or dequeueExternal: nobody else takes from either.
TakeNode(w) ==
    /\ at[w].step = "take"
    /\ \/ /\ localq[w] # << >>
          /\ at' = [at EXCEPT ![w] = Place("lock", Head(localq[w]), 1, FALSE)]
          /\ localq' = [localq EXCEPT ![w] = Tail(@)]
          /\ UNCHANGED externalQueue
       \/ /\ localq[w] = << >> /\ externalQueue[w] # << >>
          /\ at' = [at EXCEPT ![w] = Place("lock", Head(externalQueue[w]), 1, FALSE)]
          /\ externalQueue' = [externalQueue EXCEPT ![w] = Tail(@)]
          /\ UNCHANGED localq
    /\ UNCHANGED <<shared, lock, mainVars>>

\* The loop ends with both queues empty.
Exit(w) ==
    /\ at[w].step = "take"
    /\ localq[w] = << >> /\ externalQueue[w] = << >>
    /\ at' = [at EXCEPT ![w] = Place("done", s, 1, FALSE)]
    /\ UNCHANGED <<shared, lock, localq, externalQueue, mainVars>>

LockNode(w) ==
    /\ at[w].step = "lock"
    /\ lock[at[w].u] = NoOne
    /\ lock' = [lock EXCEPT ![at[w].u] = w]
    /\ To(w, "edge")
    /\ UNCHANGED <<shared, localq, externalQueue, mainVars>>

\* The for loop goes to the next edge; behind the last one the thread relabels
\* if it has not pushed.  The locks of held are given back.
GoOn(w, pushed, held) ==
    LET u == at[w].u
    IN  /\ at' = [at EXCEPT ![w] =
                    IF ~LastEdge(w) THEN Place("edge", u, at[w].k + 1, pushed)
                    ELSE IF pushed  THEN Place("take", s, 1, FALSE)
                                    ELSE Place("look", u, 1, FALSE)]
        /\ lock' = Unlocked(held \cup (IF LastEdge(w) /\ pushed THEN {u} ELSE {}))

\* The locks of second, if the thread holds it.
Second(w) == IF LockedWith(at[w].u, V(w)) THEN {V(w)} ELSE {}

\* second is locked and the edge tested: f and u.h change under locks the thread
\* holds; v.h does too if v is second, and is read unprotected if it is not.
ExamineEdge(w) ==
    /\ at[w].step = "edge"
    /\ \A a \in Second(w) : lock[a] = NoOne
    /\ IF Admissible(f, h, at[w].u, X(w))
       THEN /\ lock' = [a \in Node |-> IF a \in Second(w) THEN w ELSE lock[a]]
            /\ To(w, "amount")
       ELSE GoOn(w, at[w].pushed, {})
    /\ UNCHANGED <<shared, localq, externalQueue, mainVars>>

\* push: d = Math.min(u.e, ...)
ReadAmount(w) ==
    /\ at[w].step = "amount"
    /\ at' = [at EXCEPT ![w].d = Amount(f, e, at[w].u, X(w)), ![w].step = "flow"]
    /\ UNCHANGED <<shared, lock, localq, externalQueue, mainVars>>

\* a.f += d or a.f -= d
PushFlow(w) ==
    /\ at[w].step = "flow"
    /\ f' = FlowAfter(f, at[w].u, X(w), at[w].d)
    /\ To(w, "loadU")
    /\ UNCHANGED <<h, e, lock, localq, externalQueue, mainVars>>

\* u.e -= d and v.e += d: a read and a write each.
LoadExcess(w) ==
    /\ at[w].step \in {"loadU", "loadV"}
    /\ at' = [at EXCEPT
         ![w].seen = IF at[w].step = "loadU" THEN e[at[w].u] ELSE e[V(w)],
         ![w].step = IF at[w].step = "loadU" THEN "storeU" ELSE "storeV"]
    /\ UNCHANGED <<shared, lock, localq, externalQueue, mainVars>>

InBounds(excess) == excess >= -MaxExcess /\ excess <= MaxExcess

StoreExcess(w) ==
    /\ \/ /\ at[w].step = "storeU"
          /\ InBounds(at[w].seen - at[w].d)
          /\ e' = [e EXCEPT ![at[w].u] = at[w].seen - at[w].d]
          /\ To(w, "loadV")
       \/ /\ at[w].step = "storeV"
          /\ InBounds(at[w].seen + at[w].d)
          /\ e' = [e EXCEPT ![V(w)] = at[w].seen + at[w].d]
          /\ To(w, "queueU")
    /\ UNCHANGED <<h, f, lock, localq, externalQueue, mainVars>>

\* if (u.e > 0 && ...) localq.add(u)
QueueOwn(w) ==
    /\ at[w].step = "queueU"
    /\ localq' = IF e[at[w].u] > 0 /\ InRange(w, at[w].u)
                 THEN [localq EXCEPT ![w] = Append(@, at[w].u)] ELSE localq
    /\ To(w, "queueV")
    /\ UNCHANGED <<shared, lock, externalQueue, mainVars>>

\* (A slip: v counts as active only when all its excess is new, as the test
\* left in a comment of push has it.)
BecameActive(w) == e[V(w)] = at[w].d

OtherIsActive(w) == e[V(w)] > 0

\* if (v.e > 0): localq.add(v), or enqueueExternal(v) in the next step.
QueueOther(w) ==
    /\ at[w].step = "queueV"
    /\ IF OtherIsActive(w) /\ ~InRange(w, V(w))
       THEN To(w, "offer") /\ UNCHANGED <<lock, localq>>
       ELSE /\ localq' = IF OtherIsActive(w) THEN [localq EXCEPT ![w] = Append(@, V(w))]
                                             ELSE localq
            /\ GoOn(w, TRUE, Second(w))
    /\ UNCHANGED <<shared, externalQueue, mainVars>>

enqueueExternal(a) ==
    externalQueue' = [externalQueue EXCEPT ![ownerThread(a)] = Append(@, a)]

OfferOther(w) ==
    /\ at[w].step = "offer"
    /\ enqueueExternal(V(w))
    /\ GoOn(w, TRUE, Second(w))
    /\ UNCHANGED <<shared, localq, mainVars>>

-----------------------------------------------------------------------------
(* relabel, without the locks of the other ends.                            *)

\* The next edge, or the new height.
LookOn(w, min) ==
    at' = [at EXCEPT ![w].min = min,
             ![w].step = IF LastEdge(w) THEN "raise" ELSE "look",
             ![w].k = IF LastEdge(w) THEN 1 ELSE @ + 1]

LookAtFlow(w) ==
    /\ at[w].step = "look"
    /\ IF Residual(f, at[w].u, X(w)) > 0 THEN To(w, "height") ELSE LookOn(w, at[w].min)
    /\ UNCHANGED <<shared, lock, localq, externalQueue, mainVars>>

LookAtHeight(w) ==
    /\ at[w].step = "height"
    /\ LookOn(w, Lesser(at[w].min, h[V(w)]))
    /\ UNCHANGED <<shared, lock, localq, externalQueue, mainVars>>

\* minHeight + 1, which wraps around if no edge has residual capacity.
Above(min) == IF min = IntMax THEN IntMin ELSE min + 1

Raise(w) ==
    /\ at[w].step = "raise"
    /\ Above(at[w].min) <= MaxHeight
    /\ h' = [h EXCEPT ![at[w].u] = Above(at[w].min)]
    /\ at' = [at EXCEPT ![w].step = "requeue", ![w].min = IntMax]
    /\ UNCHANGED <<e, f, lock, localq, externalQueue, mainVars>>

\* if (u.e > 0): back into a queue; u is unlocked.
Requeue(w) ==
    /\ at[w].step = "requeue"
    /\ IF e[at[w].u] <= 0 THEN UNCHANGED <<localq, externalQueue>>
       ELSE IF InRange(w, at[w].u)
       THEN localq' = [localq EXCEPT ![w] = Append(@, at[w].u)] /\ UNCHANGED externalQueue
       ELSE enqueueExternal(at[w].u) /\ UNCHANGED localq
    /\ lock' = Unlocked({at[w].u})
    /\ at' = [at EXCEPT ![w] = Place("take", s, 1, FALSE)]
    /\ UNCHANGED <<shared, mainVars>>

ThreadStep(w) ==
    \/ TakeNode(w) \/ Exit(w) \/ LockNode(w) \/ ExamineEdge(w)
    \/ ReadAmount(w) \/ PushFlow(w) \/ LoadExcess(w) \/ StoreExcess(w)
    \/ QueueOwn(w) \/ QueueOther(w) \/ OfferOther(w)
    \/ LookAtFlow(w) \/ LookAtHeight(w) \/ Raise(w) \/ Requeue(w)

MainStep == InitialPush \/ ScanNode \/ StartThread \/ Return

Next == MainStep \/ \E w \in Thread : ThreadStep(w)

Spec == Init /\ [][Next]_vars

-----------------------------------------------------------------------------

QueueOf(w) == {localq[w][j] : j \in 1 .. Len(localq[w])} \cup
              {externalQueue[w][j] : j \in 1 .. Len(externalQueue[w])}

Working == Steps \ {"new", "take", "done"}

\* Every variable has its type, and an iterator is at an edge of its node.
TypeOK ==
    /\ h \in [Node -> Int] /\ e \in [Node -> Int] /\ f \in [Edge -> Int]
    /\ lock \in [Node -> Thread \cup {NoOne}]
    /\ localq \in [Thread -> Seq(Node)] /\ externalQueue \in [Thread -> Seq(Node)]
    /\ at \in [Thread -> [step : Steps, u : Node, k : Nat, d : Int, seen : Int,
                          pushed : BOOLEAN, min : Int]]
    /\ \A w \in Thread : at[w].step \in Working => at[w].k \in 1 .. Len(Adj[at[w].u])
    /\ p \in 0 .. Len(Adj[s]) /\ i \in 0 .. N /\ threadID \in 0 .. T
    /\ result \in Int

\* A node is only worked on by the thread that owns it, whichever queue it came
\* through: the ranges of the Tasks (lines 163-169) and ownerThread (lines 41-44)
\* divide the nodes alike.
OwnersAgree ==
    \A w \in Thread :
        /\ \A a \in QueueOf(w) : InRange(w, a)
        /\ at[w].step \in Working => InRange(w, at[w].u)

\* An edge has one thread at a time between the test of its capacity and the
\* end of the push: that thread holds the lock of the edge's higher node
\* (lines 303-306), though not always that of the other end.
EdgeHasOnePusher ==
    \A w1, w2 \in Thread :
        w1 # w2 /\ at[w1].step \in PushSteps /\ at[w2].step \in PushSteps => X(w1) # X(w2)

\* w will look at the excess of a before it is through with it.
Keeps(w, a) ==
    \/ /\ at[w].u = a
       /\ \/ at[w].step \in {"lock", "edge"} \cup RelabelSteps /\ ~at[w].pushed
          \/ at[w].step \in PushSteps \ {"queueV", "offer"}
    \/ at[w].step \in {"queueU", "queueV", "offer"} /\ V(w) = a

\* Whatever updates of e the threads overwrite (lines 121-122), an inner node
\* with excess is in a queue of its owner, or some thread is about to look at
\* it and put it there, or main has yet to make the Task.
ExcessIsQueued ==
    p = Len(Adj[s]) =>
        \A a \in Inner :
            e[a] > 0 =>
                \/ a >= i
                \/ a \in QueueOf(ownerThread(a))
                \/ \E w \in Thread : Keeps(w, a)

\* The lock w waits for.
Waited(w) ==
    IF at[w].step = "lock" THEN {at[w].u} ELSE IF at[w].step = "edge" THEN Second(w) ELSE {}

\* No set of threads waits in a ring for the locks they hold.
NobodyWaitsInARing ==
    \A S \in (SUBSET Thread) \ {{}} :
        \E w \in S : \A a \in Waited(w) : lock[a] \notin S

\* check-solution.sh: the printed flow is the maximum flow of the input.
AnswerIsMaxFlow == result # Running => result = MaxFlowValue

=============================================================================
