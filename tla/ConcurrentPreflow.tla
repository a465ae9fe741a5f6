------------------------- MODULE ConcurrentPreflow -------------------------
(***************************************************************************)
(* lab2/c/concurrent.c: push-relabel by a pool of POSIX threads.           *)
(*                                                                         *)
(* The threads share the graph.  A node's height and excess, and the flow  *)
(* of its edges, are accessed under node locks taken lower node first; the *)
(* list of nodes with excess, the count of active threads and the          *)
(* condition variable excess_cond are accessed under graph_lock.  A        *)
(* section under graph_lock takes no other lock and its data is touched    *)
(* nowhere else, so each such section is one step here, from lock (or the  *)
(* return of pthread_cond_wait) to unlock (or wait).  Every lock of a node *)
(* is a step of its own, because threads hold one and wait for the next.   *)
(*                                                                         *)
(* The code's intrusive list (g->excess, v->next) is the sequence excess.  *)
(* The local v and e of a worker are those of the link it took last.       *)
(* Locals no line reads again are reset.                                   *)
(***************************************************************************)
EXTENDS MaxFlow, FiniteSets, Functions

CONSTANT T     \* t, the number of threads: 15 in the code

ASSUME ThreadAssumption == T \in Nat \ {0}

Worker == 1 .. T
NoNode == -1       \* a NULL node
Free   == 0        \* a node_lock nobody holds

VARIABLES
    h, e, f,         \* u->h, u->e and e->f
    excess,          \* the list g->excess, front first
    active_thread,   \* g->active_thread
    node_lock,       \* node_lock[a]: the worker holding it, or Free
    pc,              \* where each worker is
    active_before,   \* a worker's local active_before
    u,               \* the node a worker took from the list
    edges,           \* how many links of u's adjacency list it has taken
    d,               \* the amount it has just pushed
    main,            \* where preflow is: "push", "create", "join", ...
    p,               \* how many of the source's links main has taken
    i,               \* main's loop counter over the threads
    result           \* what preflow returns

graphVars == <<h, e, f>>
poolVars  == <<excess, active_thread, active_before>>
localVars == <<u, edges, d>>
mainVars  == <<main, p, i, result>>
vars == <<h, e, f, excess, active_thread, node_lock, pc, active_before,
          u, edges, d, main, p, i, result>>

(***************************************************************************)
(* pc[w] is where worker w is:                                             *)
(*   "unborn"   not created yet                                            *)
(*   "take"     about to lock graph_lock and test the predicate            *)
(*   "wait"     in pthread_cond_wait                                       *)
(*   "scan"     about to look at u's next link                             *)
(*   "second"   holds the first of the two locks of an edge                *)
(*   "test"     holds both                                                 *)
(*   "enter"    has pushed and must enter nodes in the list                *)
(*   "unlock"   is done with the push                                      *)
(*   "relabel"  found no admissible edge and holds u's lock                *)
(*   "reenter"  has relabelled u                                           *)
(*   "unlock_u" has entered u again                                        *)
(*   "exited"   has returned                                               *)
(***************************************************************************)
PC == {"unborn", "take", "wait", "scan", "second", "test", "enter",
       "unlock", "relabel", "reenter", "unlock_u", "exited"}

\* The edge and the other node of the link w took last.
X(w) == Adj[u[w]][edges[w]]
V(w) == Other(u[w], X(w))

\* (A slip, see README: u's lock first, whatever the order of the nodes.)
OwnFirst(a, b) == a

\* The order in which the locks of an edge are taken: if (u < v) u's first.
LowerFirst(a, b) == Lesser(a, b)

First(w)  == LowerFirst(u[w], V(w))
Second(w) == IF First(w) = u[w] THEN V(w) ELSE u[w]

InFront(list, a) == <<a>> \o list

\* enter_excess without its broadcast: neither source nor sink is entered.
Entered(list, a) == IF a \in {s, t} THEN list ELSE InFront(list, a)

\* pthread_cond_broadcast, sent when enter_excess puts a node in the list.
Broadcast(pcs) ==
    [w \in Worker |-> IF pcs[w] = "wait" THEN "take" ELSE pcs[w]]

\* (A slip, see README: nobody is woken.)
Unsignalled(pcs) == {pcs}

\* pthread_cond_signal: wakes one of the waiting threads, if any.
Signalled(pcs) ==
    LET waiting == {w \in Worker : pcs[w] = "wait"}
    IN  IF waiting = {} THEN {pcs}
        ELSE {[pcs EXCEPT ![w] = "take"] : w \in waiting}

\* new_graph, and s->h = g->n.
Init ==
    /\ h = [a \in Node |-> IF a = s THEN N ELSE 0]
    /\ e = [a \in Node |-> 0]
    /\ f = [x \in Edge |-> 0]
    /\ excess = << >>
    /\ active_thread = 0
    /\ node_lock = [a \in Node |-> Free]
    /\ pc = [w \in Worker |-> "unborn"]
    /\ active_before = [w \in Worker |-> FALSE]
    /\ u = [w \in Worker |-> NoNode]
    /\ edges = [w \in Worker |-> 0]
    /\ d = [w \in Worker |-> 0]
    /\ main = "push"
    /\ p = 0
    /\ i = 0
    /\ result = NoNode

-----------------------------------------------------------------------------
(* main, in preflow *)

\* One round of the first loop, before there is any thread.
InitialPush ==
    /\ main = "push"
    /\ p < Len(Adj[s])
    /\ p' = p + 1
    /\ LET x == Adj[s][p + 1]
           v == Other(s, x)
           given == [e EXCEPT ![s] = @ + Cap[x]]
           amount == Amount(f, given, s, x)
       IN  /\ f' = FlowAfter(f, s, x, amount)
           /\ e' = ExcessAfter(given, s, x, amount)
           /\ excess' = IF e'[v] = amount THEN Entered(excess, v) ELSE excess
    /\ UNCHANGED <<h, active_thread, active_before, node_lock, pc, localVars,
                   main, i, result>>

\* From here on main only creates and joins threads.
NotMains == UNCHANGED <<graphVars, poolVars, node_lock, localVars>>

InitialPushesDone ==
    /\ main = "push"
    /\ p = Len(Adj[s])
    /\ main' = "create"
    /\ NotMains
    /\ UNCHANGED <<pc, p, i, result>>

CreateThread ==
    /\ main = "create"
    /\ i < T
    /\ pc' = [pc EXCEPT ![i + 1] = "take"]
    /\ i' = i + 1
    /\ NotMains
    /\ UNCHANGED <<main, p, result>>

\* pthread_create fails: error() ends the process, the workers with it.
CreateFails ==
    /\ main = "create"
    /\ i < T
    /\ main' = "error"
    /\ NotMains
    /\ UNCHANGED <<pc, p, i, result>>

AllCreated ==
    /\ main = "create"
    /\ i = T
    /\ main' = "join"
    /\ i' = 0
    /\ NotMains
    /\ UNCHANGED <<pc, p, result>>

JoinNext ==
    /\ main = "join"
    /\ i < T
    /\ i' = i + 1
    /\ NotMains
    /\ UNCHANGED <<pc, main, p, result>>

JoinThread == JoinNext /\ pc[i + 1] = "exited"

Return ==
    /\ main = "join"
    /\ i = T
    /\ main' = "returned"
    /\ result' = e[t]
    /\ NotMains
    /\ UNCHANGED <<pc, p, i>>

-----------------------------------------------------------------------------
(* worker_function: the section under graph_lock *)

At(w, label) == main \in {"create", "join"} /\ pc[w] = label

Goto(w, label) == pc' = [pc EXCEPT ![w] = label]

\* predicate(g) holds: count oneself active, leave_excess, unlock.
TakeNode(w) ==
    /\ At(w, "take")
    /\ excess # << >>
    /\ active_thread' = IF active_before[w] THEN active_thread ELSE active_thread + 1
    /\ active_before' = [active_before EXCEPT ![w] = TRUE]
    /\ u' = [u EXCEPT ![w] = Head(excess)]
    /\ excess' = Tail(excess)
    /\ edges' = [edges EXCEPT ![w] = 0]
    /\ Goto(w, "scan")
    /\ UNCHANGED <<graphVars, node_lock, d, mainVars>>

\* (A slip: whoever finds the list empty takes itself for the last.)
NoneCounted(w) == 0

\* The list is empty: a worker counts itself inactive ...
ActiveAfterLeaving(w) == IF active_before[w] THEN active_thread - 1 ELSE active_thread

\* (A slip: active_before stays set, and the worker is discounted again.)
LeavePoolMarked(w) ==
    /\ At(w, "take")
    /\ excess = << >>
    /\ active_thread' = ActiveAfterLeaving(w)
    /\ UNCHANGED <<graphVars, excess, node_lock, active_before, localVars, mainVars>>

LeavePool(w) ==
    /\ At(w, "take")
    /\ excess = << >>
    /\ active_thread' = ActiveAfterLeaving(w)
    /\ active_before' = [active_before EXCEPT ![w] = FALSE]
    /\ UNCHANGED <<graphVars, excess, node_lock, localVars, mainVars>>

\* (A slip: only the worker that was active itself passes the news on.)
ExitQuietly(w) ==
    /\ LeavePool(w)
    /\ ActiveAfterLeaving(w) = 0
    /\ pc' \in IF active_before[w] THEN Signalled([pc EXCEPT ![w] = "exited"])
                                  ELSE {[pc EXCEPT ![w] = "exited"]}

\* ... and, if nobody is active any more, passes the news on and returns ...
Exit(w) ==
    /\ LeavePool(w)
    /\ ActiveAfterLeaving(w) = 0
    /\ pc' \in Signalled([pc EXCEPT ![w] = "exited"])

\* ... or else waits for a node or for the others.
Wait(w) ==
    /\ LeavePool(w)
    /\ ActiveAfterLeaving(w) # 0
    /\ Goto(w, "wait")

\* pthread_cond_wait may return without a signal.
SpuriousWakeup(w) ==
    /\ At(w, "wait")
    /\ Goto(w, "take")
    /\ UNCHANGED <<graphVars, poolVars, node_lock, localVars, mainVars>>

-----------------------------------------------------------------------------
(* worker_function: the scan of u's edges *)

LockFirst(w) ==
    /\ At(w, "scan")
    /\ edges[w] < Len(Adj[u[w]])
    /\ edges' = [edges EXCEPT ![w] = @ + 1]
    /\ LET x == Adj[u[w]][edges[w] + 1]
           a == LowerFirst(u[w], Other(u[w], x))
       IN  /\ node_lock[a] = Free
           /\ node_lock' = [node_lock EXCEPT ![a] = w]
    /\ Goto(w, "second")
    /\ UNCHANGED <<graphVars, u, d, poolVars, mainVars>>

LockSecond(w) ==
    /\ At(w, "second")
    /\ node_lock[Second(w)] = Free
    /\ node_lock' = [node_lock EXCEPT ![Second(w)] = w]
    /\ Goto(w, "test")
    /\ UNCHANGED <<graphVars, localVars, poolVars, mainVars>>

\* Both locks are released, v's first; nobody can be kept waiting between.
UnlockBoth(w) == node_lock' = [node_lock EXCEPT ![u[w]] = Free, ![V(w)] = Free]

PassOver(w) ==
    /\ At(w, "test")
    /\ UnlockBoth(w)
    /\ Goto(w, "scan")
    /\ UNCHANGED <<graphVars, localVars, poolVars, mainVars>>

Skip(w) == PassOver(w) /\ ~Admissible(f, h, u[w], X(w))

-----------------------------------------------------------------------------
(* push *)

Push(w) ==
    /\ At(w, "test")
    /\ Admissible(f, h, u[w], X(w))
    /\ LET amount == Amount(f, e, u[w], X(w))
       IN  /\ f' = FlowAfter(f, u[w], X(w), amount)
           /\ e' = ExcessAfter(e, u[w], X(w), amount)
           /\ d' = [d EXCEPT ![w] = amount]
           /\ Goto(w, IF e'[u[w]] > 0 \/ e'[V(w)] = amount THEN "enter" ELSE "unlock")
    /\ UNCHANGED <<h, node_lock, u, edges, poolVars, mainVars>>

HasExcess(w) == e[V(w)] > 0

\* v->e == d: v had no excess before.
HadNoExcess(w) == e[V(w)] = d[w]

\* The section under graph_lock: u if it still has excess, v if it had none.
EnterPushed(w) ==
    /\ At(w, "enter")
    /\ LET one == IF e[u[w]] > 0 THEN Entered(excess, u[w]) ELSE excess
           two == IF HadNoExcess(w) THEN Entered(one, V(w)) ELSE one
           done == [pc EXCEPT ![w] = "unlock"]
       IN  /\ excess' = two
           /\ pc' = IF two # excess THEN Broadcast(done) ELSE done
    /\ UNCHANGED <<graphVars, active_thread, node_lock, active_before,
                   localVars, mainVars>>

FinishPush(w) ==
    /\ At(w, "unlock")
    /\ UnlockBoth(w)
    /\ Goto(w, "take")
    /\ u' = [u EXCEPT ![w] = NoNode]
    /\ edges' = [edges EXCEPT ![w] = 0]
    /\ d' = [d EXCEPT ![w] = 0]
    /\ UNCHANGED <<graphVars, poolVars, mainVars>>

-----------------------------------------------------------------------------
(* relabel *)

\* (A slip: relabel as soon as one edge has been looked at.)
SomeLinkTaken(w) == edges[w] > 0

\* edges == NULL.
NoLinkLeft(w) == edges[w] = Len(Adj[u[w]])

LockForRelabel(w) ==
    /\ At(w, "scan")
    /\ NoLinkLeft(w)
    /\ node_lock[u[w]] = Free
    /\ node_lock' = [node_lock EXCEPT ![u[w]] = w]
    /\ Goto(w, "relabel")
    /\ UNCHANGED <<graphVars, localVars, poolVars, mainVars>>

Relabel(w) ==
    /\ At(w, "relabel")
    /\ h' = [h EXCEPT ![u[w]] = @ + 1]
    /\ Goto(w, "reenter")
    /\ UNCHANGED <<e, f, node_lock, localVars, poolVars, mainVars>>

EnterRelabelled(w) ==
    /\ At(w, "reenter")
    /\ LET list == Entered(excess, u[w])
           done == [pc EXCEPT ![w] = "unlock_u"]
       IN  /\ excess' = list
           /\ pc' = IF list # excess THEN Broadcast(done) ELSE done
    /\ UNCHANGED <<graphVars, active_thread, node_lock, active_before,
                   localVars, mainVars>>

FinishRelabel(w) ==
    /\ At(w, "unlock_u")
    /\ node_lock' = [node_lock EXCEPT ![u[w]] = Free]
    /\ Goto(w, "take")
    /\ u' = [u EXCEPT ![w] = NoNode]
    /\ edges' = [edges EXCEPT ![w] = 0]
    /\ UNCHANGED <<graphVars, d, poolVars, mainVars>>

-----------------------------------------------------------------------------

MainStep ==
    \/ InitialPush \/ InitialPushesDone
    \/ CreateThread \/ CreateFails \/ AllCreated
    \/ JoinThread \/ Return

WorkerStep(w) ==
    \/ TakeNode(w) \/ Exit(w) \/ Wait(w)
    \/ LockFirst(w) \/ LockSecond(w) \/ Skip(w)
    \/ Push(w) \/ EnterPushed(w) \/ FinishPush(w)
    \/ LockForRelabel(w) \/ Relabel(w) \/ EnterRelabelled(w) \/ FinishRelabel(w)

\* The process has ended.
Ended == main \in {"returned", "error"} /\ UNCHANGED vars

Next ==
    \/ MainStep
    \/ \E w \in Worker : WorkerStep(w) \/ SpuriousWakeup(w)
    \/ Ended

Spec == Init /\ [][Next]_vars

\* Threads are scheduled; nothing makes pthread_cond_wait return by itself.
FairSpec ==
    /\ Spec
    /\ WF_vars(MainStep)
    /\ \A w \in Worker : WF_vars(WorkerStep(w))

-----------------------------------------------------------------------------

TypeOK ==
    /\ h \in [Node -> Nat]
    /\ e \in [Node -> Nat]
    /\ f \in [Edge -> Int]
    /\ excess \in Seq(Inner)
    /\ active_thread \in Nat
    /\ node_lock \in [Node -> Worker \cup {Free}]
    /\ pc \in [Worker -> PC]
    /\ active_before \in [Worker -> BOOLEAN]
    /\ u \in [Worker -> Inner \cup {NoNode}]
    /\ edges \in [Worker -> Nat]
    /\ d \in [Worker -> Nat]
    /\ main \in {"push", "create", "join", "returned", "error"}
    /\ p \in 0 .. Len(Adj[s])
    /\ i \in 0 .. T
    /\ result \in Nat \cup {NoNode}

\* The nodes w has taken or will enter: nobody else may work on them.
Owned(w) ==
    CASE pc[w] \in {"scan", "second", "test", "relabel", "reenter"} -> {u[w]}
      [] pc[w] = "enter" ->
            {a \in Inner : \/ a = u[w] /\ e[a] > 0
                           \/ a = V(w) /\ e[a] = d[w]}
      [] OTHER -> {}

\* enter_excess never puts a node in the list that is in it already, which
\* would tie the next pointers into a cycle or drop the nodes behind it.
ListNeverRepeats == IsInjective(excess)

\* A node with excess is in exactly one place, in the list or with one worker:
\* no work is lost and no two workers handle the same node.
ExcessHasOneKeeper ==
    /\ \A a \in Inner :
          e[a] > 0 <=> a \in Range(excess) \/ \E w \in Worker : a \in Owned(w)
    /\ \A w \in Worker : Owned(w) \cap Range(excess) = {}
    /\ \A w, z \in Worker : w # z => Owned(w) \cap Owned(z) = {}

\* How many links of u's list w has passed over.
Passed(w) ==
    CASE pc[w] \in {"scan", "relabel"} -> edges[w]
      [] pc[w] \in {"second", "test"}  -> edges[w] - 1
      [] OTHER -> 0

\* A worker drops the locks of an edge before it looks at the next one, and
\* others push and relabel meanwhile.  Still the edges it has passed over stay
\* inadmissible until it relabels.
PassedEdgesStayInadmissible ==
    \A w \in Worker : \A k \in 1 .. Passed(w) :
        ~Admissible(f, h, u[w], Adj[u[w]][k])

\* active_thread counts the threads that have work or may still make some.
ActiveCountIsExact ==
    active_thread = Cardinality({w \in Worker : active_before[w]})

\* A thread that returns leaves nothing behind: no node in the list and
\* none with another thread.
NobodyLeavesEarly ==
    (\E w \in Worker : pc[w] = "exited") => \A a \in Inner : e[a] = 0

\* The node whose lock w needs next, the lowest of an edge's two first.
Wanted(w) ==
    CASE pc[w] = "second" -> {Second(w)}
      [] pc[w] = "scan" /\ NoLinkLeft(w) -> {u[w]}
      [] pc[w] = "scan" /\ ~NoLinkLeft(w) ->
            LET v == Other(u[w], Adj[u[w]][edges[w] + 1])
            IN  {LowerFirst(u[w], v)}
      [] OTHER -> {}

WaitsFor(w, z) == \E a \in Wanted(w) : node_lock[a] = z

\* Workers that scan the edges of neighbouring nodes in opposite directions
\* never end up waiting for each other's locks in a ring.
NobodyWaitsInARing ==
    \A ring \in (SUBSET Worker) \ {{}} :
        \E w \in ring : \A z \in ring : ~WaitsFor(w, z)

\* The program ends, by returning or by error().
Termination == <>(main \in {"returned", "error"})

\* Whatever the interleaving, the threads together do nothing but pushes along
\* admissible edges and relabels of nodes that have none.
PP == INSTANCE PreflowPush
        WITH pending <- {Adj[s][k] : k \in p + 1 .. Len(Adj[s])}

ImplementsPreflowPush == PP!Spec

\* What preflow returns (line 584) is the value of a maximum flow, and no excess
\* is left inside.
AnswerIsMaxFlow ==
    main = "returned" => result = MaxFlowValue /\ \A a \in Inner : e[a] = 0

=============================================================================
