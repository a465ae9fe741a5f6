# Preflow-push, sequential and concurrent: a TLA+ model of the EDAN26 labs

The repository holds lab programs for a course on multicore programming. Most of
them compute a maximum flow in an undirected graph with Goldberg's preflow-push
algorithm: one thread in C (`lab0`, copied to `lab2/c`), the same as a library
function a judge calls (`lab0/forsete.c`), one thread in Java, 15 POSIX threads (`lab2/c/concurrent.c`), 8 Java threads, one Akka actor per node
(`lab1`). Around them are a barrier, a queue with two locks and programs that
move money between accounts. All paths below are relative to `src/labs/`.

This directory holds TLA+ modules for the core of it, the TLC configurations that
check them on small graphs, and proofs of the most important facts for all graphs
and any number of threads.

## 1. Inventory

| component | source | state | operations | modelled by |
|---|---|---|---|---|
| sequential preflow, C | `lab0/preflow.c`, `lab2/c/preflow.c` | heights `h`, excess `e`, flows `f`, the intrusive list `excess` | `new_graph`, `push`, `relabel`, `enter_excess`, `leave_excess`, `preflow` | `FlowGraph`, `NewGraph`, `PreflowPush`, `SequentialPreflow` |
| library function, C | `lab0/forsete.c` | the same, on links and arrays that a process allocates and frees call after call | `preflow`, `new_graph`, `xmalloc`, `xcalloc`, `add_edge`, `free_graph`, and the operations above | `ForsetePreflow` |
| concurrent preflow, C | `lab2/c/concurrent.c` | the same, plus `active_thread`, a lock per node, `graph_lock`, `excess_cond`, the locals of the threads | `worker_function` and what it calls, `preflow` of the main thread | `ConcurrentPreflow` |
| barrier | `lab3/pthread_barrier.c` (same file in `lab4`, `lab6/c`) | `count`, `phase`, mutex, condition variable | `pthread_barrier_init`, `pthread_barrier_wait` | `Barrier` |
| sequential preflow, Java | `lab2/java/sequential.java` | as in C | as in C | `NewGraph` (`ListsInOrder`), `SequentialPreflow` |
| concurrent preflow, Java | `lab2/java/concurrent.java` | graph, one own and one external queue per thread, a lock per node | `preflow`, the constructor of `Task`, `run`, `push`, `relabel`, `ownerThread`, `enqueueExternal` | `JavaPreflow` |
| actors, Scala | `lab1/preflow.scala` | per node `e`, `h`, `pushRequest`, `listIndex`; per edge `f`; the controller's two flows and its counter; the mailboxes | the `receive` cases of `Node` and of `Preflow` | `ActorPreflow` |
| two-lock queue | `lab2/c/queue.c` | linked list with a dummy node, `head`, `tail`, two locks | `enqueue`, `dequeue` | `FifoQueue`, `TwoLockQueue` |
| money transfers | `lab5/swish/src/main.rs`, `lab6/clojure/swish.clj` | balances | transfers, the final sum | not modelled, see section 5 |
| unfinished programs | `lab5/preflow/src/main.rs`, `lab6/clojure/preflow.clj` | - | no push is implemented | not modelled |
| measurement | `lab6/mm.c`, `lab2/c/timebase.c` | - | a numeric loop, reading the clock | not modelled |

How the parts interact. The preflow programs do not talk to each other; they
share an input format and an answer, compared with the `.ans` files by
`check-solution.sh`. Inside `concurrent.c` the main thread makes the initial
pushes alone, creates the threads, joins them and reads the sink's excess. The
threads share the graph under two kinds of locks: each node's `node_lock`, taken
in pairs for an edge, lower node first, and `graph_lock` for the list, the count
of active threads and the condition variable. `push` and `relabel` take
`graph_lock` while holding node locks, never the other way round. In the Scala
program the nodes send each other `PushRequest`, `Accept` and `Reject`; the source
and the sink report to the controller, which asks the nodes whether they are done
and answers the main thread; beside the messages, both actors of an edge read and
write its flow. In the Java program main pushes from the source, then makes and
starts the threads one by one, so that the first are at work while the queues of the
last are still being filled; a thread that has pushed flow to a node of another puts
the node into that thread's external queue.

What is hard, and which property looks at it:

* a worker tests an edge, drops both locks and moves on; when it decides to
  relabel, everything it saw is old (`PassedEdgesStayInadmissible`,
  `ImplementsPreflowPush`);
* whether `v` is in the list already is decided by `v->e == d` alone
  (`ExcessHasOneKeeper`, `ListHoldsTheExcess`, and the theorem `ListNeverRepeats`);
* between a push and the entry of the node in the list, the list can be empty
  with work left; idle threads look exactly then (`NobodyLeavesEarly`,
  `ActiveCountIsExact`);
* threads leave one after the other, each waking one more (`Termination`);
* two locks per edge and threads in a ring (`NobodyWaitsInARing`);
* only the algebra of preflows makes the answer a maximum (`ValidLabelling`,
  `SaturatedCutExists`, `AnswerIsMaxFlow`) and the loop end
  (`HeightBound`, `Termination`);
* a barrier is used again by fast threads before slow ones have left it, and its
  phase wraps around (`NobodyPassesEarly`, `OneSerialPerRound`);
* flow is on its way in messages while heights and excess change at both ends
  (`ExcessIsConserved`, `RequestsAreCounted`, `RequestHeightIsCurrent`), and the
  controller decides from old reports that none is (`AnswerIsFinal`);
* the flow of an edge is written by two actors without protection
  (`AnswerIsMaxFlow` of `ActorPreflow`, violated);
* the queue frees its old dummy while `tail` may point to it
  (`NoUseAfterFree`), and reads a pointer another thread is writing
  (`ImplementsFifo`);
* one lock less than an edge has ends: two Java threads update a node's excess at
  once, and both the queues and the edges must survive it (`EdgeHasOnePusher`,
  `ExcessIsQueued`); a Java thread whose queues are empty ends although more work
  may come (`AnswerIsMaxFlow` of `JavaPreflow`, violated);
* two computations of who owns a node must agree (`OwnersAgree`);
* a library that is called again meets its own old memory (`MemoryIsReached`,
  `AnswersAreMaxFlows`, `EveryCallReturns`).

`PROJECT.json` lists these and the others as hazards with their lines.

## 2. The modules

```
FlowGraph        the input, and the arithmetic of push, as operators
 +- MaxFlow      the value of a maximum flow (smallest cut), the reference answer
     +- PreflowPush         the algorithm: saturate, push, relabel, in any order
     +- SequentialPreflow   lab0/preflow.c          implements PreflowPush
     +- ConcurrentPreflow   lab2/c/concurrent.c     implements PreflowPush
     +- ActorPreflow        lab1/preflow.scala
     +- JavaPreflow         lab2/java/concurrent.java
NewGraph         new_graph, connect, add_edge, addLast: adjacency lists from a list of edges
 +- ForsetePreflow          lab0/forsete.c          uses MaxFlow of each graph it is called with
Barrier          pthread_barrier.c
FifoQueue        a first-in first-out queue
TwoLockQueue     lab2/c/queue.c             implements FifoQueue
ValidPreflow     what every step of a preflow program keeps, as a predicate
FlowGraphProof, PreflowPushProof, SequentialPreflowProof, ConcurrentPreflowProof,
ForsetePreflowProof, JavaPreflowProof, ActorPreflowProof, QueueAndBarrierProof
                 theorems and their proofs
MCPreflowPush, MCSequentialPreflow, MCConcurrentPreflow, MCForsetePreflow,
MCJavaPreflow, MCActorPreflow, MCBarrier, MCTwoLockQueue instances for TLC
```

**FlowGraph.** A graph is given by constants: `N`, `M`, the end points and the
capacity of each edge, the adjacency lists. The assumptions are what the programs
are fed: at least two nodes, positive capacities (`doc/labs.tex:537`), no self
loops, and lists that hold each incident edge once - which is what `NewGraph`
builds, so the small graphs take their lists from `ListsAfter`. Parallel edges are
allowed although the lab text excludes them. `Amount`, `FlowAfter`,
`ExcessAfter` are the three effects of `push`; `Admissible` is the test of the
scanning loops. Flows and excess are integers without width.

**PreflowPush** is the abstract specification. It has no list and no threads:
`Saturate(x)` is a round of the first loop, `Push(a, x)` and `Relabel(a)` are
guarded by what the code guarantees when it calls them - excess, and an admissible
edge or none. That those guards hold in the programs is what the refinements
show.

**SequentialPreflow** is `lab0/preflow.c` with its list as a sequence used as a
stack. One round of the main loop is one step, because nothing else runs:
`PushRound` takes the first node, finds the first admissible edge of its list and
pushes; `RelabelRound` relabels and enters the node again. `PushAlong` is `push`
with its two calls of `enter_excess`, in their order. It stands for
`lab2/java/sequential.java` as well, which differs in one thing: `addLast` gives a
node's edges in the order they were read (`ListsInOrder`), `add_edge` in the reverse
order (`ListsAfter`). The theorems hold for the constant `Adj` in any order.

**ForsetePreflow** is `lab0/forsete.c` on its real structures. A judge (external)
calls `preflow` up to `Calls` times with any graph of `Inputs`. `heap` has the links
malloc has given out, what is in them, and where each node's list begins; the list of
nodes with excess is the pointers themselves (`excess.first`, `excess.next`), so that
a node entered twice would tie a cycle. One round of a loop is one step: `Allocate`,
`ConnectEdge` (two links each), `StartPushing`, `InitialPush`, `LeaveExcess`, `ScanOn`,
`Push`, `Relabel`, `ReturnFlow`, `FreeLink`, `FreeNextNode`, `FreeGraph`; `OutOfMemory`
is `xmalloc` failing and the exit of the process. `Malloc` gives out any one free link:
no line compares addresses, and a link's old content is overwritten before it is
read. `new_graph` takes node 0 and node `n - 1` for source and sink and ignores its
parameters `s` and `t` (lines 600-601); so does the model.

**ConcurrentPreflow** is `concurrent.c`, one process per thread. The steps are cut
at the locks:

| steps | code |
|---|---|
| `InitialPush`, `InitialPushesDone` | 555-562, no thread exists yet |
| `CreateThread`, `CreateFails`, `AllCreated` | 565-571; the first threads run while the others are created; `error` ends the process |
| `JoinThread`, `Return` | 575-584 |
| `TakeNode`, `Exit`, `Wait` | 452-473: a section under `graph_lock`, from the lock or from the return of `pthread_cond_wait` to the unlock or the next wait; one step, as the section takes no other lock and nobody touches its data elsewhere |
| `SpuriousWakeup` | `pthread_cond_wait` may always return |
| `LockFirst`, `LockSecond` | 475-501: one step for each lock, since a thread holds one and waits for the other |
| `Skip` | 506-511 |
| `Push`, `EnterPushed`, `FinishPush` | 502-505 and 517-520: the change of `e` and `f` under the node locks, then the section under `graph_lock`, then the unlocks - three steps, because idle threads can look at the list in between |
| `LockForRelabel`, `Relabel`, `EnterRelabelled`, `FinishRelabel` | 522-527 |

The two unlocks of an edge are one step: releasing one lock a little later only
keeps others waiting. Locals no line reads again are reset, which merges states
that behave alike. The broadcast moves every waiting thread to the start of the
section, the signal any one of them.

**Barrier** is `pthread_barrier_init` and `pthread_barrier_wait`, called over and
over by as many threads as the barrier was made for. The mutex sections are steps;
a thread that was woken is a state of its own, since it may get the mutex long
after others have come back. `calls` and `serials` are history variables. The
phase wraps at `PhaseMod`.

**ActorPreflow** is `preflow.scala`, one process per actor. A mailbox is a sequence;
the messages that set an actor up (its edges, its controller, its role) are in the
mailboxes before any other and have been handled in `Init`. What an actor does with
its own attributes is invisible, so a step has exactly one access another actor can
notice: a send, a read or a write of an edge's `f`. One turn of the loop of
`pushToNeighbours` is therefore up to five steps:

| steps | code |
|---|---|
| `Saturate`, `SendFromSource` | 65-85, per edge of the source |
| `Test` | 112, for an edge written from this node; the backward branch (120) tests nothing |
| `TakeAmount` | 113-114 or 121-122: `f` is read again |
| `Load`, `Store` | 115 or 123: a read of `f` and then its write |
| `SendRequest` | 116-117 or 124-125, with the loop's next turn, `relabel` and the repeated call of lines 102-105 and 132 in `GoOn` |
| `ReceivePushRequest`, `Report` | 166-181: the answer, then the report to the controller |
| `ReceiveAccept` | 183-191 |
| `ReceiveReject`, `Undo` | 193-205: a read of `f`, then its write and `pushToNeighbours` |
| `ReceiveIsDone` | 207-215 |
| `ReceiveIncomingFlow`, `ReceiveOutgoingFlow`, `SendFinishRequest` | 240-244, 285-299; one send of `IsDone` per step |
| `ReceiveDone`, `ReceiveMaxflow`, `Ask` | 280-283, 301-311, 363 |

A null `ret` at line 306 is an exception, after which Akka restarts the controller
with fresh attributes and the same mailbox (`Restart`); from then on its array of
nodes is null as well (`known`). A write of `f` is taken to be seen by the next read,
although `f` is not volatile: older values would only add to the behaviours that go
wrong.

**JavaPreflow** is `concurrent.java`, main and one process per `Task`. A step has one
access another thread can notice; what happens to data under a lock all its users
hold joins such a step.

| steps | code |
|---|---|
| `InitialPush` | 153-161 |
| `ScanNode`, `StartThread` | 165-173 and 270-282: the constructor looks at one node after the other while the threads before it run |
| `TakeNode`, `Exit` | 287-292; only the owner takes from its queues, so the test and the `poll` are one step |
| `LockNode` | 294 |
| `ExamineEdge` | 300-311: the lock of the higher end, if that is not `u`, and the test |
| `ReadAmount`, `PushFlow` | 113-119 |
| `LoadExcess`, `StoreExcess` | 121-122: a read and a write for each of `u.e` and `v.e`; the lower end's are unprotected |
| `QueueOwn`, `QueueOther`, `OfferOther` | 316-328 |
| `LookAtFlow`, `LookAtHeight`, `Raise` | 77-89: the flows and heights the other threads change meanwhile |
| `Requeue` | 341-353 |
| `Return` | 176-184 |

The iterator goes on behind a push (the `break` is commented out), and it relabels
only if the whole round made no push (`GoOn`). The sink and the source are queued
like other nodes (line 321 tests neither), and a source without residual capacity
computes `Integer.MAX_VALUE + 1`, which wraps around (`Above`). Excess may become
negative, when a store of `v.e` under no lock of `v` (line 122) brings back an older value
while the owner pushes: `Requeue` then puts the node into no queue (line 341), and
whoever gives it excess later does.

**TwoLockQueue** is `queue.c` under any mix of calls. Nodes are cells of memory that
`free` gives back and `malloc` may hand out again with their old contents; a failing
`malloc` ends the process. `list` is a history variable, the cells from the dummy to
the last one linked, from which `Items`, the abstract queue, is read. The two locks do
not exclude each other, so line 57 may read the pointer line 49 is writing: it gets the
old or the new one. Loads and stores take effect in program order, as they do on x86-64
(the accesses are single words, and the compiler cannot move them over the calls that
lock and unlock); on a machine that reorders stores a dequeuer might see a node linked
before it is filled, and this model does not cover that. **FifoQueue** is what it
implements.

**Slips.** Next to some definitions stands a variant commented "A slip": the
definition with a plausible mistake in it (a lost signal, `u`'s lock first, the
list entry forgotten). No specification uses them; they are there to be put in
the place of the right definition, and then the property they are paired with in
`PROJECT.json` must fail. That is how each property is known to watch something.

## 3. What TLC checks

| run | instance | states | shows |
|---|---|---|---|
| `preflow_push_layers` | 5 nodes, 7 edges, an edge inside a layer, small last edges | 1 104 | all orders of pushes and relabels: capacities, valid labelling, a saturated cut, the right answer, heights below `2N`, termination |
| `sequential_ladder` | 8 nodes, 10 edges | 107 (the program is deterministic) | the list is the set of nodes with excess, the refinement |
| `concurrent_diamond` | 3 threads, 4 nodes, 5 edges | 244 775 | everything about the threads, no ring of waiting threads, with the refinement and termination |
| `barrier_wrap` | 4 threads, 5 rounds, a phase of 2 values | 1 036 | nobody passes early, one serial thread per round, everybody gets through |
| `queue_reuse` | 3 threads, 2 values, 4 cells, threads and cells symmetric | 1 350 468 | a first-in first-out queue, and no use of a freed node |
| `forsete_calls` | 2 calls, each with any of 65 graphs of 3 or 4 nodes, 12 links | 16 911 | every call returns the maximum flow of its graph, the pointers tie no cycle, all links are given back once |
| `java_row` | 3 threads, 4 nodes in a row, the source has more than the sink takes | 1 685 801 | one owner per node, one pusher per edge, no excess out of sight, no ring |
| `actors_diamond` | 4 nodes, 5 edges | 213 302 | flow in nodes, handlers and messages adds up, requests are counted, heights in requests are current, main is answered if it asked in time |
| `java_answer` | the same row, all capacities 1 | violated | the answer can be 0 where the maximum is 1 |
| `actors_answer` | the actors' diamond | violated | the answer can be 1 where the maximum is 3 |
| `actors_elbow` | 4 nodes, 4 edges | violated | main is answered with flow still in the mailboxes |
| `actors_late` | 3 nodes in a row | violated | main asks after the end and is never answered |

*What the violated runs show.* In `java_answer` thread 1 finds both its queues empty
and returns (line 287); then thread 0 pushes the one unit there is to node 2, which is
in the range of thread 1, and offers it to the external queue nobody polls any more.
All threads end, the unit stays at node 2 with the way to the sink open, and `preflow`
returns 0 where the maximum is 1. No update of `e` is lost on the way. The instance is
chosen for that: on the row of `java_row` excess has to go back to the source, which is
queued like any node and pushes it out again, so there thread 0 only runs out of work
after an update was lost. Lost updates (lines 121-122, of the end without a lock)
are an error of their own: flow vanishes or appears, and `e` no longer
is what the edges say. In `actors_answer` the two inner nodes both push over
the edge between them, and one of the unprotected updates of `f` is lost. When the
second push is refused and taken back, `f` ends above `c`; node 1 then pushes a negative
amount over the edge, takes it for full from there on although it has carried nothing
from node 1 to node 2, and sends 2 units back to the source. The answer is 1;
no cut is smaller than 3.
`actors_elbow` goes further. Node 1 tests `f < c`, node 2 changes `f`, and node 1
computes the negative amount `c - f`: it now has more excess than it was given, and
a node that accepts the request owes flow. With a push of 1 and one of -1 on their way the flows at
source and sink are equal, and the argument of `doc/labs.tex:75-78` - equal flows mean
that no other node has any - no longer applies. `actors_late` needs no race between
nodes: `Maxflow` comes from the main thread, and nothing makes it arrive before the
last `Done`. On the diamond itself `AnswerIsFinal` is not broken, so the run that
breaks it has larger capacities.

*Bounds.* The size of the instance is bounded, and by name: the rounds of the barrier
(`Rounds`), the calls and links of `forsete_calls` (`Calls`, `Links`: two calls show
what a call leaves behind for the next one, and 12 links are what the largest graph
needs), and in `JavaPreflow` the heights (`MaxHeight` = 8) and the excess
(`MaxExcess` = 4, either way): lost updates create excess that no sink takes, so neither
need stop growing. These bounds are enough for excess to go over every node and back, for
the sink and the source to be relabelled, for the wrap-around, and for an inner node
that `Requeue` has dropped with negative excess to gain some later. A thread at a bound stops where it
is; the proofs hold for every value of both. No other variable of the preflow programs is capped, as the
algorithm bounds them itself. The graphs were chosen so that the interesting cases
happen: the source can send more than the sink can take, so excess climbs back
over several relabels; edges are pushed along in both directions, also those
written from the node that ends up lower; partial pushes leave excess behind; two
threads meet on an edge between two nodes that both have excess. Taking
the node's own lock first makes two threads of the diamond wait for each other (the
slip `OwnFirst`). The 65 graphs of `forsete_calls` are all choices of six possible edges
between four nodes, with two capacities for some, and a path of three nodes: edges
written either way, parallel edges, inner nodes that cannot reach the sink. In the
row of `java_row` the threads own two, two and none of the four nodes, as happens when
the threads do not divide them: the edge between the inner nodes is the border between
two owners, one of which also works on the source and the other on the sink. The
source can send 3 and the sink take 1: source and node 2 then give to node 1 at the
same time, and a late store of node 2's thread hides what the source gave. With three threads on the
diamond's two inner nodes at least two wait when the last one leaves, so the signals
must be chained. Four cells let a queue hold two values besides its dummy and a
dummy not yet freed, and each cell is reused many times. The actors' graphs are the
smallest on which the two inner nodes share an edge; nothing in that model is bounded,
and on these graphs its heights stop growing by themselves.
A phase of two values wraps every second round.

*Fairness.* `WF_vars(WorkerStep(w))` for every thread and `WF_vars(MainStep)`:
the operating system schedules every thread that can run. A thread waiting for a
mutex gets weak fairness only; that suffices because no thread is overtaken for
ever: work runs out. Nothing makes `pthread_cond_wait` return without a signal, so
`SpuriousWakeup` has no fairness, and `Termination` does not lean on it. A call of
`ForsetePreflow` runs on (`WF_vars(Run)`), while the judge need not call again; the
abstract loop gets `WF_vars(Next)`. `SequentialPreflow` and `JavaPreflow` are checked
for safety only and have no fairness: that the abstract algorithm ends is
`Termination` of `PreflowPush`, and the Java program ends too early rather than too
late. Threads of
`Barrier` are assumed to come back for their next round. Akka's dispatcher gives every
actor with a message a turn, and main goes on to ask: `WF_vars` per actor, for the
controller and for `Ask`. Nothing is assumed about how long any of them takes, which
is why main may ask late.

*Deadlock* is checked in the runs of `ConcurrentPreflow`, `Barrier`, `TwoLockQueue` and
`ActorPreflow`, where the only states without a further step are the ended process and
actors with nothing left to do (`Ended` and `Rest` stutter there). It
is off for `PreflowPush`, `SequentialPreflow`, `ForsetePreflow` and `JavaPreflow`, which
stop when they are done (the last also at its bounds); that no threads of
`JavaPreflow` block each other is `NobodyWaitsInARing`.

## 4. What is proved

All proofs hold for every graph that satisfies the assumptions of `FlowGraph`, every
number `T > 0` of threads, and (in `Barrier`) every width and number of rounds.

**FlowGraphProof.** What the other proofs need to know of the operators of `FlowGraph`
and `MaxFlow`. The library's induction theorems take an operator as a parameter, which
the provers cannot instantiate, so induction is done by the least counterexample: a set
of numbers that is not empty has a least member (`SetOfNaturals`), a finite set can be
taken apart element by element (`SetOfSubsets`). On it rest the facts about sums over a
finite set of edges or nodes, as the community modules' fold defines them: the order of
the elements does not matter, an element can be added or taken out (`SumAdd`,
`SumRemove`), one value changes (`SumChange`), an amount moves from one element to
another (`SumMove`), the elements are renamed (`SumRenamed`). On the sums rest the
lemmas about preflows. `Preflow` (in `ValidPreflow`) relates heights, excess, flows and
the source's edges that are not yet saturated: the types, the capacities, the labelling,
the heights of source and sink, no flow on an edge not yet saturated, and the balance of
flow (`FlowBalanced`): what a set of nodes without the source has in excess is what
flows into it less what flows out; and all nodes together have what the saturated edges
of the source can carry (`ExcessAccounted`). Zeros and the risen source are one
(`StartIsPreflow`), and the three steps keep it (`SaturateKeepsPreflow`,
`PushKeepsPreflow`, `RelabelKeepsPreflow`): a push uses an edge that goes down, so the
reverse edge it may open goes up; a relabel raises a node none of whose residual edges
goes down, so afterwards they go down by one at most. No variable occurs in these
lemmas, so they serve the abstract algorithm and `forsete.c` alike.

**PreflowPushProof.** `IInv` is `Preflow(h, e, f, pending)`.

* `SaturatedCutAlwaysExists`: the source is at `N` and the sink at 0, so one of the
  `N - 1` heights from 1 to `N - 1` is the height of none of the other `N - 2` nodes
  (`HeightGap`, in `FlowGraphProof`); the nodes above the gap form a cut no residual edge leaves.
* `AnswerAlwaysMaxFlow`: when no inner node has any excess, `FlowBalanced` makes the excess
  of the sink the flow over every cut (`AnswerCrosses`), so no cut has a smaller
  capacity, and the saturated one has exactly that. This is max-flow min-cut for every
  graph, with the minimum over cuts that `MaxFlow` computes as the reference.
* `HeightAlwaysBounded`: no node rises to `2N` or higher. `HeightGap` is used a second
  time, between `N` and `2N`: if a node with excess rose that high, one of the heights
  in between would be the height of no node. Every edge out of the set of nodes above
  would be full, so flow leaves the set and none enters, and it could not hold excess
  (`ExcessStaysLow`). So a node
  with excess always has a way back to the source, which the textbook proves by
  induction over paths in the residual graph.
* `ExcessAlwaysBounded`: no node has more than the edges of the source can carry
  together (`ExcessIsLimited`), which is the bound an `int` must hold for the sums in
  `push` and `preflow`. The same theorem is carried over to the sequential
  and the concurrent program, and holds for each call of `forsete.c`.

**SequentialPreflowProof.** The list is the set of nodes with excess, without
repetition (`ListAlwaysExact`), and every round is a step of `PreflowPush`
(`Refinement`). Through the refinement, the value printed is the maximum flow
(`AnswerAlwaysMaxFlow`) and flows and heights stay in bounds (`BoundsAlwaysRespected`).

**ConcurrentPreflowProof.** The inductive invariant says who owns what. Its parts
(defined at the top of the module): the locals of a thread fit its place in the
code; a thread at a place inside a locked section holds those locks, and nobody
else does; every node with excess is in the list once or owned by exactly one thread
(`ExcessHasOneKeeper`); the edges a thread has passed over are inadmissible; the
count is exact, and whoever is between taking a node and coming back is counted; if
a thread has returned, the count is 0 and the list is empty. The heart is
`PassedEdgesStayInadmissible`: an edge of `u` passed over was level, uphill or
full. Only `u`'s owner pushes out of `u` or relabels it, and there is one owner; any
other thread can only raise the other end, or push into `u` along the edge when
that end is above `u` - and then the edge goes uphill as seen from `u`. That is why
dropping the locks during the scan is harmless. From it follow

* `Refinement`: the threads together only take steps of `PreflowPush`;
* `CapacityAlwaysRespected`, `HeightAlwaysBounded` and `AnswerAlwaysMaxFlow`, carried
  over from `PreflowPushProof` through the refinement: whatever the interleaving, the
  value returned is the maximum flow of the graph, and no inner node keeps any;
* `NobodyEverLeavesEarly`: with the count exact, the last thread to stop being
  active leaves no keeper for any excess;
* `NobodyEverWaitsInARing`: a thread that holds a lock and waits, waits for a
  higher node; in a set of threads each waiting for another of the set, the thread
  waiting for the highest node would wait for a holder that waits higher.

**ForsetePreflowProof.** For any set of graphs the judge may have, any number of calls,
and any heap with room for two links for each edge of one graph (`InputsAssumption`;
when `malloc` fails all the same, `OutOfMemory` ends the process). The invariant says what holds
at each place of a call: `Connecting`, `Saturating`, `Choosing`, `Scanning`, `Freeing`.
It has two parts, which do not touch each other, and the third rests on both.

* The links. `Listed` says that for each node there is a bound such that the node's list
  runs downwards through its edges below the bound, one link for each, all
  different (`own` names the link of an edge in a node's list), and that no other link is
  allocated. `connect` raises the bounds of two nodes (`LinkAdded`), freeing the first
  link of a list lowers one (`LinkFreed`). The pointers from the head reach
  exactly these links (`ReachedFacts`, by induction over the steps one way and over the
  distance of an edge from the bound the other way), so `MemoryIsAlwaysReached`; that no
  links are left when `free_graph` is through is the case of all lists empty.
* The list of nodes with excess. `Linked` says that the next pointers run through a
  sequence of inner nodes without repetition, and `ListOf` which nodes these are.
  `enter_excess` of a node that is not among them puts it in front (`EnterInFront`);
  `PushedList` shows that `push` only calls it for such nodes: `v->e == d` holds exactly
  if `v` had no excess, and `u` has been taken out. So `ListAlwaysHoldsTheExcess`.
* The flow. While the source's edges are saturated, those the scan has not come to
  are the pending ones of a `Preflow` of the graph of the call; the scan of a node has passed over
  inadmissible edges only. When the list is empty no inner node has excess, and
  `AnswerIsSmallestCut` gives `AnswersAreAlwaysMaxFlows`: for every call, since nothing
  of an earlier one is left in the arrays or in the lists.

**JavaPreflowProof.** For every graph, any number of nodes and of threads, and whatever
updates of `e` are lost, five things hold. The range of a `Task` begins where the one
before it ends and contains exactly the nodes whose `ownerThread` it is
(`OwnerFacts`, from the truncating division alone), so `OwnersAlwaysAgree`. The locks a
thread holds can be read off its place in the code (`LocksFit`): `u`, and second
while it pushes. Two pushers of one edge would both hold the lock of its higher end
(`EdgeAlwaysHasOnePusher`). A thread that is waited for holds only its `u` when it waits
itself, and waits for a higher node, so a ring has no highest member
(`NobodyEverWaitsInARing`). `ExcessAlwaysQueued` follows step by step: who writes a
node's excess looks at it again before it is through (`Keeps`), a node that leaves a
queue goes to the place of its thread, and a `Task` made later finds the node itself.
The invariant adds what these steps need: iterators inside their lists (part of
`TypeOK`), excess and queue entries only at nodes with an edge (`EdgesReached`), and
the order in which main makes the threads (`StartOrder`). So excess is only left lying in the queue of a
thread that has returned, which is what `java_answer` finds. That the excess is the right
amount is not proved and not true: updates of `e` get lost.

**ActorPreflowProof.** The flow of an edge is written by two actors without
protection, so nothing is proved about the flows of inner edges; what the messages
guarantee does not depend on them.

* `RequestsAlwaysCounted`: a request in a mailbox counts for its sender,
  its answer takes its place when it is handled, and handling the answer takes one from
  `pushRequest` (`SentCounts`, `TakenCounts`: a send adds one place to a mailbox, a
  receipt removes the first and moves the others up).
* `RequestHeightAlwaysCurrent` rests on it: `pushToNeighbours` relabels only with
  `pushRequest <= 0`, so no request of a relabelled node is on its way
  (`HeightsFollow`).
* `ExcessAlwaysConserved`: a node's share is its excess, what it has in hand in
  the loop of `pushToNeighbours`, and the amounts of the requests and refusals in its
  mailbox. Every step either leaves each share as it is or moves an amount from
  one to another, so their sum stays what it was (`SumMove`). The sum over the
  places of a mailbox follows sends and receipts by renaming the places
  (`SumRenamed`).
* `TypeCorrect`: the type invariant says more than it seems to, since the sink never
  reports a negative `outgoingFlow` although requests for negative amounts
  exist. It needs `SinkInv`: the sink sends no request, so the flow of an edge to the
  sink has one writer, who sees all of its own writes, so a push over it is never for
  more than is left (`RoomLeft`) nor for less than nothing, and what arrives at the sink
  is never negative.

The invariant adds the types of the messages, that a request is about an edge of its
receiver, that only nodes with an edge get requests and answers, and that the loop's
index is inside the list.

**QueueAndBarrierProof, the barrier.** (Names of `Barrier` that the queue has too begin
with `B` here: `BInit`, `BNext`, `BSpec`, `BTypeOK`; the places of its threads are
`place`.) The count is the number of threads waiting in the current round,
and a thread's number of calls is the number of openings, one more if it waits. A
thread that has been released but has not left is in neither, so the barrier cannot
open again and its phase cannot come back to the remembered one.

**QueueAndBarrierProof, the queue.** The invariant says which cells are the list (all different, all
allocated, each linked to the next, the last to NULL), which belong to one thread only
(a node not yet linked, a dummy not yet freed), and that `tail` is the last cell unless
the holder of `t_lock` has linked one more. So an enqueuer at line 49 always writes to
the last cell of the list, which no dequeuer can have freed, since freeing a cell takes
a successor (`NeverUsedAfterFree`). `Refinement`: linking is the abstract enqueue,
moving `head` the abstract dequeue, and reading NULL at line 57 happens only when the
list is the dummy alone.

*Only model-checked:* termination and the other liveness
properties, which need fairness; the properties of the four runs that end in a
violation, which do not hold.

## 5. What is left out

* Reading the input, error texts and debug prints; allocating and freeing the graph,
  except in `forsete.c`, where both are modelled.
* Widths of integers: the capacities of the source's edges are assumed to fit an `int`
  together, and twice any capacity (`c - f` of an edge full the other way). By
  `ExcessAlwaysBounded` and `HeightAlwaysBounded` nothing else is needed in C. The one
  arithmetic that does wrap around on ordinary inputs, `minHeight + 1` in
  `concurrent.java`, is modelled.
* The other way to compile `forsete.c` (with `MAIN`), which reads its input as
  `lab0/preflow.c` does; the judge that calls `preflow`, beyond its calls.
* `swish`: the Rust program holds one lock over all accounts during a transfer, the
  Clojure program changes both balances in one `dosync` transaction. No two
  transfers interleave, so no property of an order of steps could fail; a model would
  restate the assignment.
* The Rust and Clojure preflow programs: in them the push is left as an exercise.
* Reads of old values in the Java program, whose fields are not volatile: a write is
  taken to be seen by the next read. Older values would add behaviours. Of the
  results only `ExcessAlwaysQueued` leans on reads without a lock (of the lower
  end's `e`); the other four hold whatever these reads return.
* `pthread_join` failing, and mutex operations failing: the code does not test the
  latter.
* Weak memory: all shared data of the POSIX preflow and of the barrier is accessed
  under locks, or before the threads are created and after they are joined. For the
  queue and the actors, see section 2.
* The actors' messages `Debug`, `Print` and `Excess`, which nobody sends, the 160
  seconds after which `Await` gives up, and `free_queue`.
* Destroying a barrier: no source file does so.

## 6. Plan

Every program of the repository with an algorithm in it is modelled, and every safety
property a passing run checks is a theorem; the liveness properties need fairness and
stay with TLC. What remains is an abstract specification of the actors that tolerates
negative requests, which `PreflowPush` does not.
