--------------------------- MODULE ForsetePreflow ---------------------------
(***************************************************************************)
(* lab0/forsete.c: preflow-push as a library function.  A judge's main     *)
(* calls preflow(n, m, s, t, e) again and again in one process; each call  *)
(* builds a graph on the heap, computes and gives everything back.  The    *)
(* algorithm is the one of lab0/preflow.c; here it runs on the real        *)
(* structures: links that malloc may have used before, and a list of nodes *)
(* with excess tied together by the next pointers of the nodes.            *)
(*                                                                         *)
(* One round of a loop is one step.  new_graph takes node 0 for the source *)
(* and node n-1 for the sink, whatever s and t are.                        *)
(***************************************************************************)
EXTENDS Integers, Sequences, NewGraph

CONSTANTS
    Inputs,    \* the graphs the judge has, records with n, m, u, v and c
    Calls,     \* how often it calls, a bound
    Links      \* how many links the heap has room for

Link == 1 .. Links
NULL == 0          \* a link
NoNode == -1       \* a NULL node_t*

\* The judge has graphs as FlowGraph assumes them, and there is room for the
\* links of any one of them.
ASSUME InputsAssumption ==
    /\ Calls \in Nat /\ Links \in Nat /\ Inputs # {}
    /\ \A k \in Inputs :
         /\ k.n \in Nat /\ k.n >= 2
         /\ k.m \in Nat /\ 2 * k.m <= Links
         /\ k.u \in [1 .. k.m -> 0 .. k.n - 1]
         /\ k.v \in [1 .. k.m -> 0 .. k.n - 1]
         /\ k.c \in [1 .. k.m -> Nat]
         /\ \A x \in 1 .. k.m : k.u[x] # k.v[x] /\ k.c[x] > 0

\* The operators of FlowGraph and MaxFlow for the graph g.
Of(g) == INSTANCE MaxFlow
           WITH N <- g.n, M <- g.m, EdgeU <- g.u, EdgeV <- g.v, Cap <- g.c,
                Adj <- ListsAfter(g.n, g.m, g.u, g.v)

VARIABLES
    calls,     \* calls made
    at,        \* where the process is
    g,         \* the arguments of the last call
    h, e, f,   \* the arrays g->v and g->e
    heap,      \* the allocated links, their contents, and node->edge
    excess,    \* g->excess and node->next
    u, p, i,   \* locals of xpreflow, new_graph and free_graph
    result     \* what xpreflow returned

vars == <<calls, at, g, h, e, f, heap, excess, u, p, i, result>>

Places == {"out", "allocate", "connect", "initial", "choose", "scan", "free", "exit"}

s == 0
t == g.n - 1

-----------------------------------------------------------------------------
(* Memory.                                                                  *)

\* What is left in a link after free: nothing a program may look at.
Freed == [edge |-> 0, next |-> NULL]

\* malloc of a link.  No line compares addresses of links, so any free one does.
Malloc(live) == CHOOSE c \in Link : c \notin live

\* (A slip: malloc without memset, with what an earlier call left there.)
Leftover(S) == [a \in S |-> 1]

\* xcalloc: the memory is filled with 0.
Zeroed(S) == [a \in S |-> 0]

\* add_edge: a new link at the front of a's list.
AddLink(hp, a, x) ==
    LET c == Malloc(hp.live)
    IN  [live |-> hp.live \cup {c},
         link |-> [hp.link EXCEPT ![c] = [edge |-> x, next |-> hp.head[a]]],
         head |-> [hp.head EXCEPT ![a] = c]]

-----------------------------------------------------------------------------
(* The list of nodes with excess.                                           *)

\* (A slip: the sink is entered too.)
EnteredUnlessSource(list, a) ==
    IF a = s THEN list
    ELSE [first |-> a, next |-> [list.next EXCEPT ![a] = list.first]]

\* enter_excess: in front, but neither the source nor the sink.
Entered(list, a) ==
    IF a \in {s, t} THEN list
    ELSE [first |-> a, next |-> [list.next EXCEPT ![a] = list.first]]

\* (A slip: v is entered whenever it received something.)
AlwaysEntered(list, ex, v, d) == Entered(list, v)

\* if (v->e == d) enter_excess(g, v)
EnteredIfNew(list, ex, v, d) == IF ex[v] = d THEN Entered(list, v) ELSE list

\* push(g, a, other(a, x), x) when the excess is ex.
PushAlong(ex, a, x) ==
    LET d == Of(g)!Amount(f, ex, a, x)
    IN  /\ f' = Of(g)!FlowAfter(f, a, x, d)
        /\ e' = Of(g)!ExcessAfter(ex, a, x, d)
        /\ excess' = EnteredIfNew(IF e'[a] > 0 THEN Entered(excess, a) ELSE excess,
                                  e', Of(g)!Other(a, x), d)

-----------------------------------------------------------------------------

Init ==
    /\ calls = 0 /\ at = "out"
    /\ g = CHOOSE any \in Inputs : TRUE
    /\ h = << >> /\ e = << >> /\ f = << >>
    /\ heap = [live |-> {}, link |-> [c \in Link |-> Freed], head |-> << >>]
    /\ excess = [first |-> NoNode, next |-> << >>]
    /\ u = NoNode /\ p = NULL /\ i = 0
    /\ result = 0

\* The judge calls preflow.
Call ==
    /\ at = "out" /\ calls < Calls
    /\ at' = "allocate" /\ calls' = calls + 1
    /\ g' \in Inputs
    /\ UNCHANGED <<h, e, f, heap, excess, u, p, i, result>>

\* new_graph up to its loop: the graph and the two arrays, all numbers 0 and all
\* pointers NULL.
Allocate ==
    /\ at = "allocate"
    /\ h' = Zeroed(Of(g)!Node) /\ e' = Zeroed(Of(g)!Node) /\ f' = Zeroed(Of(g)!Edge)
    /\ heap' = [heap EXCEPT !.head = [a \in Of(g)!Node |-> NULL]]
    /\ excess' = [first |-> NoNode, next |-> [a \in Of(g)!Node |-> NoNode]]
    /\ i' = 1
    /\ at' = "connect"
    /\ UNCHANGED <<calls, g, u, p, result>>

\* connect: edge i, in the list of its u and then in that of its v.
ConnectEdge ==
    /\ at = "connect" /\ i <= g.m
    /\ heap' = AddLink(AddLink(heap, g.u[i], i), g.v[i], i)
    /\ i' = i + 1
    /\ UNCHANGED <<calls, at, g, h, e, f, excess, u, p, result>>

\* xmalloc finds no memory, for the arrays or for a link: error and exit.
OutOfMemory ==
    /\ at \in {"allocate", "connect"}
    /\ at' = "exit"
    /\ UNCHANGED <<calls, g, h, e, f, heap, excess, u, p, i, result>>

\* xpreflow: the source rises, and p is the first of its links.
StartPushing ==
    /\ at = "connect" /\ i > g.m
    /\ h' = [h EXCEPT ![s] = g.n]
    /\ p' = heap.head[s]
    /\ at' = "initial"
    /\ UNCHANGED <<calls, g, e, f, heap, excess, u, i, result>>

InitialPush ==
    /\ at = "initial" /\ p # NULL
    /\ LET x == heap.link[p].edge
       IN  PushAlong([e EXCEPT ![s] = @ + g.c[x]], s, x)
    /\ p' = heap.link[p].next
    /\ UNCHANGED <<calls, at, g, h, heap, u, i, result>>

InitialPushesDone ==
    /\ at = "initial" /\ p = NULL
    /\ at' = "choose"
    /\ UNCHANGED <<calls, g, h, e, f, heap, excess, u, p, i, result>>

\* leave_excess takes the first node; the scan begins with its first link.
LeaveExcess ==
    /\ at = "choose" /\ excess.first # NoNode
    /\ u' = excess.first
    /\ excess' = [excess EXCEPT !.first = excess.next[@]]
    /\ p' = heap.head[u']
    /\ at' = "scan"
    /\ UNCHANGED <<calls, g, h, e, f, heap, i, result>>

\* (A slip: an edge on the level will do.)
FoundOnLevel == p # NULL /\ Of(g)!LevelAdmissible(f, h, u, heap.link[p].edge)

\* The edge the scan is at is admissible.
Found == p # NULL /\ Of(g)!Admissible(f, h, u, heap.link[p].edge)

ScanOn ==
    /\ at = "scan" /\ p # NULL /\ ~Found
    /\ p' = heap.link[p].next
    /\ UNCHANGED <<calls, at, g, h, e, f, heap, excess, u, i, result>>

Push ==
    /\ at = "scan" /\ Found
    /\ PushAlong(e, u, heap.link[p].edge)
    /\ at' = "choose"
    /\ UNCHANGED <<calls, g, h, heap, u, p, i, result>>

Relabel ==
    /\ at = "scan" /\ p = NULL
    /\ h' = [h EXCEPT ![u] = @ + 1]
    /\ excess' = Entered(excess, u)
    /\ at' = "choose"
    /\ UNCHANGED <<calls, g, e, f, heap, u, p, i, result>>

\* xpreflow returns; free_graph begins with node 0.
ReturnFlow ==
    /\ at = "choose" /\ excess.first = NoNode
    /\ result' = e[t]
    /\ i' = 0 /\ p' = heap.head[0]
    /\ at' = "free"
    /\ UNCHANGED <<calls, g, h, e, f, heap, excess, u>>

\* q = p->next; free(p); p = q
FreeLink ==
    /\ at = "free" /\ p # NULL
    /\ heap' = [heap EXCEPT !.live = @ \ {p}, !.link[p] = Freed]
    /\ p' = heap.link[p].next
    /\ UNCHANGED <<calls, at, g, h, e, f, excess, u, i, result>>

\* (A slip: the loop over the nodes stops at the last but one.)
LastButOne == g.n - 2

LastNode == g.n - 1

FreeNextNode ==
    /\ at = "free" /\ p = NULL /\ i < LastNode
    /\ i' = i + 1 /\ p' = heap.head[i + 1]
    /\ UNCHANGED <<calls, at, g, h, e, f, heap, excess, u, result>>

\* free of the arrays and of the graph, and the return of preflow.
FreeGraph ==
    /\ at = "free" /\ p = NULL /\ i = LastNode
    /\ h' = << >> /\ e' = << >> /\ f' = << >>
    /\ heap' = [heap EXCEPT !.head = << >>]
    /\ excess' = [first |-> NoNode, next |-> << >>]
    /\ u' = NoNode
    /\ at' = "out"
    /\ UNCHANGED <<calls, g, p, i, result>>

Run ==
    \/ Allocate \/ ConnectEdge \/ OutOfMemory
    \/ StartPushing \/ InitialPush \/ InitialPushesDone
    \/ LeaveExcess \/ ScanOn \/ Push \/ Relabel
    \/ ReturnFlow \/ FreeLink \/ FreeNextNode \/ FreeGraph

Next == Call \/ Run

Spec == Init /\ [][Next]_vars

\* A call that was made runs on.
FairSpec == Spec /\ WF_vars(Run)

-----------------------------------------------------------------------------

\* The links a list goes through from c on.
Reached(c) ==
    LET cells[k \in 0 .. Links] ==
          IF k = 0 THEN {c}
          ELSE cells[k - 1] \cup {heap.link[d].next : d \in cells[k - 1] \ {NULL}}
    IN  cells[Links] \ {NULL}

\* The pointer after k steps from g->excess, as a set: none after the end.
OnList ==
    LET nodes[k \in 0 .. g.n] ==
          IF k = 0 THEN {excess.first}
          ELSE {excess.next[a] : a \in nodes[k - 1] \ {NoNode}}
    IN  nodes

\* Every variable has its type.
TypeOK ==
    /\ calls \in 0 .. Calls /\ at \in Places /\ g \in Inputs
    /\ heap.live \subseteq Link
    /\ \A c \in Link : heap.link[c].next \in Link \cup {NULL}
    /\ p \in Link \cup {NULL} /\ i \in Nat /\ result \in Nat
    /\ at \in {"connect", "initial", "choose", "scan", "free"} =>
         /\ h \in [Of(g)!Node -> Nat]
         /\ e \in [Of(g)!Node -> Nat]
         /\ f \in [Of(g)!Edge -> Int]
         /\ excess.first \in Of(g)!Inner \cup {NoNode}

\* However the rounds follow each other, the next pointers from g->excess go
\* through exactly the inner nodes with excess, without a cycle: enter_excess
\* (lines 301-316) would tie one if it were called for a node of the list.
ListHoldsTheExcess ==
    at \in {"initial", "choose", "scan"} =>
        LET nodes == OnList
            taken == IF at = "scan" THEN {u} ELSE {}
        IN  /\ (UNION {nodes[k] : k \in 0 .. g.n}) \ {NoNode} =
                 {a \in Of(g)!Inner : e[a] > 0} \ taken
            /\ nodes[g.n] \subseteq {NoNode}

\* The allocated links are those the lists still reach, at every moment of a
\* call and after it: free_graph (lines 493-510) follows no freed link, frees
\* none twice and forgets none, call after call.
MemoryIsReached ==
    LET heads == CASE at \in {"connect", "initial", "choose", "scan"} -> {heap.head[a] : a \in Of(g)!Node}
                   [] at = "free" -> {p} \cup {heap.head[a] : a \in i + 1 .. g.n - 1}
                   [] OTHER -> {}
    IN  at # "exit" => heap.live = UNION {Reached(c) : c \in heads}

\* Each call computes the maximum flow of its own graph, whatever memory the
\* calls before it have left (check-solution.sh of lab0 compares the answers).
AnswersAreMaxFlows == at = "free" => result = Of(g)!MaxFlowValue

\* A call ends, in an answer or for want of memory.
EveryCallReturns == at = "allocate" ~> at \in {"out", "exit"}

=============================================================================
