------------------------- MODULE SequentialPreflow -------------------------
(***************************************************************************)
(* lab0/preflow.c: push-relabel by one thread.  The intrusive list of the  *)
(* nodes with excess (g->excess, v->next) is the sequence excess, used as  *)
(* a stack.  Nothing else runs, so one round of the loop of preflow is one *)
(* step: take the first node, look for its first admissible edge, push     *)
(* along it or relabel.                                                    *)
(***************************************************************************)
EXTENDS MaxFlow, Functions

VARIABLES
    h, e, f,   \* u->h, u->e and e->f
    excess,    \* the list g->excess, front first
    p,         \* how many of the source's links have been pushed along
    result     \* what preflow returns

vars == <<h, e, f, excess, p, result>>

Running == -1      \* no result yet

InFront(list, a) == <<a>> \o list

\* enter_excess: in front, but neither the source nor the sink.
Entered(list, a) == IF a \in {s, t} THEN list ELSE InFront(list, a)

\* v->e == d: v had no excess before the push.
HadNoExcess(ex, v, d) == ex[v] = d

\* The list after push(g, a, other(a, x), x) has moved d and left the excess ex.
ListAfter(list, ex, a, x, d) ==
    LET one == IF ex[a] > 0 THEN Entered(list, a) ELSE list
    IN  IF HadNoExcess(ex, Other(a, x), d) THEN Entered(one, Other(a, x)) ELSE one

\* push(g, a, other(a, x), x) when the excess is ex and the list is list.
PushAlong(list, ex, a, x) ==
    LET d == Amount(f, ex, a, x)
    IN  /\ f' = FlowAfter(f, a, x, d)
        /\ e' = ExcessAfter(ex, a, x, d)
        /\ excess' = ListAfter(list, e', a, x, d)

Init ==
    /\ h = [a \in Node |-> IF a = s THEN N ELSE 0]
    /\ e = [a \in Node |-> 0]
    /\ f = [x \in Edge |-> 0]
    /\ excess = << >>
    /\ p = 0
    /\ result = Running

\* One round of the first loop.
InitialPush ==
    /\ p < Len(Adj[s])
    /\ p' = p + 1
    /\ PushAlong(excess, [e EXCEPT ![s] = @ + Cap[Adj[s][p + 1]]], s, Adj[s][p + 1])
    /\ UNCHANGED <<h, result>>

\* leave_excess: the first node of the list is taken out.
Chosen == Head(excess)

InLoop == p = Len(Adj[s]) /\ excess # << >>

\* (A slip, see README: an edge that leads no lower will do.)
StopsAtLevel(k) ==
    /\ LevelAdmissible(f, h, Chosen, Adj[Chosen][k])
    /\ \A j \in 1 .. k - 1 : ~LevelAdmissible(f, h, Chosen, Adj[Chosen][j])

\* Link k is the first one the scan stops at.
StopsAt(k) ==
    /\ Admissible(f, h, Chosen, Adj[Chosen][k])
    /\ \A j \in 1 .. k - 1 : ~Admissible(f, h, Chosen, Adj[Chosen][j])

PushRound ==
    /\ InLoop
    /\ \E k \in 1 .. Len(Adj[Chosen]) :
          /\ StopsAt(k)
          /\ PushAlong(Tail(excess), e, Chosen, Adj[Chosen][k])
    /\ UNCHANGED <<h, p, result>>

\* (A slip: a relabelled node is not entered again.)
RelabelRoundForgets ==
    /\ InLoop
    /\ \A k \in 1 .. Len(Adj[Chosen]) : ~StopsAt(k)
    /\ h' = [h EXCEPT ![Chosen] = @ + 1]
    /\ excess' = Tail(excess)
    /\ UNCHANGED <<e, f, p, result>>

RelabelRound ==
    /\ InLoop
    /\ \A k \in 1 .. Len(Adj[Chosen]) : ~StopsAt(k)
    /\ h' = [h EXCEPT ![Chosen] = @ + 1]
    /\ excess' = Entered(Tail(excess), Chosen)
    /\ UNCHANGED <<e, f, p, result>>

Return ==
    /\ p = Len(Adj[s])
    /\ excess = << >>
    /\ result = Running
    /\ result' = e[t]
    /\ UNCHANGED <<h, e, f, excess, p>>

Next == InitialPush \/ PushRound \/ RelabelRound \/ Return

Spec == Init /\ [][Next]_vars

-----------------------------------------------------------------------------

TypeOK ==
    /\ h \in [Node -> Nat]
    /\ e \in [Node -> Nat]
    /\ f \in [Edge -> Int]
    /\ excess \in Seq(Inner)
    /\ p \in 0 .. Len(Adj[s])
    /\ result \in Nat \cup {Running}

\* The list holds exactly the nodes with excess: push only tests v->e == d to
\* know whether v is in it already.
ListHoldsTheExcess == \A a \in Inner : a \in Range(excess) <=> e[a] > 0

\* No node is entered twice, which would tie the next pointers into a cycle.
ListNeverRepeats == IsInjective(excess)

\* Every round is a push along an admissible edge or the relabelling of a node
\* that has none ("if we can push we must push").
PP == INSTANCE PreflowPush
        WITH pending <- {Adj[s][k] : k \in p + 1 .. Len(Adj[s])}

ImplementsPreflowPush == PP!Spec

\* What preflow returns is the value of a maximum flow.
AnswerIsMaxFlow == result # Running => result = MaxFlowValue

=============================================================================
