--------------------------- MODULE ActorPreflow ----------------------------
(***************************************************************************)
(* lab1/preflow.scala: one actor per node and a controller.  A node sends  *)
(* its excess to a neighbour with a PushRequest that carries its height,   *)
(* the neighbour answers Accept or Reject, and the controller collects     *)
(* what the source and the sink report.                                    *)
(*                                                                         *)
(* A mailbox is a queue; a local send puts the message at its end at once. *)
(* An actor works on one message at a time, and everything it does with    *)
(* its own attributes is invisible to the others.  What others see is sent *)
(* messages and the field f of the Edge objects, a plain variable that     *)
(* both end points read and write unprotected.  A step of the model has    *)
(* one such access: one read of f, one write of f or one send.             *)
(*                                                                         *)
(* The behaviours start after the controller received the array of nodes:  *)
(* every actor has its edges, its controller and its role (these messages  *)
(* are in the mailboxes before any other) and the source begins to push.   *)
(***************************************************************************)
EXTENDS MaxFlow, FiniteSets

VARIABLES
    h,            \* h, e, pushRequest and listIndex of a Node
    e,
    pushRequest,
    listIndex,
    f,            \* f of an Edge
    box,          \* the mailboxes of the nodes
    at,           \* where each node is in its handler
    cbox,         \* the mailbox of the controller
    known,        \* the controller has its array of nodes
    finish,       \* the node sendFinishRequestToNodes is at, or 0
    incommingFlow,
    outgoingFlow,
    counter,
    ret,          \* the controller's ret is set
    asked,        \* main has sent Maxflow
    answer        \* what Await returned to main

nodeVars == <<h, e, pushRequest, listIndex, f, box, at>>
controlVars == <<known, finish, incommingFlow, outgoingFlow, counter, ret, answer>>
vars == <<nodeVars, controlVars, cbox, asked>>

NoAnswer == -1

-----------------------------------------------------------------------------
(* Messages, and where a handler is.                                        *)

Request(x, d, ht) == [kind |-> "request", x |-> x, d |-> d, height |-> ht]
Accept            == [kind |-> "accept"]
Reject(x, d)      == [kind |-> "reject", x |-> x, d |-> d]
IsDone            == [kind |-> "isdone"]

Incoming(n)  == [kind |-> "incoming", flow |-> n]
Outgoing(n)  == [kind |-> "outgoing", flow |-> n]
Done(status) == [kind |-> "done", status |-> status]
Maxflow      == [kind |-> "maxflow"]

\* The step a node takes next, the edge it concerns, the amount on its way and
\* the value of f last read.
At(step, x, d, seen) == [step |-> step, x |-> x, d |-> d, seen |-> seen]
Idle == At("idle", 0, 0, 0)

Steps == {"idle", "saturate", "test", "amount", "load", "store", "send",
          "undo", "report"}

Sent(b, to, msg) == [b EXCEPT ![to] = Append(@, msg)]

\* Where a node that comes to edge x begins: only the test for a push along the
\* edge's own direction reads f.
Begin(a, x) == At(IF EdgeU[x] = a THEN "test" ELSE "amount", x, 0, 0)

\* The push a node can make over x with excess ex when it reads fx.
PushAmount(a, x, ex, fx) ==
    Lesser(ex, IF EdgeU[x] = a THEN Cap[x] - fx ELSE fx + Cap[x])

\* f after d more from a, or after d less.
FlowPlus(a, x, fx, d) == IF EdgeU[x] = a THEN fx + d ELSE fx - d

-----------------------------------------------------------------------------
(* pushToNeighbours, from the call or from any turn of its loop: the node   *)
(* has excess ex, rq requests not yet answered, and the loop is at ix.  It  *)
(* goes on with its next edge; after the last one it starts over, one level *)
(* higher, unless it must wait for answers.                                 *)

\* (A slip, see README: answers are not waited for.)
PausesWhenEmpty(ex, rq) == ex <= 0

\* No excess, or requests not yet answered: if (pushRequest > 0) return.
Pauses(ex, rq) == ex <= 0 \/ rq > 0

GoOn(a, ex, rq, ix) ==
    LET waits    == ex = 0 \/ (ix = Len(Adj[a]) /\ Pauses(ex, rq))
        relabels == ~waits /\ ix = Len(Adj[a])
        from     == IF relabels THEN 0 ELSE ix
    IN  /\ h' = [h EXCEPT ![a] = IF relabels THEN @ + 1 ELSE @]
        /\ listIndex' = [listIndex EXCEPT ![a] = from]
        /\ at' = [at EXCEPT ![a] = IF waits THEN Idle ELSE Begin(a, Adj[a][from + 1])]

\* The call of pushToNeighbours at the end of a handler.
PushToNeighbours(a, ex, rq) ==
    IF a \notin Inner \/ Pauses(ex, rq)
    THEN at' = [at EXCEPT ![a] = Idle] /\ UNCHANGED <<h, listIndex>>
    ELSE GoOn(a, ex, rq, listIndex[a])

Init ==
    /\ h = [a \in Node |-> IF a = s THEN N ELSE 0]
    /\ e = [a \in Node |-> 0]
    /\ pushRequest = [a \in Node |-> 0]
    /\ listIndex = [a \in Node |-> 0]
    /\ f = [x \in Edge |-> 0]
    /\ box = [a \in Node |-> << >>]
    /\ at = [a \in Node |-> IF a = s /\ Adj[s] # << >>
                            THEN At("saturate", Adj[s][1], 0, 0) ELSE Idle]
    /\ cbox = << >>
    /\ known = TRUE
    /\ finish = 0
    /\ incommingFlow = 0
    /\ outgoingFlow = 0
    /\ counter = 0
    /\ ret = FALSE
    /\ asked = FALSE
    /\ answer = NoAnswer

-----------------------------------------------------------------------------
(* The source's start_push: an edge at a time, f := c whatever the edge's   *)
(* direction, and a request for all of it.                                  *)

Saturate ==
    /\ at[s].step = "saturate"
    /\ LET x == at[s].x
       IN  /\ f' = [f EXCEPT ![x] = Cap[x]]
           /\ e' = [e EXCEPT ![s] = @ - Cap[x]]
           /\ at' = [at EXCEPT ![s] = At("send", x, Cap[x], 0)]
    /\ UNCHANGED <<h, pushRequest, listIndex, box, cbox, asked, controlVars>>

\* The request leaves and the loop goes to its next edge.
SendFromSource ==
    /\ at[s].step = "send"
    /\ LET x == at[s].x
           i == CHOOSE j \in 1 .. Len(Adj[s]) : Adj[s][j] = x
       IN  /\ box' = Sent(box, Other(s, x), Request(x, at[s].d, h[s]))
           /\ at' = [at EXCEPT ![s] =
                IF i < Len(Adj[s]) THEN At("saturate", Adj[s][i + 1], 0, 0) ELSE Idle]
    /\ pushRequest' = [pushRequest EXCEPT ![s] = @ + 1]
    /\ UNCHANGED <<h, e, listIndex, f, cbox, asked, controlVars>>

-----------------------------------------------------------------------------
(* The turns of an inner node's loop, an access of f at a time.             *)

\* currentEdge.f < currentEdge.c
Test(a) ==
    /\ at[a].step = "test"
    /\ LET x == at[a].x
       IN  IF f[x] < Cap[x]
           THEN /\ at' = [at EXCEPT ![a] = At("amount", x, 0, 0)]
                /\ UNCHANGED <<h, listIndex>>
           ELSE GoOn(a, e[a], pushRequest[a], listIndex[a] + 1)
    /\ UNCHANGED <<e, pushRequest, f, box, cbox, asked, controlVars>>

\* var flowToPush = min(...); e -= flowToPush
TakeAmount(a) ==
    /\ at[a].step = "amount"
    /\ LET x == at[a].x
           d == PushAmount(a, x, e[a], f[x])
       IN  /\ e' = [e EXCEPT ![a] = @ - d]
           /\ at' = [at EXCEPT ![a] = At("load", x, d, 0)]
    /\ UNCHANGED <<h, pushRequest, listIndex, f, box, cbox, asked, controlVars>>

\* currentEdge.f += flowToPush, first its read and then its write.
Load(a) ==
    /\ at[a].step = "load"
    /\ at' = [at EXCEPT ![a] = At("store", @.x, @.d, f[@.x])]
    /\ UNCHANGED <<h, e, pushRequest, listIndex, f, box, cbox, asked, controlVars>>

Store(a) ==
    /\ at[a].step = "store"
    /\ f' = [f EXCEPT ![at[a].x] = FlowPlus(a, at[a].x, at[a].seen, at[a].d)]
    /\ at' = [at EXCEPT ![a] = At("send", @.x, @.d, 0)]
    /\ UNCHANGED <<h, e, pushRequest, listIndex, box, cbox, asked, controlVars>>

SendRequest(a) ==
    /\ at[a].step = "send"
    /\ box' = Sent(box, Other(a, at[a].x), Request(at[a].x, at[a].d, h[a]))
    /\ pushRequest' = [pushRequest EXCEPT ![a] = @ + 1]
    /\ GoOn(a, e[a], pushRequest[a] + 1, listIndex[a] + 1)
    /\ UNCHANGED <<e, f, cbox, asked, controlVars>>

-----------------------------------------------------------------------------
(* The messages a node receives.                                            *)

\* A node receives its first message.
Receives(a, kind) ==
    /\ at[a] = Idle
    /\ box[a] # << >>
    /\ Head(box[a]).kind = kind

\* A push is accepted when it comes from above.
Accepts(a, msg) == msg.height > h[a]

ReceivePushRequest(a) ==
    /\ Receives(a, "request")
    /\ LET msg    == Head(box[a])
           sender == Other(a, msg.x)
           taken  == [box EXCEPT ![a] = Tail(@)]
       IN  IF Accepts(a, msg)
           THEN /\ e' = [e EXCEPT ![a] = @ + msg.d]
                /\ box' = Sent(taken, sender, Accept)
                /\ IF a \in {s, t}
                   THEN /\ at' = [at EXCEPT ![a] = At("report", 0, 0, 0)]
                        /\ UNCHANGED <<h, listIndex>>
                   ELSE PushToNeighbours(a, e[a] + msg.d, pushRequest[a])
           ELSE /\ e' = e
                /\ box' = Sent(taken, sender, Reject(msg.x, msg.d))
                /\ PushToNeighbours(a, e[a], pushRequest[a])
    /\ UNCHANGED <<pushRequest, f, cbox, asked, controlVars>>

\* The source and the sink tell the controller what they have now.
Report(a) ==
    /\ at[a].step = "report"
    /\ cbox' = Append(cbox, IF a = t THEN Outgoing(e[a]) ELSE Incoming(e[a]))
    /\ at' = [at EXCEPT ![a] = Idle]
    /\ UNCHANGED <<h, e, pushRequest, listIndex, f, box, asked, controlVars>>

\* (A slip: the answer is not counted.)
Unanswered(a) == pushRequest

\* pushRequest -= 1
Answered(a) == [pushRequest EXCEPT ![a] = @ - 1]

ReceiveAccept(a) ==
    /\ Receives(a, "accept")
    /\ box' = [box EXCEPT ![a] = Tail(@)]
    /\ pushRequest' = Answered(a)
    /\ PushToNeighbours(a, e[a], pushRequest[a] - 1)
    /\ cbox' = IF a = s THEN Append(cbox, Incoming(e[a])) ELSE cbox
    /\ UNCHANGED <<e, f, asked, controlVars>>

\* (A slip: the flow does not come back.)
ExcessGone(a, msg) == e

\* The flow comes back: e += flow, and edge.f is read to be put back.
ExcessBack(a, msg) == [e EXCEPT ![a] = @ + msg.d]

ReceiveReject(a) ==
    /\ Receives(a, "reject")
    /\ LET msg == Head(box[a])
       IN  /\ e' = ExcessBack(a, msg)
           /\ at' = [at EXCEPT ![a] = At("undo", msg.x, msg.d, f[msg.x])]
    /\ box' = [box EXCEPT ![a] = Tail(@)]
    /\ pushRequest' = Answered(a)
    /\ UNCHANGED <<h, listIndex, f, cbox, asked, controlVars>>

\* edge.f += flow or edge.f -= flow
Restored(a) == FlowPlus(a, at[a].x, at[a].seen, -at[a].d)

Undo(a) ==
    /\ at[a].step = "undo"
    /\ f' = [f EXCEPT ![at[a].x] = Restored(a)]
    /\ PushToNeighbours(a, e[a], pushRequest[a])
    /\ UNCHANGED <<e, pushRequest, box, cbox, asked, controlVars>>

ReceiveIsDone(a) ==
    /\ Receives(a, "isdone")
    /\ box' = [box EXCEPT ![a] = Tail(@)]
    /\ cbox' = IF e[a] >= 0 THEN Append(cbox, Done(e[a] = 0)) ELSE cbox
    /\ UNCHANGED <<h, e, pushRequest, listIndex, f, at, asked, controlVars>>

NodeStep(a) ==
    \/ Test(a)
    \/ TakeAmount(a)
    \/ Load(a)
    \/ Store(a)
    \/ a # s /\ SendRequest(a)
    \/ ReceivePushRequest(a)
    \/ Report(a)
    \/ ReceiveAccept(a)
    \/ ReceiveReject(a)
    \/ Undo(a)
    \/ ReceiveIsDone(a)
    \/ a = s /\ (Saturate \/ SendFromSource)

-----------------------------------------------------------------------------
(* The controller.                                                          *)

ControlReceives(kind) ==
    /\ finish = 0
    /\ cbox # << >>
    /\ Head(cbox).kind = kind
    /\ cbox' = Tail(cbox)

\* An exception in the handler: the supervisor puts a new Preflow in the place
\* of the old one, with the same mailbox and nothing else.
Restart ==
    /\ known' = FALSE
    /\ finish' = 0
    /\ incommingFlow' = 0
    /\ outgoingFlow' = 0
    /\ counter' = 0
    /\ ret' = FALSE
    /\ UNCHANGED answer

\* What left the source is what reached the sink.
Balanced(in, out) == in = out

\* IncomingFlow and OutgoingFlow: with equal flows every inner node is asked
\* whether it is done, for which the controller needs its array of nodes.
FlowsBecome(in, out) ==
    IF Balanced(in, out) /\ ~known
    THEN Restart
    ELSE /\ incommingFlow' = in
         /\ outgoingFlow' = out
         /\ finish' = IF Balanced(in, out) /\ Inner # {} THEN 1 ELSE 0
         /\ UNCHANGED <<known, counter, ret, answer>>

\* (A slip: abs is forgotten.)
Signed(n) == n

\* abs
Magnitude(n) == IF n < 0 THEN -n ELSE n

ReceiveIncomingFlow ==
    /\ ControlReceives("incoming")
    /\ FlowsBecome(Magnitude(Head(cbox).flow), outgoingFlow)
    /\ UNCHANGED <<nodeVars, asked>>

ReceiveOutgoingFlow ==
    /\ ControlReceives("outgoing")
    /\ FlowsBecome(incommingFlow, Head(cbox).flow)
    /\ UNCHANGED <<nodeVars, asked>>

\* sendFinishRequestToNodes: a node at a time.
SendFinishRequest ==
    /\ finish > 0
    /\ box' = Sent(box, finish, IsDone)
    /\ finish' = IF finish + 1 < N - 1 THEN finish + 1 ELSE 0
    /\ UNCHANGED <<h, e, pushRequest, listIndex, f, at, cbox, asked, known,
                   incommingFlow, outgoingFlow, counter, ret, answer>>

\* Enough answers: the flow goes to ret, which is null until Maxflow came.
ReceiveDone ==
    /\ ControlReceives("done")
    /\ IF ~Head(cbox).status
       THEN /\ counter' = 0
            /\ UNCHANGED <<known, finish, incommingFlow, outgoingFlow, ret, answer>>
       ELSE IF ~known \/ (counter + 1 = N - 2 /\ ~ret)
       THEN Restart
       ELSE /\ counter' = counter + 1
            /\ answer' = IF counter + 1 = N - 2 /\ answer = NoAnswer
                         THEN outgoingFlow ELSE answer
            /\ UNCHANGED <<known, finish, incommingFlow, outgoingFlow, ret>>
    /\ UNCHANGED <<nodeVars, asked>>

ReceiveMaxflow ==
    /\ ControlReceives("maxflow")
    /\ ret' = TRUE
    /\ UNCHANGED <<known, finish, incommingFlow, outgoingFlow, counter, answer,
                   nodeVars, asked>>

ControlStep ==
    \/ ReceiveIncomingFlow
    \/ ReceiveOutgoingFlow
    \/ SendFinishRequest
    \/ ReceiveDone
    \/ ReceiveMaxflow

\* val flow = control ? Maxflow, at whatever time main comes to it.
Ask ==
    /\ ~asked
    /\ asked' = TRUE
    /\ cbox' = Append(cbox, Maxflow)
    /\ UNCHANGED <<nodeVars, controlVars>>

\* Nothing is left to do.
Rest ==
    /\ asked /\ cbox = << >> /\ finish = 0
    /\ \A a \in Node : at[a] = Idle /\ box[a] = << >>
    /\ UNCHANGED vars

Next == (\E a \in Node : NodeStep(a)) \/ ControlStep \/ Ask \/ Rest

Spec == Init /\ [][Next]_vars

\* Akka's dispatcher lets every actor with a message run, and main goes on.
FairSpec ==
    /\ Spec
    /\ \A a \in Node : WF_vars(NodeStep(a))
    /\ WF_vars(ControlStep)
    /\ WF_vars(Ask)

-----------------------------------------------------------------------------

MessagesIn(a) == {box[a][i] : i \in 1 .. Len(box[a])}

\* Every variable has its type.
TypeOK ==
    /\ h \in [Node -> Nat] /\ pushRequest \in [Node -> Nat]
    /\ e \in [Node -> Int]
    /\ f \in [Edge -> Int]
    /\ \A a \in Node : listIndex[a] \in 0 .. Len(Adj[a])
    /\ \A a \in Node :
         at[a].step \in Steps /\ at[a].d \in Int /\ at[a].seen \in Int
    /\ \A a \in Node : \A msg \in MessagesIn(a) :
         msg.kind \in {"request", "accept", "reject", "isdone"}
    /\ \A i \in 1 .. Len(cbox) :
         cbox[i].kind \in {"incoming", "outgoing", "done", "maxflow"}
    /\ finish \in 0 .. N - 2 /\ counter \in Nat
    /\ incommingFlow \in Nat /\ outgoingFlow \in Nat
    /\ {known, ret, asked} \subseteq BOOLEAN
    /\ answer \in Nat \cup {NoAnswer}

\* The flow a's pushes in progress have taken from a and nobody has.
InHand(a) == IF at[a].step \in {"load", "store", "send"} THEN at[a].d ELSE 0

InMessages(a) ==
    SumOver(1 .. Len(box[a]),
            [i \in 1 .. Len(box[a]) |->
                IF box[a][i].kind \in {"request", "reject"} THEN box[a][i].d ELSE 0])

\* However requests, answers and the actors' steps interleave, no flow is lost
\* or made: what the nodes have, the handlers hold and the messages carry adds
\* up to nothing (e -= flow at lines 68-124, e += flow at 170 and 196).
ExcessIsConserved ==
    SumOver(Node, [a \in Node |-> e[a] + InHand(a) + InMessages(a)]) = 0

\* msg, in the mailbox of b, is a request of a or the answer to one.
Concerns(a, b, msg) ==
    \/ msg.kind = "request" /\ Other(b, msg.x) = a
    \/ msg.kind \in {"accept", "reject"} /\ a = b

\* Where in the mailboxes a's requests and the answers to them are.
Outstanding(a) ==
    UNION {{<<b, i>> : i \in {j \in 1 .. Len(box[b]) : Concerns(a, b, box[b][j])}} : b \in Node}

\* pushRequest counts exactly the requests on their way and the answers on
\* their way back, so a node that waits for it to be 0 (line 100) waits for
\* something and stops waiting when everything is known.
RequestsAreCounted ==
    \A a \in Node : pushRequest[a] = Cardinality(Outstanding(a))

\* The height a request carries is still its sender's when it is received: a
\* node with unanswered requests is not relabelled (line 100), so the receiver
\* compares the two nodes' present heights (line 169).
RequestHeightIsCurrent ==
    \A b \in Node : \A msg \in MessagesIn(b) :
        msg.kind = "request" => msg.height = h[Other(b, msg.x)]

\* Termination detection (lines 285-311): once main has its answer, no node
\* but the source and the sink has flow, none is on its way, and the answer is
\* all the sink will ever have.
AnswerIsFinal ==
    answer # NoAnswer =>
        /\ answer = e[t] /\ e[s] = -e[t]
        /\ \A a \in Inner : e[a] = 0
        /\ \A a \in Node : InHand(a) = 0 /\ InMessages(a) = 0

\* check-solution.sh: the printed flow is the maximum flow of the input.
AnswerIsMaxFlow == answer # NoAnswer => answer = MaxFlowValue

\* A controller that has learnt whom to answer before it needs to know answers
\* in the end (lines 280-311).
AskedInTimeIsAnswered == (ret /\ known) ~> answer # NoAnswer

\* "Sends Maxflow message to the Preflow actor and expects a reply" (lines
\* 364-367): main gets its answer, whenever it asks.
MainIsAnswered == <>(answer # NoAnswer)

=============================================================================
