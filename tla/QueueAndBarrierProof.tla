------------------------ MODULE QueueAndBarrierProof ------------------------
(***************************************************************************)
(* Proofs about the two small components with threads: the queue and the   *)
(* barrier.                                                                *)
(*                                                                         *)
(* The queue of lab2/c/queue.c, for any threads, values and memory.  The   *)
(* inductive invariant says which cells belong to the list and which to a  *)
(* single thread, and where tail may lag behind.                           *)
(***************************************************************************)
EXTENDS TwoLockQueue, Barrier, SequenceTheorems, FiniteSetTheorems, TLAPS

\* The cells of the list: linked in order, ended by NULL, all different and
\* none of them free.
ListOK ==
    /\ list[1] = head
    /\ \A i \in 1 .. Len(list) - 1 : next[list[i]] = list[i + 1]
    /\ next[list[Len(list)]] = Null
    /\ \A i, j \in 1 .. Len(list) : list[i] = list[j] => i = j
    /\ \A i \in 1 .. Len(list) : list[i] \in live

\* The places where a thread has a cell for itself: a node not yet linked, or
\* an old dummy not yet freed.
Private == {"lock_t", "link", "free"}

PrivateOK ==
    /\ \A th \in Thread : pc[th] \in Private =>
         /\ cell[th] \in live
         /\ \A i \in 1 .. Len(list) : list[i] # cell[th]
    /\ \A th \in Thread : pc[th] \in {"lock_t", "link"} => next[cell[th]] = Null
    /\ \A a, b \in Thread :
         a # b /\ pc[a] \in Private /\ pc[b] \in Private => cell[a] # cell[b]

LocksOK ==
    \A th \in Thread :
        /\ pc[th] \in {"link", "set_tail"} => t_lock = th
        /\ pc[th] \in {"read_next", "set_head"} => h_lock = th

\* tail is the last node, unless an enqueuer is about to move it there.
TailOK ==
    /\ tail = list[Len(list)] \/ \E th \in Thread : pc[th] \in {"set_tail", "exited"}
    /\ \A th \in Thread : pc[th] = "set_tail" => cell[th] = list[Len(list)]
    /\ \A a, b \in Thread : pc[a] = "exited" => pc[b] = "exited"

\* The dequeuer about to move head has the second node.
HeadOK ==
    \A th \in Thread : pc[th] = "set_head" => Len(list) >= 2 /\ cell[th] = list[2]

IInv == TypeOK /\ ListOK /\ PrivateOK /\ LocksOK /\ TailOK /\ HeadOK

-----------------------------------------------------------------------------

\* What a list is as a sequence.
LEMMA ListFacts ==
    ASSUME TypeOK
    PROVE  /\ Len(list) \in Nat /\ Len(list) >= 1
           /\ DOMAIN list = 1 .. Len(list)
           /\ \A i \in 1 .. Len(list) : list[i] \in Cell
  BY EmptySeq, LenProperties DEF TypeOK

LEMMA InitInvariant == Init => IInv
<1> SUFFICES ASSUME Init PROVE IInv
    OBVIOUS
<1>1. /\ list \in Seq(Cell) /\ list # << >> /\ Len(list) = 1 /\ list[1] = head
    BY DEF Init
<1>2. TypeOK
    BY <1>1 DEF Init, TypeOK, PC
<1>3. ListOK /\ PrivateOK /\ LocksOK /\ TailOK /\ HeadOK
    BY <1>1 DEF Init, ListOK, PrivateOK, Private, LocksOK, TailOK, HeadOK
<1>4. QED
    BY <1>2, <1>3 DEF IInv

\* A cell newly allocated is in nobody's use.
LEMMA NewNodeInvariant ==
    ASSUME IInv, NEW th \in Thread, NEW v \in Value, NEW c \in Cell, NewNode(th, v, c)
    PROVE  IInv'
<1>1. /\ Len(list) \in Nat /\ Len(list) >= 1
      /\ \A i \in 1 .. Len(list) : list[i] \in Cell /\ list[i] # c
    BY ListFacts DEF IInv, ListOK, NewNode
<1>2. \A a \in Thread : pc[a] \in Private => cell[a] # c
    BY DEF IInv, PrivateOK, NewNode
<1>3. TypeOK'
    BY NullAssumption DEF IInv, TypeOK, PC, NewNode, NextCleared, GoTo, queue
<1>4. ListOK'
  <2>1. \A i \in 1 .. Len(list) : next'[list[i]] = next[list[i]]
      BY <1>1 DEF IInv, TypeOK, NewNode, NextCleared
  <2>2. QED
      BY <1>1, <2>1 DEF IInv, ListOK, NewNode, queue
<1>5. PrivateOK'
  <2>1. pc' = [pc EXCEPT ![th] = "lock_t"] /\ cell' = [cell EXCEPT ![th] = c]
      BY DEF NewNode, GoTo
  <2>2. \A a \in Thread : a # th => pc'[a] = pc[a] /\ cell'[a] = cell[a]
      BY <2>1 DEF IInv, TypeOK
  <2>3. pc'[th] = "lock_t" /\ cell'[th] = c /\ next'[c] = Null
      BY <2>1 DEF IInv, TypeOK, NewNode, NextCleared
  <2>4. \A a \in Thread : a # th /\ pc[a] \in Private => next'[cell[a]] = next[cell[a]]
      BY <1>2 DEF IInv, TypeOK, NewNode, NextCleared
  <2>5. live' = live \cup {c} /\ list' = list
      BY DEF NewNode
  <2>6. QED
      BY <1>1, <1>2, <2>2, <2>3, <2>4, <2>5 DEF IInv, PrivateOK, Private
<1>6. LocksOK' /\ TailOK' /\ HeadOK'
    BY DEF IInv, TypeOK, LocksOK, TailOK, HeadOK, NewNode, GoTo, queue
<1>7. QED
    BY <1>3, <1>4, <1>5, <1>6 DEF IInv

\* A node is linked behind the last one, which is tail: its thread has t_lock,
\* so nobody is between linking and moving tail.
LEMMA LinkInvariant ==
    ASSUME IInv, NEW th \in Thread, Link(th)
    PROVE  IInv'
<1> DEFINE m == Len(list)
           c == cell[th]
<1>1. /\ m \in Nat /\ m >= 1
      /\ \A i \in 1 .. m : list[i] \in Cell
      /\ list \in Seq(Cell) /\ c \in Cell
    BY ListFacts DEF IInv, TypeOK
<1>2. /\ list' = Append(list, c) /\ next' = [next EXCEPT ![tail] = c]
      /\ pc' = [pc EXCEPT ![th] = "set_tail"] /\ pc[th] = "link"
      /\ UNCHANGED <<data, live, head, tail, h_lock, t_lock, cell, got>>
    BY DEF Link, GoTo, queue
<1>3. /\ list' \in Seq(Cell) /\ Len(list') = m + 1 /\ list'[m + 1] = c
      /\ \A i \in 1 .. m : list'[i] = list[i]
    BY <1>1, <1>2
<1>4. \A a \in Thread : pc[a] # "set_tail" /\ pc[a] # "exited"
    BY <1>2, NullAssumption DEF IInv, LocksOK, TailOK
<1>5. tail = list[m]
    BY <1>4 DEF IInv, TailOK
<1>6. /\ c \in live /\ next[c] = Null
      /\ \A i \in 1 .. m : list[i] # c
    BY <1>2 DEF IInv, PrivateOK, Private
<1>7. /\ next'[list[m]] = c
      /\ \A x \in Cell : x # list[m] => next'[x] = next[x]
    BY <1>1, <1>2, <1>5 DEF IInv, TypeOK
<1>8. /\ \A a \in Thread : a # th => pc'[a] = pc[a]
      /\ pc'[th] = "set_tail"
    BY <1>2 DEF IInv, TypeOK
<1>9. TypeOK'
  <2>1. list' # << >>
      BY <1>1, <1>3, EmptySeq
  <2>2. pc' \in [Thread -> PC] /\ next' \in [Cell -> Cell \cup {Null}]
      BY <1>1, <1>2 DEF IInv, TypeOK, PC
  <2>3. QED
      BY <1>2, <1>3, <2>1, <2>2 DEF IInv, TypeOK
<1>10. ListOK'
  <2>1. list'[1] = head'
      BY <1>1, <1>2, <1>3 DEF IInv, ListOK
  <2>2. ASSUME NEW i \in 1 .. m PROVE next'[list'[i]] = list'[i + 1]
    <3>1. CASE i = m
        BY <1>3, <1>7, <3>1
    <3>2. CASE i < m
      <4>1. i \in 1 .. m - 1 /\ i + 1 \in 1 .. m
          BY <1>1, <3>2
      <4>2. list[i] # list[m]
          BY <1>1, <3>2 DEF IInv, ListOK
      <4>3. QED
          BY <1>1, <1>3, <1>7, <4>1, <4>2 DEF IInv, ListOK
    <3>3. QED
        BY <1>1, <3>1, <3>2
  <2>3. next'[list'[m + 1]] = Null
      BY <1>1, <1>3, <1>6, <1>7
  <2>4. ASSUME NEW i \in 1 .. m + 1, NEW j \in 1 .. m + 1, list'[i] = list'[j]
        PROVE  i = j
    <3>1. (i \in 1 .. m \/ i = m + 1) /\ (j \in 1 .. m \/ j = m + 1)
        BY <1>1
    <3>2. QED
        BY <1>3, <1>6, <2>4, <3>1 DEF IInv, ListOK
  <2>5. \A i \in 1 .. m + 1 : list'[i] \in live'
    <3>1. \A i \in 1 .. m + 1 : i \in 1 .. m \/ i = m + 1
        BY <1>1
    <3>2. QED
        BY <1>2, <1>3, <1>6, <3>1 DEF IInv, ListOK
  <2>6. (m + 1) - 1 = m
      BY <1>1
  <2>7. QED
      BY <1>3, <2>1, <2>2, <2>3, <2>4, <2>5, <2>6 DEF ListOK
<1>11. PrivateOK'
  <2>1. ASSUME NEW a \in Thread, pc'[a] \in Private
        PROVE  a # th /\ pc[a] \in Private /\ cell[a] # c /\ cell[a] \in Cell
      BY <1>2, <1>8, <2>1 DEF IInv, TypeOK, PrivateOK, Private
  <2>2. ASSUME NEW a \in Thread, pc'[a] \in Private
        PROVE  /\ cell[a] \in live
               /\ \A i \in 1 .. m + 1 : list'[i] # cell[a]
    <3>1. \A i \in 1 .. m + 1 : i \in 1 .. m \/ i = m + 1
        BY <1>1
    <3>2. QED
        BY <1>3, <2>1, <2>2, <3>1 DEF IInv, PrivateOK
  <2>3. ASSUME NEW a \in Thread, pc'[a] \in {"lock_t", "link"}
        PROVE  next'[cell[a]] = Null
    <3>1. pc'[a] \in Private /\ pc[a] \in {"lock_t", "link"}
        BY <1>8, <2>3 DEF Private
    <3>2. cell[a] # list[m] /\ cell[a] \in Cell
        BY <1>1, <2>1, <3>1 DEF IInv, PrivateOK
    <3>3. QED
        BY <1>7, <3>1, <3>2 DEF IInv, PrivateOK
  <2>4. QED
      BY <1>2, <1>3, <2>1, <2>2, <2>3 DEF IInv, PrivateOK, Private
<1>12. LocksOK'
    BY <1>2, <1>8 DEF IInv, LocksOK
<1>13. TailOK'
    BY <1>2, <1>3, <1>4, <1>8 DEF IInv, TailOK
<1>14. HeadOK'
  <2>1. ASSUME NEW a \in Thread, pc'[a] = "set_head"
        PROVE  Len(list) >= 2 /\ cell[a] = list[2]
      BY <1>8, <2>1 DEF IInv, HeadOK
  <2>2. QED
      BY <1>1, <1>2, <1>3, <2>1 DEF HeadOK
<1>15. QED
    BY <1>9, <1>10, <1>11, <1>12, <1>13, <1>14 DEF IInv

\* Dequeuing makes the second node the dummy and leaves the old dummy to its
\* thread.
LEMMA SetHeadInvariant ==
    ASSUME IInv, NEW th \in Thread, SetHead(th)
    PROVE  IInv'
<1> DEFINE m == Len(list)
<1>1. /\ m \in Nat /\ m >= 2 /\ cell[th] = list[2] /\ list[1] = head
      /\ \A i \in 1 .. m : list[i] \in Cell
      /\ list \in Seq(Cell) /\ list # << >>
    BY ListFacts DEF IInv, TypeOK, HeadOK, ListOK, SetHead
<1>2. /\ list' = Tail(list) /\ head' = list[2] /\ cell' = [cell EXCEPT ![th] = head]
      /\ pc' = [pc EXCEPT ![th] = "free"] /\ pc[th] = "set_head"
      /\ got' = [got EXCEPT ![th] = data[list[2]]] /\ h_lock' = Null
      /\ UNCHANGED <<next, data, live, tail, t_lock>>
    BY <1>1 DEF SetHead, GoTo, OldDummy, memory
<1>3. /\ list' \in Seq(Cell) /\ Len(list') = m - 1
      /\ \A i \in 1 .. m - 1 : list'[i] = list[i + 1] /\ i + 1 \in 1 .. m
    BY <1>1, <1>2
<1>4. /\ \A a \in Thread : a # th => pc'[a] = pc[a] /\ cell'[a] = cell[a]
      /\ pc'[th] = "free" /\ cell'[th] = head
    BY <1>2 DEF IInv, TypeOK
<1>5. TypeOK'
  <2>1. list' # << >>
      BY <1>1, <1>3, EmptySeq
  <2>2. /\ pc' \in [Thread -> PC] /\ cell' \in [Thread -> Cell]
        /\ got' \in [Thread -> Value \cup {Nothing}] /\ head' \in Cell
      BY <1>1, <1>2 DEF IInv, TypeOK, PC
  <2>3. QED
      BY <1>2, <1>3, <2>1, <2>2 DEF IInv, TypeOK
<1>6. ListOK'
  <2>1. list'[1] = head'
      BY <1>1, <1>2, <1>3
  <2>2. ASSUME NEW i \in 1 .. m - 2 PROVE next[list'[i]] = list'[i + 1]
    <3>1. i \in 1 .. m - 1 /\ i + 1 \in 1 .. m - 1
        BY <1>1
    <3>2. list'[i] = list[i + 1] /\ list'[i + 1] = list[(i + 1) + 1]
        BY <1>3, <3>1
    <3>3. QED
        BY <3>1, <3>2 DEF IInv, ListOK
  <2>3. next[list'[m - 1]] = Null
      BY <1>1, <1>3 DEF IInv, ListOK
  <2>4. ASSUME NEW i \in 1 .. m - 1, NEW j \in 1 .. m - 1, list'[i] = list'[j]
        PROVE  i = j
      BY <1>1, <1>3, <2>4 DEF IInv, ListOK
  <2>5. \A i \in 1 .. m - 1 : list'[i] \in live
      BY <1>3 DEF IInv, ListOK
  <2>6. (m - 1) - 1 = m - 2
      BY <1>1
  <2>7. QED
      BY <1>2, <1>3, <2>1, <2>2, <2>3, <2>4, <2>5, <2>6 DEF ListOK
<1>7. PrivateOK'
  <2>1. head \in live /\ \A i \in 1 .. m - 1 : list'[i] # head
    <3>1. \A i \in 1 .. m - 1 : i + 1 # 1 /\ 1 \in 1 .. m
        BY <1>1
    <3>2. QED
        BY <1>1, <1>3, <3>1 DEF IInv, ListOK
  <2>2. \A a \in Thread : pc[a] \in Private => cell[a] # head
    <3>1. 1 \in 1 .. m
        BY <1>1
    <3>2. QED
        BY <1>1, <3>1 DEF IInv, PrivateOK
  <2>3. ASSUME NEW a \in Thread, pc'[a] \in Private
        PROVE  /\ cell'[a] \in live
               /\ \A i \in 1 .. m - 1 : list'[i] # cell'[a]
      BY <1>3, <1>4, <2>1, <2>3 DEF IInv, PrivateOK
  <2>4. ASSUME NEW a \in Thread, pc'[a] \in {"lock_t", "link"}
        PROVE  next[cell'[a]] = Null
      BY <1>4, <2>4 DEF IInv, PrivateOK
  <2>5. ASSUME NEW a \in Thread, NEW b \in Thread, a # b,
               pc'[a] \in Private, pc'[b] \in Private
        PROVE  cell'[a] # cell'[b]
      BY <1>4, <2>2, <2>5 DEF IInv, PrivateOK
  <2>6. QED
      BY <1>2, <1>3, <2>3, <2>4, <2>5 DEF PrivateOK
<1>8. LocksOK'
    BY <1>2, <1>4, NullAssumption DEF IInv, LocksOK
<1>9. TailOK'
  <2>1. list'[m - 1] = list[m]
      BY <1>1, <1>3
  <2>2. QED
      BY <1>2, <1>3, <1>4, <2>1 DEF IInv, TailOK
<1>10. HeadOK'
    BY <1>2, <1>4, NullAssumption DEF IInv, LocksOK, HeadOK
<1>11. QED
    BY <1>5, <1>6, <1>7, <1>8, <1>9, <1>10 DEF IInv

\* The steps that leave the list and the private cells where they are.
LEMMA QuietInvariant ==
    ASSUME IInv, NEW th \in Thread,
           \/ OutOfMemory(th) \/ LockTail(th) \/ SetTail(th)
           \/ LockHead(th) \/ ReadNext(th)
    PROVE  IInv'
<1>1. /\ Len(list) \in Nat /\ Len(list) >= 1
      /\ \A i \in 1 .. Len(list) : list[i] \in Cell
    BY ListFacts DEF IInv
<1>2. CASE OutOfMemory(th)
    BY <1>2, NullAssumption
       DEF IInv, TypeOK, PC, ListOK, PrivateOK, Private, LocksOK, TailOK, HeadOK,
           OutOfMemory, memory, queue
<1>3. CASE LockTail(th)
    BY <1>3, NullAssumption
       DEF IInv, TypeOK, PC, ListOK, PrivateOK, Private, LocksOK, TailOK, HeadOK,
           LockTail, GoTo, memory
<1>4. CASE SetTail(th)
  <2>1. \A a \in Thread : a # th => pc[a] \notin {"link", "set_tail"}
      BY <1>4 DEF IInv, LocksOK, SetTail
  <2>2. cell[th] = list[Len(list)] /\ \A a \in Thread : pc[a] # "exited"
      BY <1>4 DEF IInv, TailOK, SetTail
  <2>3. QED
      BY <1>4, <2>1, <2>2, NullAssumption
         DEF IInv, TypeOK, PC, ListOK, PrivateOK, Private, LocksOK, TailOK, HeadOK,
             SetTail, GoTo, memory
<1>5. CASE LockHead(th)
    BY <1>5, NullAssumption
       DEF IInv, TypeOK, PC, ListOK, PrivateOK, Private, LocksOK, TailOK, HeadOK,
           LockHead, GoTo, memory
<1>6. CASE ReadNext(th)
  <2>1. /\ pc[th] = "read_next" /\ h_lock = th
        /\ UNCHANGED <<next, data, live, head, tail, t_lock, list>>
      BY <1>6 DEF IInv, LocksOK, ReadNext, memory
  <2>2. \A a \in Thread : a # th => pc[a] \notin {"read_next", "set_head"}
      BY <2>1 DEF IInv, LocksOK
  <2>3. CASE next[head] = Null
      BY <1>6, <2>1, <2>2, <2>3, NullAssumption
         DEF IInv, TypeOK, PC, ListOK, PrivateOK, Private, LocksOK, TailOK, HeadOK,
             ReadNext, IsEmpty, GoTo
  <2>4. CASE next[head] # Null
    <3>1. /\ cell' = [cell EXCEPT ![th] = next[head]]
          /\ pc' = [pc EXCEPT ![th] = "set_head"]
          /\ UNCHANGED <<got, h_lock>>
        BY <1>6, <2>4 DEF ReadNext, IsEmpty, GoTo
    <3>2. Len(list) >= 2 /\ next[head] = list[2]
      <4>1. Len(list) # 1
          BY <2>4 DEF IInv, ListOK
      <4>2. 1 \in 1 .. Len(list) - 1
          BY <1>1, <4>1
      <4>3. QED
          BY <1>1, <4>1, <4>2 DEF IInv, ListOK
    <3>3. next[head] \in Cell
        BY <1>1, <3>2
    <3>4. TypeOK'
        BY <2>1, <3>1, <3>3 DEF IInv, TypeOK, PC
    <3>5. PrivateOK'
        BY <2>1, <3>1 DEF IInv, TypeOK, PrivateOK, Private
    <3>6. ListOK' /\ LocksOK' /\ TailOK' /\ HeadOK'
        BY <2>1, <2>2, <3>1, <3>2
           DEF IInv, TypeOK, ListOK, LocksOK, TailOK, HeadOK
    <3>7. QED
        BY <3>4, <3>5, <3>6 DEF IInv
  <2>5. QED
      BY <2>3, <2>4
<1>7. QED
    BY <1>2, <1>3, <1>4, <1>5, <1>6

\* An old dummy is in no list and no other thread's.
LEMMA FreeInvariant ==
    ASSUME IInv, NEW th \in Thread, Free(th)
    PROVE  IInv'
<1>1. /\ pc[th] = "free" /\ pc' = [pc EXCEPT ![th] = "idle"]
      /\ live' = live \ {cell[th]}
      /\ UNCHANGED <<next, data, head, tail, h_lock, t_lock, cell, got, list>>
    BY DEF Free, GoTo, queue
<1>2. /\ \A i \in 1 .. Len(list) : list[i] # cell[th]
      /\ \A a \in Thread : a # th /\ pc[a] \in Private => cell[a] # cell[th]
    BY <1>1 DEF IInv, PrivateOK, Private
<1>3. /\ \A a \in Thread : a # th => pc'[a] = pc[a]
      /\ pc'[th] = "idle"
    BY <1>1 DEF IInv, TypeOK
<1>4. TypeOK' /\ ListOK'
    BY <1>1, <1>2 DEF IInv, TypeOK, PC, ListOK
<1>5. PrivateOK'
    BY <1>1, <1>2, <1>3 DEF IInv, PrivateOK, Private
<1>6. LocksOK' /\ TailOK' /\ HeadOK'
    BY <1>1, <1>3 DEF IInv, LocksOK, TailOK, HeadOK
<1>7. QED
    BY <1>4, <1>5, <1>6 DEF IInv

LEMMA NextInvariant == IInv /\ [Next]_vars => IInv'
<1> SUFFICES ASSUME IInv, [Next]_vars PROVE IInv'
    OBVIOUS
<1>1. CASE UNCHANGED vars
    BY <1>1 DEF vars, memory, queue, IInv, TypeOK, ListOK, PrivateOK, LocksOK, TailOK, HeadOK
<1>2. CASE Ended
    BY <1>1, <1>2 DEF Ended
<1>3. ASSUME NEW th \in Thread, ThreadStep(th)
      PROVE  IInv'
    BY <1>3, NewNodeInvariant, LinkInvariant, SetHeadInvariant, QuietInvariant, FreeInvariant
       DEF ThreadStep
<1>4. QED
    BY <1>1, <1>2, <1>3 DEF Next

\* The list is linked as its history says, every cell has one use, and the locks
\* and tail are where the threads' places say they are.
THEOREM Invariance == Spec => []IInv
<1>1. Init => IInv
    BY InitInvariant
<1>2. IInv /\ [Next]_vars => IInv'
    BY NextInvariant
<1>3. QED
    BY <1>1, <1>2, PTL DEF Spec

\* No field of the queue ever holds anything but a node: head and tail are never
\* NULL (init_queue, lines 29-31, and dequeue's test, line 59).
THEOREM TypeCorrect == Spec => []TypeOK
<1>1. IInv => TypeOK
    BY DEF IInv
<1>2. QED
    BY <1>1, Invariance, PTL

\* free(old_head) (line 69) never frees a node some thread still reads, writes or
\* frees itself, though tail may point to it.
THEOREM NeverUsedAfterFree == Spec => []NoUseAfterFree
<1>1. IInv => NoUseAfterFree
  <2> SUFFICES ASSUME IInv, NEW th \in Thread
               PROVE  /\ pc[th] = "link" => tail \in live
                      /\ pc[th] = "read_next" => head \in live
                      /\ pc[th] \in {"lock_t", "link", "set_tail", "set_head", "free"}
                           => cell[th] \in live
      BY DEF NoUseAfterFree
  <2>1. Len(list) \in Nat /\ Len(list) >= 1
      BY ListFacts DEF IInv
  <2>2. list[1] \in live /\ list[Len(list)] \in live
      BY <2>1 DEF IInv, ListOK
  <2>3. pc[th] = "link" => tail \in live
    <3>1. SUFFICES ASSUME pc[th] = "link" PROVE tail = list[Len(list)]
        BY <2>2
    <3>2. \A a \in Thread : pc[a] \notin {"set_tail", "exited"}
        BY <3>1 DEF IInv, LocksOK, TailOK
    <3>3. QED
        BY <3>2 DEF IInv, TailOK
  <2>4. pc[th] = "set_head" => cell[th] \in live
      BY <2>1 DEF IInv, HeadOK, ListOK
  <2>5. pc[th] \in {"lock_t", "link", "set_tail", "free"} => cell[th] \in live
      BY <2>2 DEF IInv, PrivateOK, Private, TailOK
  <2>6. QED
      BY <2>2, <2>3, <2>4, <2>5 DEF IInv, ListOK
<1>2. QED
    BY <1>1, Invariance, PTL

-----------------------------------------------------------------------------

\* The values of a list as a sequence.
LEMMA ValuesFacts ==
    ASSUME NEW l \in Seq(Cell), l # << >>, NEW dt \in [Cell -> Value],
           NEW vs, vs = [i \in 1 .. Len(l) - 1 |-> dt[l[i + 1]]]
    PROVE  /\ vs \in Seq(Value) /\ Len(vs) = Len(l) - 1
           /\ \A i \in 1 .. Len(l) - 1 : vs[i] = dt[l[i + 1]]
<1> DEFINE k == Len(l) - 1
<1>1. k \in Nat
    BY EmptySeq
<1>2. \A i \in 1 .. k : dt[l[i + 1]] \in Value
    BY LenProperties
<1>3. vs \in [1 .. k -> Value]
    BY <1>2
<1>4. vs \in Seq(Value)
    BY <1>1, <1>3 DEF Seq
<1>5. Len(vs) = k
  <2>1. DOMAIN vs = 1 .. k /\ DOMAIN vs = 1 .. Len(vs) /\ Len(vs) \in Nat
      BY <1>3, <1>4, LenProperties
  <2> HIDE DEF k
  <2>2. QED
      BY <1>1, <2>1
<1>6. QED
    BY <1>4, <1>5

LEMMA ItemsFacts ==
    ASSUME TypeOK
    PROVE  /\ Items \in Seq(Value) /\ Len(Items) = Len(list) - 1
           /\ \A i \in 1 .. Len(list) - 1 : Items[i] = data[list[i + 1]]
<1>1. list \in Seq(Cell) /\ list # << >> /\ data \in [Cell -> Value]
    BY DEF TypeOK
<1>2. Items = [i \in 1 .. Len(list) - 1 |-> data[list[i + 1]]]
    BY DEF Items
<1>3. QED
    BY <1>1, <1>2, ValuesFacts

LEMMA ItemsFactsNext ==
    ASSUME TypeOK'
    PROVE  /\ Items' \in Seq(Value) /\ Len(Items') = Len(list') - 1
           /\ \A i \in 1 .. Len(list') - 1 : Items'[i] = data'[list'[i + 1]]
<1>1. list' \in Seq(Cell) /\ list' # << >> /\ data' \in [Cell -> Value]
    BY DEF TypeOK
<1>2. Items' = [i \in 1 .. Len(list') - 1 |-> data'[list'[i + 1]]]
    BY DEF Items
<1>3. QED
    BY <1>1, <1>2, ValuesFacts

LEMMA ItemsKept ==
    ASSUME list' = list, \A i \in 1 .. Len(list) - 1 : data'[list[i + 1]] = data[list[i + 1]]
    PROVE  Items' = Items
  BY DEF Items

LEMMA InitRefines == Init => Fifo!Init
<1> SUFFICES ASSUME Init PROVE Fifo!Init
    OBVIOUS
<1>1. IInv /\ Len(list) = 1
    BY InitInvariant DEF Init
<1>2. Items \in Seq(Value) /\ Len(Items) = 0
    BY <1>1, ItemsFacts DEF IInv
<1>3. QED
    BY <1>2, EmptySeq DEF Init, Fifo!Init

\* Linking a node is the abstract Enqueue.
LEMMA LinkRefines ==
    ASSUME IInv, NEW th \in Thread, Link(th)
    PROVE  Fifo!Next
<1>1. IInv'
    BY LinkInvariant
<1>2. /\ list \in Seq(Cell) /\ cell[th] \in Cell
      /\ list' = Append(list, cell[th]) /\ UNCHANGED <<data, got>>
      /\ data[cell[th]] \in Value
    BY DEF IInv, TypeOK, Link, queue
<1>3. Len(list) \in Nat /\ Len(list) >= 1
    BY ListFacts DEF IInv
<1>4. /\ Items \in Seq(Value) /\ Len(Items) = Len(list) - 1
      /\ \A i \in 1 .. Len(list) - 1 : Items[i] = data[list[i + 1]]
    BY ItemsFacts DEF IInv
<1>5. Len(list') = Len(list) + 1 /\ \A i \in 1 .. Len(list) : list'[i] = list[i]
      /\ list'[Len(list) + 1] = cell[th]
    BY <1>2
<1>6. /\ Items' \in Seq(Value) /\ Len(Items') = Len(list)
      /\ \A i \in 1 .. Len(list) : Items'[i] = data[list'[i + 1]]
  <2>1. TypeOK'
      BY <1>1 DEF IInv
  <2>2. Len(list') - 1 = Len(list)
      BY <1>3, <1>5
  <2>3. QED
      BY <1>2, <2>1, <2>2, ItemsFactsNext
<1>7. Items' = Append(Items, data[cell[th]])
  <2> DEFINE w == Append(Items, data[cell[th]])
  <2>1. /\ w \in Seq(Value) /\ Len(w) = Len(list)
        /\ \A i \in 1 .. Len(list) - 1 : w[i] = Items[i]
        /\ w[Len(list)] = data[cell[th]]
    <3>1. Len(Items) + 1 = Len(list)
        BY <1>3, <1>4
    <3>2. QED
        BY <1>2, <1>4, <3>1, AppendProperties
  <2>2. ASSUME NEW i \in 1 .. Len(list) PROVE Items'[i] = w[i]
    <3>1. CASE i = Len(list)
        BY <1>5, <1>6, <2>1, <3>1
    <3>2. CASE i # Len(list)
      <4>1. i \in 1 .. Len(list) - 1 /\ i + 1 \in 1 .. Len(list)
          BY <1>3, <3>2
      <4>2. QED
          BY <1>4, <1>5, <1>6, <2>1, <4>1
    <3>3. QED
        BY <3>1, <3>2
  <2>3. QED
      BY <1>6, <2>1, <2>2, SeqEqual
<1>8. QED
    BY <1>2, <1>7 DEF Fifo!Next, Fifo!Enqueue

\* Moving head is the abstract Dequeue.
LEMMA SetHeadRefines ==
    ASSUME IInv, NEW th \in Thread, SetHead(th)
    PROVE  Fifo!Next
<1>1. /\ Len(list) \in Nat /\ Len(list) >= 2 /\ cell[th] = list[2]
      /\ list \in Seq(Cell) /\ list # << >>
    BY ListFacts DEF IInv, TypeOK, HeadOK, SetHead
<1>2. /\ list' = Tail(list) /\ data' = data
      /\ got' = [got EXCEPT ![th] = data[list[2]]]
    BY <1>1 DEF SetHead, memory
<1>3. /\ Items \in Seq(Value) /\ Len(Items) = Len(list) - 1
      /\ \A i \in 1 .. Len(list) - 1 : Items[i] = data[list[i + 1]]
    BY ItemsFacts DEF IInv
<1>4. Items # << >> /\ Head(Items) = data[list[2]]
    BY <1>1, <1>3
<1>5. Len(list') = Len(list) - 1 /\ \A i \in 1 .. Len(list) - 1 : list'[i] = list[i + 1]
    BY <1>1, <1>2
<1>6. Items' = Tail(Items)
  <2>1. TypeOK'
      BY SetHeadInvariant DEF IInv
  <2>2. Len(list') - 1 = Len(list) - 2
      BY <1>1, <1>5
  <2>3. /\ Items' \in Seq(Value) /\ Len(Items') = Len(list) - 2
        /\ \A i \in 1 .. Len(list) - 2 : Items'[i] = data[list'[i + 1]]
      BY <1>2, <2>1, <2>2, ItemsFactsNext
  <2>4. /\ Tail(Items) \in Seq(Value) /\ Len(Tail(Items)) = Len(list) - 2
        /\ \A i \in 1 .. Len(list) - 2 : Tail(Items)[i] = Items[i + 1]
    <3>1. Len(Items) - 1 = Len(list) - 2
        BY <1>1, <1>3
    <3>2. QED
        BY <1>3, <1>4, <3>1, HeadTailProperties
  <2>5. ASSUME NEW i \in 1 .. Len(list) - 2 PROVE Items'[i] = Tail(Items)[i]
    <3>1. i + 1 \in 1 .. Len(list) - 1
        BY <1>1
    <3>2. QED
        BY <1>3, <1>5, <2>3, <2>4, <3>1
  <2>6. QED
      BY <2>3, <2>4, <2>5, SeqEqual
<1>7. QED
    BY <1>2, <1>4, <1>6 DEF Fifo!Next, Fifo!Dequeue

LEMMA StepRefines == IInv /\ [Next]_vars => [Fifo!Next]_(Fifo!vars)
<1> SUFFICES ASSUME IInv, [Next]_vars PROVE [Fifo!Next]_(Fifo!vars)
    OBVIOUS
<1>1. CASE UNCHANGED vars
    BY <1>1, ItemsKept DEF vars, memory, Fifo!vars
<1>2. CASE Ended
    BY <1>1, <1>2 DEF Ended
<1>3. ASSUME NEW th \in Thread, ThreadStep(th)
      PROVE  [Fifo!Next]_(Fifo!vars)
  <2>1. CASE \E v \in Value, c \in Cell : NewNode(th, v, c)
    <3>1. PICK v \in Value, c \in Cell : NewNode(th, v, c)
        BY <2>1
    <3>2. \A i \in 1 .. Len(list) - 1 : i + 1 \in 1 .. Len(list)
        BY ListFacts DEF IInv
    <3>3. \A i \in 1 .. Len(list) - 1 : data'[list[i + 1]] = data[list[i + 1]]
        BY <3>1, <3>2, ListFacts DEF IInv, TypeOK, ListOK, NewNode
    <3>4. QED
        BY <3>1, <3>3, ItemsKept DEF NewNode, Fifo!vars
  <2>2. CASE OutOfMemory(th) \/ LockTail(th) \/ SetTail(th) \/ LockHead(th) \/ Free(th)
      BY <2>2, ItemsKept
         DEF OutOfMemory, LockTail, SetTail, LockHead, Free, memory, Fifo!vars
  <2>3. CASE Link(th)
      BY <2>3, LinkRefines
  <2>4. CASE SetHead(th)
      BY <2>4, SetHeadRefines
  <2>5. CASE ReadNext(th)
    <3>1. Items' = Items
        BY <2>5, ItemsKept DEF ReadNext, memory
    <3>2. CASE next[head] = Null
      <4>1. Len(list) = 1
        <5>1. ASSUME Len(list) # 1 PROVE FALSE
          <6>1. 1 \in 1 .. Len(list) - 1 /\ 2 \in 1 .. Len(list)
              BY <5>1, ListFacts DEF IInv
          <6>2. next[head] = list[2] /\ list[2] \in Cell
              BY <6>1, ListFacts DEF IInv, ListOK
          <6>3. QED
              BY <3>2, <6>2, NullAssumption
        <5>2. QED
            BY <5>1
      <4>2. Items \in Seq(Value) /\ Len(Items) = 0
          BY <4>1, ItemsFacts DEF IInv
      <4>3. Items = << >>
          BY <4>2, EmptySeq
      <4>4. got' = [got EXCEPT ![th] = Nothing]
          BY <2>5, <3>2 DEF ReadNext, IsEmpty
      <4>5. QED
          BY <3>1, <4>3, <4>4 DEF Fifo!Next, Fifo!DequeueFails
    <3>3. CASE next[head] # Null
        BY <2>5, <3>1, <3>3 DEF ReadNext, IsEmpty, Fifo!vars
    <3>4. QED
        BY <3>2, <3>3
  <2>6. QED
      BY <1>3, <2>1, <2>2, <2>3, <2>4, <2>5 DEF ThreadStep
<1>4. QED
    BY <1>1, <1>2, <1>3 DEF Next

\* queue.c is a first-in first-out queue for any number of threads: a value
\* enters it at line 49 and leaves it at line 67, and line 61 returns false only
\* when nothing is in it.
THEOREM Refinement == Spec => ImplementsFifo
<1>1. Init => Fifo!Init
    BY InitRefines
<1>2. IInv /\ [Next]_vars => [Fifo!Next]_(Fifo!vars)
    BY StepRefines
<1>3. QED
    BY <1>1, <1>2, Invariance, PTL DEF Spec, ImplementsFifo, Fifo!Spec

-----------------------------------------------------------------------------
(***************************************************************************)
(* The barrier, for any number of threads and rounds and any width of the  *)
(* phase.                                                                  *)
(***************************************************************************)

\* The threads waiting in the round that is not open yet.
InRound == {w \in Waiter : place[w] # "outside" /\ seen[w] = phase}

(***************************************************************************)
(* What makes the promises inductive: count is the number of threads       *)
(* waiting in the present round, and a thread has called once per open     *)
(* round, once more if it waits in the present one.  A thread that sleeps  *)
(* on after an opening has not called again, so the barrier cannot open a  *)
(* second time and the phase cannot come round to the one it remembers.    *)
(***************************************************************************)
CountOK == count = Cardinality(InRound)

CallsOK == \A w \in Waiter : calls[w] = IF w \in InRound THEN serials + 1 ELSE serials

BarrierInv == BTypeOK /\ CountOK /\ CallsOK

-----------------------------------------------------------------------------

LEMMA ThreadFacts == IsFiniteSet(Waiter) /\ Cardinality(Waiter) = T
<1>1. T \in Int /\ 1 \in Int /\ T >= 1
    BY ThreadAssumption
<1> QED
    BY <1>1, FS_Interval DEF Waiter

LEMMA PhaseFacts ==
    ASSUME NEW k \in 0 .. PhaseMod - 1
    PROVE  NextPhase(k) \in 0 .. PhaseMod - 1 /\ NextPhase(k) # k
    BY PhaseAssumption DEF NextPhase

\* When all but the caller are counted, all but the caller wait.
LEMMA AllArrived ==
    ASSUME BarrierInv, NEW w \in Waiter, place[w] = "outside", count + 1 >= T
    PROVE  \A z \in Waiter : z # w => z \in InRound
<1>1. InRound \subseteq Waiter \ {w}
    BY DEF InRound
<1>2. /\ IsFiniteSet(Waiter \ {w})
      /\ Cardinality(Waiter \ {w}) = T - 1
    BY ThreadFacts, FS_RemoveElement
<1>3. /\ IsFiniteSet(InRound)
      /\ Cardinality(InRound) \in Nat
      /\ Cardinality(InRound) <= T - 1
      /\ Cardinality(InRound) = T - 1 => InRound = Waiter \ {w}
    BY <1>1, <1>2, FS_Subset, FS_CardinalityType
<1>4. Cardinality(InRound) = T - 1
    BY <1>3, ThreadAssumption DEF BarrierInv, CountOK
<1> QED
    BY <1>3, <1>4

LEMMA BarrierInit == BInit => BarrierInv
<1> SUFFICES ASSUME BInit PROVE BarrierInv
    OBVIOUS
<1>1. BTypeOK
    BY ThreadAssumption, PhaseAssumption DEF BInit, BTypeOK
<1>2. InRound = {}
    BY DEF BInit, InRound
<1>3. CountOK /\ CallsOK
    BY <1>2, FS_EmptySet DEF BInit, CountOK, CallsOK
<1> QED
    BY <1>1, <1>3 DEF BarrierInv

LEMMA ArriveLastIInv ==
    ASSUME BarrierInv, NEW w \in Waiter, ArriveLast(w)
    PROVE  BarrierInv'
<1> USE DEF BarrierInv
<1>1. \A z \in Waiter : z # w => z \in InRound
    BY AllArrived DEF ArriveLast, Call
<1>2. /\ phase' \in 0 .. PhaseMod - 1
      /\ phase' # phase
    BY PhaseFacts DEF ArriveLast, BTypeOK
<1>3. BTypeOK'
    BY <1>2, ThreadAssumption DEF BTypeOK, ArriveLast, Call, Broadcast
<1>4. InRound' = {}
  <2> SUFFICES ASSUME NEW z \in Waiter, z \in InRound' PROVE FALSE
      BY DEF InRound
  <2>1. CASE z = w
      BY <2>1 DEF InRound, ArriveLast, Call, Broadcast, BTypeOK
  <2>2. CASE z # w
      BY <2>2, <1>1, <1>2 DEF InRound, ArriveLast, BTypeOK
  <2> QED
      BY <2>1, <2>2
<1>5. CountOK'
    BY <1>4, FS_EmptySet DEF CountOK, ArriveLast
<1>6. CallsOK'
  <2> SUFFICES ASSUME NEW z \in Waiter PROVE calls'[z] = serials'
      BY <1>4 DEF CallsOK
  <2>1. CASE z = w
      BY <2>1 DEF CallsOK, InRound, ArriveLast, Call, BTypeOK
  <2>2. CASE z # w
      BY <2>2, <1>1 DEF CallsOK, ArriveLast, Call, BTypeOK
  <2> QED
      BY <2>1, <2>2
<1> QED
    BY <1>3, <1>5, <1>6

LEMMA ArriveIInv ==
    ASSUME BarrierInv, NEW w \in Waiter, Arrive(w)
    PROVE  BarrierInv'
<1> USE DEF BarrierInv
<1>1. BTypeOK'
    BY ThreadAssumption DEF BTypeOK, Arrive, Call
<1>2. InRound' = InRound \cup {w} /\ w \notin InRound
    BY DEF InRound, Arrive, Call, BTypeOK
<1>3. IsFiniteSet(InRound)
    BY ThreadFacts, FS_Subset DEF InRound
<1>4. Cardinality(InRound') = Cardinality(InRound) + 1
    BY <1>2, <1>3, FS_AddElement
<1>5. CountOK'
    BY <1>4 DEF CountOK, Arrive
<1>6. CallsOK'
    BY <1>2 DEF CallsOK, Arrive, Call, BTypeOK
<1> QED
    BY <1>1, <1>5, <1>6

LEMMA BarrierNext == BarrierInv /\ [BNext]_bvars => BarrierInv'
<1> SUFFICES ASSUME BarrierInv, [BNext]_bvars PROVE BarrierInv'
    OBVIOUS
<1> USE DEF BarrierInv
<1>1. ASSUME NEW w \in Waiter, ArriveLast(w) PROVE BarrierInv'
    BY <1>1, ArriveLastIInv
<1>2. ASSUME NEW w \in Waiter, Arrive(w) PROVE BarrierInv'
    BY <1>2, ArriveIInv
<1>3. ASSUME NEW w \in Waiter, WaitAgain(w) \/ SpuriousWakeup(w) PROVE BarrierInv'
  <2>1. BTypeOK'
      BY <1>3 DEF BTypeOK, WaitAgain, SpuriousWakeup
  <2>2. InRound' = InRound
      BY <1>3 DEF InRound, WaitAgain, SpuriousWakeup, BTypeOK
  <2> QED
      BY <2>1, <2>2, <1>3 DEF CountOK, CallsOK, WaitAgain, SpuriousWakeup
<1>4. ASSUME NEW w \in Waiter, Leave(w) PROVE BarrierInv'
  <2>1. BTypeOK'
      BY <1>4, PhaseAssumption DEF BTypeOK, Leave, LeaveAnyhow
  <2>2. InRound' = InRound
      BY <1>4 DEF InRound, Leave, LeaveAnyhow, BTypeOK
  <2> QED
      BY <2>1, <2>2, <1>4 DEF CountOK, CallsOK, Leave, LeaveAnyhow
<1>5. CASE UNCHANGED bvars
    BY <1>5 DEF bvars, BTypeOK, CountOK, CallsOK, InRound
<1> QED
    BY <1>1, <1>2, <1>3, <1>4, <1>5 DEF BNext, WaiterStep, Resting

\* Every state of the barrier satisfies the inductive invariant.
THEOREM BarrierInvariance == BSpec => []BarrierInv
    BY BarrierInit, BarrierNext, PTL DEF BSpec

\* The count stays below the limit between calls and the phase within its
\* width.
THEOREM BarrierTypeCorrect == BSpec => []BTypeOK
<1>1. BarrierInv => BTypeOK
    BY DEF BarrierInv
<1> QED
    BY <1>1, BarrierInvariance, PTL

\* pthread_barrier_wait: each round exactly one call returns
\* PTHREAD_BARRIER_SERIAL_THREAD.
THEOREM SerialAlwaysUnique == BSpec => []OneSerialPerRound
<1>1. BarrierInv => OneSerialPerRound
    BY DEF BarrierInv, CallsOK, InRound, OneSerialPerRound
<1> QED
    BY <1>1, BarrierInvariance, PTL

\* pthread_barrier_wait: no thread returns from a round before all have
\* arrived in it, even if the phase wraps around.
THEOREM NobodyEverPassesEarly == BSpec => []NobodyPassesEarly
<1>1. BarrierInv => NobodyPassesEarly
    BY DEF BarrierInv, BTypeOK, CallsOK, InRound, NobodyPassesEarly
<1> QED
    BY <1>1, BarrierInvariance, PTL

=============================================================================
