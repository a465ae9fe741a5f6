---------------------------- MODULE TwoLockQueue ----------------------------
(***************************************************************************)
(* lab2/c/queue.c: a linked list that begins with a dummy node, head under *)
(* h_lock and tail under t_lock, so that one thread can enqueue while      *)
(* another dequeues.  Nodes are cells of memory that malloc gives out and  *)
(* free takes back: a cell returns with what its last use left in it.      *)
(*                                                                         *)
(* Threads call enqueue and dequeue in any order.  A step ends where       *)
(* another thread can notice: at a lock, at an access of a node that is in *)
(* the list, at malloc and free.  Loads and stores take effect in program  *)
(* order; old_head->next is read under h_lock and written under t_lock,    *)
(* and the read gives the old or the new pointer.                          *)
(***************************************************************************)
EXTENDS Integers, Sequences

CONSTANTS
    Thread,   \* the threads that use the queue
    Value,    \* the data of a node, h and e
    Cell,     \* the memory malloc can give out
    Null,     \* NULL, and the owner of a lock nobody holds
    Nothing   \* no value: dequeue returned false

ASSUME NullAssumption == Null \notin Cell /\ Null \notin Thread

VARIABLES
    next,     \* next of the node in a cell
    data,     \* h and e of the node in a cell
    live,     \* the cells allocated and not freed
    head,     \* q->head, q->tail, q->h_lock, q->t_lock
    tail,
    h_lock,
    t_lock,
    pc,       \* where a thread is
    cell,     \* enqueue's n, dequeue's new_head and then its old_head
    got,      \* what a thread's last dequeue gave it
    list      \* history: the cells from head to the last one linked

memory == <<next, data, live>>
queue  == <<head, tail, h_lock, t_lock>>
vars   == <<memory, queue, pc, cell, got, list>>

PC == {"idle", "lock_t", "link", "set_tail", "read_next", "set_head", "free", "exited"}

GoTo(th, place) == pc' = [pc EXCEPT ![th] = place]

Init ==
    /\ next = [c \in Cell |-> Null]
    /\ data \in [Cell -> Value]
    /\ head \in Cell
    /\ tail = head
    /\ live = {head}
    /\ h_lock = Null
    /\ t_lock = Null
    /\ pc = [th \in Thread |-> "idle"]
    /\ cell = [th \in Thread |-> head]
    /\ got = [th \in Thread |-> Nothing]
    /\ list = <<head>>

-----------------------------------------------------------------------------
(* enqueue                                                                  *)

\* (A slip: n->next = NULL is forgotten.)
NextLeft(c) == next

\* n->next = NULL
NextCleared(c) == [next EXCEPT ![c] = Null]

\* A node no other thread knows of is allocated and filled.
NewNode(th, v, c) ==
    /\ pc[th] = "idle"
    /\ c \in Cell \ live
    /\ live' = live \cup {c}
    /\ data' = [data EXCEPT ![c] = v]
    /\ next' = NextCleared(c)
    /\ cell' = [cell EXCEPT ![th] = c]
    /\ GoTo(th, "lock_t")
    /\ UNCHANGED <<queue, got, list>>

\* malloc returns NULL, and exit(1) ends the process.
OutOfMemory(th) ==
    /\ pc[th] = "idle"
    /\ pc' = [other \in Thread |-> "exited"]
    /\ UNCHANGED <<memory, queue, cell, got, list>>

LockTail(th) ==
    /\ pc[th] = "lock_t"
    /\ t_lock = Null
    /\ t_lock' = th
    /\ GoTo(th, "link")
    /\ UNCHANGED <<memory, head, tail, h_lock, cell, got, list>>

\* q->tail->next = n: from now on the value is in the queue.
Link(th) ==
    /\ pc[th] = "link"
    /\ next' = [next EXCEPT ![tail] = cell[th]]
    /\ list' = Append(list, cell[th])
    /\ GoTo(th, "set_tail")
    /\ UNCHANGED <<data, live, queue, cell, got>>

\* q->tail = n, and the unlock.
SetTail(th) ==
    /\ pc[th] = "set_tail"
    /\ tail' = cell[th]
    /\ t_lock' = Null
    /\ GoTo(th, "idle")
    /\ UNCHANGED <<memory, head, h_lock, cell, got, list>>

-----------------------------------------------------------------------------
(* dequeue                                                                  *)

LockHead(th) ==
    /\ pc[th] = "idle"
    /\ h_lock = Null
    /\ h_lock' = th
    /\ GoTo(th, "read_next")
    /\ UNCHANGED <<memory, head, tail, t_lock, cell, got, list>>

\* (A slip: the list is never taken for empty.)
NeverEmpty(c) == FALSE

\* new_head == NULL
IsEmpty(c) == c = Null

\* new_head = old_head->next; without one dequeue returns false.
ReadNext(th) ==
    /\ pc[th] = "read_next"
    /\ IF IsEmpty(next[head])
       THEN /\ got' = [got EXCEPT ![th] = Nothing]
            /\ h_lock' = Null
            /\ GoTo(th, "idle")
            /\ UNCHANGED cell
       ELSE /\ cell' = [cell EXCEPT ![th] = next[head]]
            /\ GoTo(th, "set_head")
            /\ UNCHANGED <<got, h_lock>>
    /\ UNCHANGED <<memory, head, tail, t_lock, list>>

\* (A slip: the new dummy is freed.)
NewDummy(th) == cell[th]

\* free(old_head)
OldDummy(th) == head

\* The value is copied, q->head = new_head, and the unlock.
SetHead(th) ==
    /\ pc[th] = "set_head"
    /\ got' = [got EXCEPT ![th] = data[cell[th]]]
    /\ head' = cell[th]
    /\ cell' = [cell EXCEPT ![th] = OldDummy(th)]
    /\ h_lock' = Null
    /\ list' = Tail(list)
    /\ GoTo(th, "free")
    /\ UNCHANGED <<memory, tail, t_lock>>

Free(th) ==
    /\ pc[th] = "free"
    /\ live' = live \ {cell[th]}
    /\ GoTo(th, "idle")
    /\ UNCHANGED <<next, data, queue, cell, got, list>>

-----------------------------------------------------------------------------

ThreadStep(th) ==
    \/ \E v \in Value, c \in Cell : NewNode(th, v, c)
    \/ OutOfMemory(th)
    \/ LockTail(th)
    \/ Link(th)
    \/ SetTail(th)
    \/ LockHead(th)
    \/ ReadNext(th)
    \/ SetHead(th)
    \/ Free(th)

\* The process has ended.
Ended == (\A th \in Thread : pc[th] = "exited") /\ UNCHANGED vars

Next == (\E th \in Thread : ThreadStep(th)) \/ Ended

Spec == Init /\ [][Next]_vars

-----------------------------------------------------------------------------

\* Every variable has its type: head and tail are never NULL.
TypeOK ==
    /\ next \in [Cell -> Cell \cup {Null}]
    /\ data \in [Cell -> Value]
    /\ live \subseteq Cell
    /\ head \in Cell /\ tail \in Cell
    /\ h_lock \in Thread \cup {Null} /\ t_lock \in Thread \cup {Null}
    /\ pc \in [Thread -> PC]
    /\ cell \in [Thread -> Cell]
    /\ got \in [Thread -> Value \cup {Nothing}]
    /\ list \in Seq(Cell) /\ list # << >>

\* No thread touches a node after it was freed, and none frees a node twice:
\* dequeue frees the old head at once (line 69), while tail may still point to
\* it and an enqueuer may be between lines 49 and 50.
NoUseAfterFree ==
    \A th \in Thread :
        /\ pc[th] = "link" => tail \in live
        /\ pc[th] = "read_next" => head \in live
        /\ pc[th] \in {"lock_t", "link", "set_tail", "set_head", "free"} => cell[th] \in live

\* The values in the list; its first node is the dummy.
Items == [i \in 1 .. Len(list) - 1 |-> data[list[i + 1]]]

\* Enqueuers and dequeuers together implement a queue: values come out in the
\* order in which they were linked (line 49), each once, and dequeue returns
\* false (line 61) only when the queue is empty.
Fifo == INSTANCE FifoQueue WITH items <- Items

ImplementsFifo == Fifo!Spec

=============================================================================
