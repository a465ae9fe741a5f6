------------------------------ MODULE Barrier ------------------------------
(***************************************************************************)
(* pthread_barrier.c (lab3, lab4 and lab6/c hold the same file): the       *)
(* barrier the labs build for a system without one, from a mutex, a        *)
(* condition variable, a count and a phase.  T threads, as many as the     *)
(* barrier was initialised for, call pthread_barrier_wait over and over.   *)
(*                                                                         *)
(* A thread holds the mutex from the call to pthread_cond_wait or to the   *)
(* return, and from the wakeup to the next wait or return: each of these   *)
(* is one step.  The B in some names keeps them apart from those of the    *)
(* queue, the other thread component proved about in QueueAndBarrierProof. *)
(***************************************************************************)
EXTENDS Integers, FiniteSets

CONSTANTS
    T,          \* the threads, and the count given to pthread_barrier_init
    PhaseMod,   \* phase is an unsigned int: 2^32 values in the code
    Rounds      \* how often each thread calls pthread_barrier_wait

ASSUME ThreadAssumption == T \in Nat \ {0}
ASSUME PhaseAssumption  == PhaseMod \in Nat /\ PhaseMod >= 2
ASSUME RoundAssumption  == Rounds \in Nat

Waiter == 1 .. T

VARIABLES
    count,     \* barrier->count
    phase,     \* barrier->phase
    place,     \* "outside", "asleep" in pthread_cond_wait, or "awake" again
    seen,      \* the local phase of a thread inside
    calls,     \* history: how often a thread has called
    serials    \* history: how often PTHREAD_BARRIER_SERIAL_THREAD was returned

bvars == <<count, phase, place, seen, calls, serials>>

\* pthread_barrier_init, with count = T > 0.
BInit ==
    /\ count = 0
    /\ phase = 0
    /\ place = [w \in Waiter |-> "outside"]
    /\ seen = [w \in Waiter |-> 0]
    /\ calls = [w \in Waiter |-> 0]
    /\ serials = 0

\* barrier->phase++ of an unsigned int.
NextPhase(k) == IF k + 1 = PhaseMod THEN 0 ELSE k + 1

\* pthread_cond_broadcast.
Broadcast(pcs) ==
    [w \in Waiter |-> IF pcs[w] = "asleep" THEN "awake" ELSE pcs[w]]

Call(w) ==
    /\ place[w] = "outside"
    /\ calls[w] < Rounds
    /\ calls' = [calls EXCEPT ![w] = @ + 1]

\* (Slips, see README: the count, or the phase, is left as it was.)
KeepCount(w) ==
    /\ Call(w)
    /\ count + 1 >= T
    /\ phase' = NextPhase(phase)
    /\ count' = count + 1
    /\ place' = Broadcast(place)
    /\ serials' = serials + 1
    /\ UNCHANGED seen

KeepPhase(w) ==
    /\ Call(w)
    /\ count + 1 >= T
    /\ count' = 0
    /\ place' = Broadcast(place)
    /\ serials' = serials + 1
    /\ UNCHANGED <<phase, seen>>

\* The last thread to arrive opens the barrier and returns at once.
ArriveLast(w) ==
    /\ Call(w)
    /\ count + 1 >= T
    /\ phase' = NextPhase(phase)
    /\ count' = 0
    /\ place' = Broadcast(place)
    /\ serials' = serials + 1
    /\ UNCHANGED seen

\* The others remember the phase and wait.
Arrive(w) ==
    /\ Call(w)
    /\ count + 1 < T
    /\ count' = count + 1
    /\ seen' = [seen EXCEPT ![w] = phase]
    /\ place' = [place EXCEPT ![w] = "asleep"]
    /\ UNCHANGED <<phase, serials>>

\* pthread_cond_wait may return without a broadcast.
SpuriousWakeup(w) ==
    /\ place[w] = "asleep"
    /\ place' = [place EXCEPT ![w] = "awake"]
    /\ UNCHANGED <<count, phase, seen, calls, serials>>

\* phase == barrier->phase: wait again.
WaitAgain(w) ==
    /\ place[w] = "awake"
    /\ seen[w] = phase
    /\ place' = [place EXCEPT ![w] = "asleep"]
    /\ UNCHANGED <<count, phase, seen, calls, serials>>

\* (A slip: an if in the place of the do ... while.)
LeaveAnyhow(w) ==
    /\ place[w] = "awake"
    /\ place' = [place EXCEPT ![w] = "outside"]
    /\ seen' = [seen EXCEPT ![w] = 0]
    /\ UNCHANGED <<count, phase, calls, serials>>

\* The phase has changed: the thread returns 0.
Leave(w) == LeaveAnyhow(w) /\ seen[w] # phase

WaiterStep(w) == ArriveLast(w) \/ Arrive(w) \/ WaitAgain(w) \/ Leave(w)

Finished == \A w \in Waiter : place[w] = "outside" /\ calls[w] = Rounds

Resting == Finished /\ UNCHANGED bvars

BNext ==
    \/ \E w \in Waiter : WaiterStep(w) \/ SpuriousWakeup(w)
    \/ Resting

BSpec == BInit /\ [][BNext]_bvars

\* Every thread is scheduled and comes back for the next round.
FairSpec == BSpec /\ \A w \in Waiter : WF_bvars(WaiterStep(w))

-----------------------------------------------------------------------------

BTypeOK ==
    /\ count \in 0 .. T - 1
    /\ phase \in 0 .. PhaseMod - 1
    /\ place \in [Waiter -> {"outside", "asleep", "awake"}]
    /\ seen \in [Waiter -> 0 .. PhaseMod - 1]
    /\ calls \in [Waiter -> Nat]
    /\ serials \in Nat

\* No thread has returned from its k-th call before every thread has made its
\* k-th call, however late the others wake, whoever wakes for no reason and
\* whoever is already back for the next round.
NobodyPassesEarly ==
    \A w, z \in Waiter : place[w] = "outside" => calls[w] <= calls[z]

\* Exactly one thread is told to be the serial one in each round: a thread that
\* is back from its k-th call finds that k serial results have been given.
OneSerialPerRound == \A w \in Waiter : place[w] = "outside" => calls[w] = serials

\* Nobody sleeps through the opening: all threads get through all rounds.
EverybodyGetsThrough == <>Finished

=============================================================================
