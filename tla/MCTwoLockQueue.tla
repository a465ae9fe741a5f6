--------------------------- MODULE MCTwoLockQueue ---------------------------
(* Threads and memory for TwoLockQueue. *)
EXTENDS TwoLockQueue, TLC

\* Threads and cells are only compared with each other.
Alike == Permutations(Thread) \cup Permutations(Cell)
=============================================================================
