----------------------------- MODULE MCBarrier -----------------------------
(* A small barrier whose phase wraps around every second round. *)
EXTENDS Barrier
=============================================================================
