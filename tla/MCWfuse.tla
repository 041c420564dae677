------------------------------- MODULE MCWfuse -------------------------------
(* Wfuse with three threads, three discs and room for two open ones; the    *)
(* threads are interchangeable, and so are the discs.                       *)
EXTENDS Wfuse, TLC

Symmetry == Permutations(Threads) \cup Permutations(Slots)
=============================================================================
