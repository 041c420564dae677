------------------------------- MODULE MCWbfs -------------------------------
(* Bounds for Wbfs: disc images of one block and of two blocks. *)
EXTENDS Wbfs, TLC

CONSTANTS A, B, C

MCUsedIdx == [img \in Images |-> IF img = B THEN 0 .. PerDisc - 1 ELSE {0}]
=============================================================================
