---------------------------- MODULE BlockChoice ----------------------------
(***************************************************************************)
(* What the block allocator of libwbfs.c promises about the blocks it      *)
(* picks: the reference that WbfsBlocks is checked against and that Wbfs   *)
(* builds on.                                                              *)
(***************************************************************************)
EXTENDS Integers, FiniteSets

(* r = <<first, last>> begins and ends with a free block and has n of them. *)
IsRange(free, n, r) ==
  /\ r[1] \in free /\ r[2] \in free
  /\ Cardinality({b \in free : r[1] <= b /\ b <= r[2]}) = n

(* b begins the first one of the shortest such ranges. *)
IsFirstRange(free, n, b) ==
  LET ranges == {r \in free \X free : IsRange(free, n, r)}
  IN  \E r \in ranges :
        /\ r[1] = b
        /\ \A q \in ranges :
             \/ r[2] - r[1] < q[2] - q[1]
             \/ r[2] - r[1] = q[2] - q[1] /\ r[1] <= q[1]

(* Where a search begins, and how many steps it takes to get from there to  *)
(* block b if it wraps from the last block to block 1.                      *)
FirstProbe(nBlocks, start) == IF start < 1 \/ start >= nBlocks THEN 1 ELSE start

Distance(nBlocks, start, b) ==
  LET from == FirstProbe(nBlocks, start)
  IN  IF b >= from THEN b - from ELSE b - from + nBlocks - 1

(* b is the free block nearest to start. *)
IsNearest(nBlocks, free, start, b) ==
  /\ b \in free
  /\ \A c \in free : Distance(nBlocks, start, b) <= Distance(nBlocks, start, c)
=============================================================================
