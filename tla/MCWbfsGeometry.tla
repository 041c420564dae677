--------------------------- MODULE MCWbfsGeometry ---------------------------
(* Partition sizes around the points where the calculation changes: one     *)
(* free blocks table sector more (4096 blocks of 2 MiB), 2^16 blocks and    *)
(* twice as many, the old rounding to 16 MiB, each with some sectors more   *)
(* or less.                                                                 *)
EXTENDS WbfsGeometry

BlockCounts ==
  (8 .. 10) \cup (4094 .. 4106)
    \cup {8192, 8202, 8206, 12291, 65535, 65536, 65543, 131071}

MCSizes(h) == {b * 2^(21 - h) + d : b \in BlockCounts, d \in {-1, 0, 63, 2^(20 - h)}}

MCFills(n) == {1, 6, 7, 20, n \div 2, n - 1}
=============================================================================
