---------------------------- MODULE MCCopyImage ----------------------------
(***************************************************************************)
(* Instance: images of up to five parts of two units, the fifth too much   *)
(* for a disc; iobuf stretches over two blocks.  A file of 2 blocks has no *)
(* free blocks table, one of 5 has a table that lacks a bit for the last   *)
(* block, as real ones of 2..7 and of 4098..4103 blocks of 2 MiB.          *)
(***************************************************************************)
EXTENDS CopyImage

Data == {d \in SUBSET ((0 .. 2) \X (0 .. 1)) : <<0, 0>> \in d}

(* Nothing, one unit, or an area across the border of two blocks. *)
Items(data) ==
  {{}} \cup {its \in {{{<<1, 1>>}}, {{<<1, 1>>, <<2, 0>>}}, {{<<0, 1>>}, {<<2, 1>>}}} :
            UNION its \subseteq data}

Sources(mode, n, data) ==
  {[mode |-> mode, size |-> n, data |-> data, items |-> its, remove |-> r] :
     its \in Items(data), r \in BOOLEAN}

MCImages ==
  UNION ({Sources(m, 3, d) : m \in {"sectors", "raw", "blocks"}, d \in Data}
    \cup {Sources(m, 1, {<<0, 0>>}) : m \in {"sectors", "raw", "blocks"}}
    \cup {Sources(m, 4, {<<p, 0>> : p \in 0 .. 3}) : m \in {"sectors", "raw", "blocks"}}
    \cup {Sources(m, 5, d \cup {<<4, 1>>}) : m \in {"sectors", "raw", "blocks"},
                                           d \in {{<<0, 0>>}, {<<0, 0>>, <<2, 1>>}}})
=============================================================================
