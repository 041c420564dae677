--------------------------- MODULE WbfsRepairProofs ---------------------------
(***************************************************************************)
(* Theorems about WbfsRepair, for any number of slots, blocks and          *)
(* references, and any repair modes.                                       *)
(***************************************************************************)
EXTENDS WbfsRepair, FiniteSetTheorems, TLAPS

(* The partition as the disc table in memory describes it. *)
view == [table |-> [s \in Slots |-> table[s] # "free"],
         magic |-> dMagic, map |-> dMap, fbt |-> dFbt]

Maps == [Slots -> [Idx -> 0 .. NBlocks]]

RecoverRm == {"FBT", "RM_INVALID", "RM_EMPTY"}

TypeInv ==
  /\ dTable \in [Slots -> BOOLEAN] /\ dMagic \in [Slots -> Magics]
  /\ dMap \in Maps /\ dFbt \in SUBSET Blocks
  /\ table \in [Slots -> {"free", "used", "user"}]
  /\ test \in BOOLEAN /\ old \in Medium
  /\ \/ cmd = "none" /\ pc = "idle"
     \/ cmd = "repair" /\ pc \in {"check", "drop", "fbt", "sync", "done"}
     \/ cmd = "recover" /\ pc \in {"recover", "magic", "expose", "silent", "select",
                                   "resync", "recheck", "drop", "fbt", "sync",
                                   "final", "undo", "done"}

-----------------------------------------------------------------------------
(* What a check finds out *)

LEMMA TwoMembers ==
  ASSUME NEW P
  PROVE  P # {} /\ ~(\E x : P = {x}) <=> \E p, q \in P : p # q
<1>1. ASSUME NEW p \in P, NEW q \in P, p # q
      PROVE  P # {} /\ ~(\E x : P = {x})
  BY <1>1
<1>2. ASSUME P # {}, ~(\E x : P = {x})
      PROVE  \E p, q \in P : p # q
  <2>1. PICK p \in P : TRUE
    BY <1>2
  <2>2. P # {p}
    BY <1>2
  <2>3. PICK q \in P : q # p
    BY <2>1, <2>2
  <2> QED
    BY <2>1, <2>3
<1> QED
  BY <1>1, <1>2

(* No reference is counted just where there is none, and more than one just *)
(* where two different references meet.                                     *)
LEMMA CountsReferences ==
  ASSUME NEW S \in SUBSET Slots, NEW b
  PROVE  /\ RefCount(S, b) \in Nat
         /\ RefCount(S, b) = 0 <=> \A s \in S, i \in Idx : dMap[s][i] # b
         /\ RefCount(S, b) > 1 <=>
              \E p, q \in S \X Idx : p # q /\ dMap[p[1]][p[2]] = b /\ dMap[q[1]][q[2]] = b
<1> DEFINE P == {p \in S \X Idx : dMap[p[1]][p[2]] = b}
<1>1. IsFiniteSet(Slots) /\ IsFiniteSet(Idx)
  BY FS_Interval, RepairAssumption DEF Slots, Idx
<1>2. IsFiniteSet(S)
  BY <1>1, FS_Subset
<1>3. IsFiniteSet(S \X Idx)
  BY <1>1, <1>2, FS_Product
<1>4. IsFiniteSet(P)
  BY <1>3, FS_Subset
<1>5. RefCount(S, b) = Cardinality(P) /\ Cardinality(P) \in Nat
  BY <1>4, FS_CardinalityType DEF RefCount
<1>6. Cardinality(P) = 0 <=> P = {}
  BY <1>4, FS_EmptySet
<1>7. P = {} <=> \A s \in S, i \in Idx : dMap[s][i] # b
  <2>1. ASSUME P = {}, NEW s \in S, NEW i \in Idx PROVE dMap[s][i] # b
    <3>1. <<s, i>> \in S \X Idx /\ <<s, i>> \notin P
      BY <2>1
    <3> QED
      BY <3>1
  <2>2. ASSUME \A s \in S, i \in Idx : dMap[s][i] # b PROVE P = {}
    <3>1. ASSUME NEW p \in P PROVE FALSE
      <4>1. p[1] \in S /\ p[2] \in Idx /\ dMap[p[1]][p[2]] = b
        OBVIOUS
      <4> QED
        BY <4>1, <2>2
    <3> QED
      BY <3>1
  <2> QED
    BY <2>1, <2>2
<1>8. Cardinality(P) > 1 <=> \E p, q \in P : p # q
  <2>1. Cardinality(P) = 1 <=> \E x : P = {x}
    BY <1>4, FS_Singleton
  <2> HIDE DEF P
  <2>2. P # {} /\ ~(\E x : P = {x}) <=> \E p, q \in P : p # q
    BY TwoMembers
  <2> QED
    BY <2>1, <2>2, <1>5, <1>6
<1>9. (\E p, q \in P : p # q) <=>
        \E p, q \in S \X Idx : p # q /\ dMap[p[1]][p[2]] = b /\ dMap[q[1]][q[2]] = b
  OBVIOUS
<1> HIDE DEF P
<1> QED
  BY <1>5, <1>6, <1>7, <1>8, <1>9

LEMMA OpenedListed == Opened = ListedOn(view)
BY DEF Opened, ListedOn, view

LEMMA SameRefs == ASSUME NEW s PROVE RefsOf(s) = RefsOn(view, s) /\ RefsOf(s) = RefsOn(medium, s)
BY DEF RefsOf, RefsOn, view, medium

LEMMA RefsRange ==
  ASSUME TypeInv, NEW s \in Slots
  PROVE  \A b \in RefsOf(s) : b \in Blocks \/ b = NBlocks
<1>1. ASSUME NEW i \in Idx PROVE dMap[s][i] \in 0 .. NBlocks
  BY DEF TypeInv, Maps
<1>2. ASSUME NEW b \in 0 .. NBlocks, b # 0 PROVE b \in Blocks \/ b = NBlocks
  BY <1>2, RepairAssumption DEF Blocks
<1> QED
  BY <1>1, <1>2 DEF RefsOf

(* The count of a block is zero just if no listed disc refers to it. *)
LEMMA CountsUnused ==
  ASSUME NEW b \in Blocks
  PROVE  Blc[b] \in Nat /\ (Blc[b] = 0 <=> b \in UnusedOn(view))
<1>1. Opened \in SUBSET Slots
  BY DEF Opened
<1>2. Blc[b] = RefCount(Opened, b)
  BY DEF Blc
<1>3. Blc[b] \in Nat /\ (Blc[b] = 0 <=> \A s \in Opened, i \in Idx : dMap[s][i] # b)
  BY <1>1, <1>2, CountsReferences
<1>4. b # 0
  BY RepairAssumption DEF Blocks
<1>5. (\A s \in Opened, i \in Idx : dMap[s][i] # b) <=> b \notin UNION {RefsOf(s) : s \in Opened}
  BY <1>4 DEF RefsOf
<1>6. UNION {RefsOf(s) : s \in Opened} = UNION {RefsOn(view, s) : s \in ListedOn(view)}
  BY SameRefs, OpenedListed
<1> QED
  BY <1>3, <1>5, <1>6 DEF UnusedOn

(* A block is counted twice just if a disc shares it. *)
LEMMA CountsShared ==
  ASSUME NEW s \in Opened
  PROVE  s \in OverlapDiscs <=> SharedOn(view, s)
<1>1. Opened \in SUBSET Slots /\ s \in Slots
  BY DEF Opened
<1>2. \A b \in Blocks : Blc[b] > 1 <=>
        \E p, q \in Opened \X Idx : p # q /\ dMap[p[1]][p[2]] = b /\ dMap[q[1]][q[2]] = b
  <2> TAKE b \in Blocks
  <2>1. Blc[b] = RefCount(Opened, b)
    BY DEF Blc
  <2> QED
    BY <1>1, <2>1, CountsReferences
<1>3. 0 \notin Blocks
  BY RepairAssumption DEF Blocks
<1>4. SharedOn(view, s) <=>
        \/ \E i, j \in Idx : i # j /\ dMap[s][i] \in Blocks /\ dMap[s][i] = dMap[s][j]
        \/ \E t \in Opened \ {s} : RefsOf(s) \cap RefsOf(t) \cap Blocks # {}
  BY OpenedListed, SameRefs DEF SharedOn, view
<1>5. ASSUME s \in OverlapDiscs PROVE SharedOn(view, s)
  <2>1. PICK b \in RefsOf(s) \cap Blocks : Blc[b] > 1
    BY <1>5 DEF OverlapDiscs
  <2>2. PICK p, q \in Opened \X Idx :
          p # q /\ dMap[p[1]][p[2]] = b /\ dMap[q[1]][q[2]] = b
    BY <1>2, <2>1
  <2>3. /\ p[1] \in Opened /\ p[2] \in Idx /\ q[1] \in Opened /\ q[2] \in Idx
        /\ p[1] = q[1] => p[2] # q[2]
    BY <2>2
  <2>4. b \in RefsOf(p[1]) /\ b \in RefsOf(q[1]) /\ b \in RefsOf(s)
    BY <2>1, <2>2, <2>3, <1>3 DEF RefsOf
  <2>5. CASE p[1] # s
    BY <2>5, <2>1, <2>3, <2>4, <1>4
  <2>6. CASE q[1] # s
    BY <2>6, <2>1, <2>3, <2>4, <1>4
  <2>7. CASE p[1] = s /\ q[1] = s
    BY <2>7, <2>1, <2>2, <2>3, <1>4
  <2> QED
    BY <2>5, <2>6, <2>7
<1>6. ASSUME NEW i \in Idx, NEW j \in Idx, i # j,
             dMap[s][i] \in Blocks, dMap[s][i] = dMap[s][j]
      PROVE  s \in OverlapDiscs
  <2>1. <<s, i>> \in Opened \X Idx /\ <<s, j>> \in Opened \X Idx /\ <<s, i>> # <<s, j>>
    BY <1>6
  <2>2. Blc[dMap[s][i]] > 1
    BY <2>1, <1>2, <1>6
  <2>3. dMap[s][i] \in RefsOf(s) \cap Blocks
    BY <1>3, <1>6 DEF RefsOf
  <2> QED
    BY <2>2, <2>3 DEF OverlapDiscs
<1>7. ASSUME NEW t \in Opened \ {s}, RefsOf(s) \cap RefsOf(t) \cap Blocks # {}
      PROVE  s \in OverlapDiscs
  <2>1. PICK b \in Blocks : b \in RefsOf(s) /\ b \in RefsOf(t)
    BY <1>7
  <2>2. PICK i \in Idx, j \in Idx : dMap[s][i] = b /\ dMap[t][j] = b
    BY <2>1 DEF RefsOf
  <2>3. <<s, i>> \in Opened \X Idx /\ <<t, j>> \in Opened \X Idx /\ <<s, i>> # <<t, j>>
    BY <2>2
  <2>4. Blc[b] > 1
    BY <2>2, <2>3, <1>2
  <2> QED
    BY <2>1, <2>4 DEF OverlapDiscs
<1> QED
  BY <1>4, <1>5, <1>6, <1>7

(* The result of a check of the partition m. *)
CkOf(m) ==
  /\ \A b \in Blocks : ck.blc[b] = 0 <=> b \in UnusedOn(m)
  /\ ck.invalid \cup ck.overlap \cup ck.free \cup ck.empty \subseteq ListedOn(m)
  /\ \A s \in ListedOn(m) :
       /\ s \in ck.invalid <=> ~(RefsOn(m, s) \subseteq Blocks)
       /\ s \in ck.overlap <=> SharedOn(m, s)
       /\ s \in ck.free    <=> RefsOn(m, s) \cap m.fbt # {}
       /\ s \in ck.empty   <=> RefsOn(m, s) \cap Blocks = {}

(* A check neither overlooks a fault nor reports one that is not there.     *)
LEMMA CheckExact ==
  ASSUME TypeInv
  PROVE  /\ \A b \in Blocks : Checked.blc[b] = 0 <=> b \in UnusedOn(view)
         /\ \A s \in ListedOn(view) :
              /\ s \in Checked.invalid <=> ~(RefsOn(view, s) \subseteq Blocks)
              /\ s \in Checked.overlap <=> SharedOn(view, s)
              /\ s \in Checked.free    <=> RefsOn(view, s) \cap dFbt # {}
              /\ s \in Checked.empty   <=> RefsOn(view, s) \cap Blocks = {}
         /\ Checked.invalid \cup Checked.overlap \cup Checked.free \cup Checked.empty
              \subseteq ListedOn(view)
         /\ ~Checked.err => /\ Checked.invalid = {} /\ Checked.overlap = {}
                            /\ Checked.empty = {}
                            /\ dFbt = UnusedOn(view)
<1>1. \A b \in Blocks : Blc[b] \in Nat /\ (Blc[b] = 0 <=> b \in UnusedOn(view))
  BY CountsUnused
<1>2. ASSUME NEW s \in ListedOn(view)
      PROVE  s \in Slots /\ s \in Opened /\ RefsOf(s) = RefsOn(view, s)
  BY <1>2, OpenedListed, SameRefs DEF Opened
<1>3. ASSUME NEW s \in ListedOn(view)
      PROVE  s \in InvalidDiscs <=> ~(RefsOn(view, s) \subseteq Blocks)
  <2>1. \A b \in RefsOf(s) : b \in Blocks \/ b = NBlocks
    BY <1>2, <1>3, RefsRange
  <2>2. \A b \in RefsOf(s) : b >= NBlocks <=> b \notin Blocks
    BY <2>1, RepairAssumption DEF Blocks
  <2> QED
    BY <1>2, <1>3, <2>2 DEF InvalidDiscs
<1>4. \A s \in ListedOn(view) : s \in OverlapDiscs <=> SharedOn(view, s)
  BY <1>2, CountsShared
<1>5. \A s \in ListedOn(view) : s \in FreeDiscs <=> RefsOn(view, s) \cap dFbt # {}
  BY <1>2 DEF FreeDiscs
<1>6. \A s \in ListedOn(view) : s \in EmptyDiscs <=> RefsOn(view, s) \cap Blocks = {}
  BY <1>2 DEF EmptyDiscs
<1>7. InvalidDiscs \cup OverlapDiscs \cup FreeDiscs \cup EmptyDiscs \subseteq ListedOn(view)
  BY OpenedListed DEF InvalidDiscs, OverlapDiscs, FreeDiscs, EmptyDiscs
<1>8. FbtErrors = {} => dFbt = UnusedOn(view)
  <2>1. dFbt \subseteq Blocks /\ UnusedOn(view) \subseteq Blocks
    BY DEF TypeInv, UnusedOn
  <2>2. \A b \in Blocks : Blc[b] > 0 <=> b \notin UnusedOn(view)
    BY <1>1
  <2> QED
    BY <2>1, <2>2 DEF FbtErrors
<1>9. /\ Checked.blc = Blc /\ Checked.invalid = InvalidDiscs
      /\ Checked.overlap = OverlapDiscs /\ Checked.free = FreeDiscs
      /\ Checked.empty = EmptyDiscs
      /\ Checked.err <=> FbtErrors \cup InvalidDiscs \cup OverlapDiscs \cup EmptyDiscs # {}
  BY DEF Checked
<1> QED
  BY <1>1, <1>3, <1>4, <1>5, <1>6, <1>7, <1>8, <1>9

(* What the check keeps in memory are the discs it has opened. *)
LEMMA CheckKeepsListed ==
  ASSUME TypeInv, table' = CheckedTable,
         UNCHANGED <<dTable, dMagic, dMap, dFbt>>
  PROVE  /\ ListedOn(view)' = ListedOn(view) /\ UnusedOn(view)' = UnusedOn(view)
         /\ \A s : RefsOn(view, s)' = RefsOn(view, s)
         /\ \A s : SharedOn(view, s)' <=> SharedOn(view, s)
         /\ \A s \in Slots : /\ table'[s] \in {table[s], "free"}
                             /\ table'[s] # "free" <=> s \in ListedOn(view)
<1>1. \A s \in Slots : table'[s] = IF s \in Opened THEN table[s] ELSE "free"
  BY DEF CheckedTable
<1>2. \A s \in Slots : s \in Opened <=> table[s] # "free" /\ dMagic[s] = "disc"
  BY DEF Opened
<1>3. ListedOn(view)' = ListedOn(view)
  BY <1>1, <1>2 DEF ListedOn, view
<1>4. \A s : RefsOn(view, s)' = RefsOn(view, s)
  BY DEF RefsOn, view
<1>5. \A s : SharedOn(view, s)' <=> SharedOn(view, s)
  BY <1>3, <1>4 DEF SharedOn, view
<1>6. UnusedOn(view)' = UnusedOn(view)
  BY <1>3, <1>4 DEF UnusedOn
<1> QED
  BY <1>1, <1>2, <1>3, <1>4, <1>5, <1>6, OpenedListed

LEMMA CheckRecords ==
  ASSUME TypeInv, ck' = Checked, table' = CheckedTable,
         UNCHANGED <<dTable, dMagic, dMap, dFbt>>
  PROVE  CkOf(view)'
<1>1. view'.fbt = dFbt
  BY DEF view
<1> QED
  BY <1>1, CheckExact, CheckKeepsListed DEF CkOf

-----------------------------------------------------------------------------
(* The inductive invariant, in parts *)

(* What no command changes. *)
OldInv ==
  cmd # "none" =>
    /\ dMap = old.map
    /\ \A s \in Slots : /\ old.magic[s] = "disc" => dMagic[s] = "disc"
                        /\ old.table[s] => dMagic[s] = old.magic[s]
    /\ cmd = "repair" => dMagic = old.magic
    /\ cmd = "repair" /\ pc \in {"check", "drop", "fbt"} =>
         dTable = old.table /\ dFbt = old.fbt

(* The tables of memory and medium, and what the last check says of them. *)
CkInv ==
  /\ pc \in {"check", "silent", "recheck"} =>
       \A s \in Slots : dTable[s] <=> table[s] # "free"
  /\ pc \in {"drop", "select"} => CkOf(view)
  /\ pc \in {"drop", "select"} => ListedOn(view) = ListedOn(medium)
  /\ pc = "fbt" => GoodFbt = UnusedOn(medium)

(* A disc without a fault is used in memory and on the medium. *)
HealthyInv ==
  cmd # "none" =>
    \A s \in Slots : Healthy(old, s) => table[s] = "used" /\ dTable[s]

(* REPAIR: what remains listed has no fault; the table written is that of   *)
(* the discs at the start.                                                  *)
RepairInv ==
  cmd = "repair" /\ ~test =>
    /\ pc \in {"sync", "done"} /\ "FBT" \in rm => dFbt = UnusedOn(old)
    /\ pc \in {"sync", "done"} => dFbt \in {old.fbt, UnusedOn(old)}
    /\ RmAll \subseteq rm /\ pc \in {"fbt", "sync"} =>
         \A s \in ListedOn(view) : Healthy(old, s)
    /\ RmAll \subseteq rm /\ pc = "done" =>
         \A s \in ListedOn(medium) : Healthy(old, s)

(* RECOVER: what is not an old disc is "user" until Select, and is valid    *)
(* and alone with its blocks after it.                                      *)
RecoverInv ==
  cmd = "recover" =>
    /\ pc \in {"recover", "magic", "expose", "silent"} => rm = {}
    /\ pc \in {"resync", "recheck", "drop", "fbt", "sync", "final"} =>
         ~test /\ rm = RecoverRm
    /\ pc = "undo" => test
    /\ pc = "recover" => \A s \in Slots : table[s] # "free" <=> old.table[s]
    /\ pc \in {"magic", "expose", "silent", "select"} =>
         \A s \in Slots : table[s] # "free" => (table[s] = "user" <=> ~old.table[s])
    /\ pc \in {"select", "resync", "recheck", "drop", "fbt", "sync", "final"} =>
         \A s \in Slots : table[s] # "free" => dMagic[s] = "disc"
    /\ pc \in {"resync", "recheck", "drop", "fbt", "sync", "final"} =>
         \A s \in ListedOn(view) \ ListedOn(old) : Sound(view, s) /\ ~SharedOn(view, s)

DoneInv == RecoveredDiscsDisjoint /\ RecoverDropsInvalid

Inv == /\ TypeInv /\ OldInv /\ CkInv /\ HealthyInv
       /\ RepairInv /\ RecoverInv /\ DoneInv

-----------------------------------------------------------------------------
(* How the two tables describe the discs *)

(* If memory and medium agree on the used slots, they list the same discs. *)
LEMMA InStep ==
  ASSUME \A s \in Slots : dTable[s] <=> table[s] # "free"
  PROVE  /\ ListedOn(medium) = ListedOn(view) /\ UnusedOn(medium) = UnusedOn(view)
         /\ \A s : SharedOn(medium, s) <=> SharedOn(view, s)
         /\ \A s : Sound(medium, s) <=> Sound(view, s)
<1>1. ListedOn(medium) = ListedOn(view)
  BY DEF ListedOn, medium, view
<1>2. \A s : RefsOn(medium, s) = RefsOn(view, s)
  BY DEF RefsOn, medium, view
<1>3. \A s : SharedOn(medium, s) <=> SharedOn(view, s)
  BY <1>1, <1>2 DEF SharedOn, medium, view
<1> QED
  BY <1>1, <1>2, <1>3 DEF UnusedOn, Sound

(* Fewer listed discs share no more blocks. *)
LEMMA FewerShare ==
  ASSUME dMap' = dMap, ListedOn(view)' \subseteq ListedOn(view)
  PROVE  \A s : /\ SharedOn(view, s)' => SharedOn(view, s)
                /\ Sound(view, s)' <=> Sound(view, s)
                /\ RefsOn(view, s)' = RefsOn(view, s)
<1>1. \A s : RefsOn(view, s)' = RefsOn(view, s)
  BY DEF RefsOn, view
<1>2. \A s : SharedOn(view, s)' => SharedOn(view, s)
  BY <1>1 DEF SharedOn, view
<1> QED
  BY <1>1, <1>2 DEF Sound

(* While REPAIR looks at the discs, they are those it has found. *)
LEMMA RepairSeesOld ==
  ASSUME TypeInv, OldInv, CkInv, cmd = "repair", pc \in {"check", "drop"}
  PROVE  /\ ListedOn(view) = ListedOn(old) /\ UnusedOn(view) = UnusedOn(old)
         /\ ListedOn(medium) = ListedOn(old) /\ UnusedOn(medium) = UnusedOn(old)
         /\ \A s : RefsOn(view, s) = RefsOn(old, s)
         /\ \A s : SharedOn(view, s) <=> SharedOn(old, s)
         /\ dFbt = old.fbt
<1>1. dMap = old.map /\ dMagic = old.magic /\ dTable = old.table /\ dFbt = old.fbt
  BY DEF OldInv
<1>2. ListedOn(medium) = ListedOn(old)
  BY <1>1 DEF ListedOn, medium
<1>3. ListedOn(view) = ListedOn(medium)
  BY InStep DEF CkInv
<1>4. \A s : RefsOn(view, s) = RefsOn(old, s) /\ RefsOn(medium, s) = RefsOn(old, s)
  BY <1>1 DEF RefsOn, view, medium
<1>5. \A s : SharedOn(view, s) <=> SharedOn(old, s)
  BY <1>1, <1>2, <1>3, <1>4 DEF SharedOn, view
<1> QED
  BY <1>1, <1>2, <1>3, <1>4, <1>5 DEF UnusedOn

(* A disc is healthy at the start of REPAIR just if its check says so. *)
LEMMA CheckTellsHealthy ==
  ASSUME TypeInv, OldInv, CkInv, cmd = "repair", pc = "drop", NEW s \in ListedOn(view)
  PROVE  Healthy(old, s) <=> s \notin UNION {ck.invalid, ck.overlap, ck.free, ck.empty}
<1>1. CkOf(view) /\ view.fbt = old.fbt
  BY RepairSeesOld DEF CkInv, view
<1>2. /\ s \in ck.invalid <=> ~(RefsOn(old, s) \subseteq Blocks)
      /\ s \in ck.overlap <=> SharedOn(old, s)
      /\ s \in ck.free    <=> RefsOn(old, s) \cap old.fbt # {}
      /\ s \in ck.empty   <=> RefsOn(old, s) \cap Blocks = {}
      /\ s \in ListedOn(old)
  BY <1>1, RepairSeesOld DEF CkOf
<1> QED
  BY <1>2 DEF Healthy, Sound

(* A healthy disc has blocks, and all of them are valid. *)
LEMMA HealthySound ==
  ASSUME TypeInv, OldInv, cmd # "none", NEW s \in Slots, Healthy(old, s)
  PROVE  Sound(view, s) /\ RefsOn(view, s) \cap Blocks # {} /\ dMagic[s] = "disc"
<1>1. RefsOn(view, s) = RefsOn(old, s)
  BY DEF OldInv, RefsOn, view
<1>2. s \in ListedOn(old) /\ Sound(old, s)
  BY DEF Healthy
<1> QED
  BY <1>1, <1>2 DEF OldInv, Sound, ListedOn

(* Nothing but the position changes. *)
LEMMA ViewStays ==
  ASSUME UNCHANGED <<dMagic, dMap, table>>
  PROVE  /\ ListedOn(view)' = ListedOn(view)
         /\ \A s : RefsOn(view, s)' = RefsOn(view, s)
         /\ \A s : SharedOn(view, s)' <=> SharedOn(view, s)
         /\ \A s : Sound(view, s)' <=> Sound(view, s)
<1>1. ListedOn(view)' = ListedOn(view)
  BY DEF ListedOn, view
<1>2. \A s : RefsOn(view, s)' = RefsOn(view, s)
  BY DEF RefsOn, view
<1>3. \A s : SharedOn(view, s)' <=> SharedOn(view, s)
  BY <1>1, <1>2 DEF SharedOn, view
<1> QED
  BY <1>1, <1>2, <1>3 DEF Sound

-----------------------------------------------------------------------------
(* Every step preserves the invariant *)

LEMMA InitInv == Init => Inv
<1> SUFFICES ASSUME Init PROVE Inv
  OBVIOUS
<1>1. NoOld \in Medium
  BY RepairAssumption DEF NoOld, Medium, Magics
<1>2. TypeInv
  BY <1>1 DEF Init, TypeInv, Medium, Maps, AllFree
<1> QED
  BY <1>2 DEF Init, Inv, OldInv, CkInv, HealthyInv, RepairInv, RecoverInv, DoneInv,
              RecoveredDiscsDisjoint, RecoverDropsInvalid

LEMMA TypeNext ==
  ASSUME TypeInv, [Next]_vars
  PROVE  TypeInv'
<1> USE DEF TypeInv
<1>1. medium \in Medium
  BY DEF medium, Medium, Maps
<1>2. NoOld \in Medium
  BY RepairAssumption DEF NoOld, Medium, Magics
<1>3. ASSUME NEW c \in {"repair", "recover"}, NEW t \in BOOLEAN, NEW m, Start(c, t, m)
      PROVE  TypeInv'
  BY <1>1, <1>3 DEF Start
<1>4. CASE Check
  BY <1>4 DEF Check, CheckedTable
<1>5. CASE Drop
  <2>1. table' \in [Slots -> {"free", "used", "user"}]
    BY <1>5 DEF Drop
  <2>2. pc' \in {"fbt", "sync", "done"} \/ (pc' = "final" /\ cmd = "recover")
    BY <1>5 DEF Drop, AfterRepair
  <2> QED
    BY <1>5, <2>1, <2>2 DEF Drop
<1>6. CASE WriteFbt
  BY <1>6 DEF WriteFbt, GoodFbt
<1>7. CASE Sync
  BY <1>7 DEF Sync, WriteTable, AfterRepair
<1>8. CASE Recover
  BY <1>8 DEF Recover
<1>9. CASE RestoreMagic
  BY <1>9 DEF RestoreMagic, Magics
<1>10. CASE Expose
  BY <1>10 DEF Expose, WriteTable
<1>11. CASE SilentCheck
  BY <1>11 DEF SilentCheck, CheckedTable
<1>12. CASE Select
  BY <1>12 DEF Select
<1>13. CASE Resync
  BY <1>13 DEF Resync, WriteTable
<1>14. CASE Recheck
  BY <1>14 DEF Recheck, CheckedTable
<1>15. CASE FinalSync
  BY <1>15 DEF FinalSync, WriteTable
<1>16. CASE Undo
  BY <1>16 DEF Undo, Medium
<1>17. CASE Forget
  BY <1>2, <1>17 DEF Forget, AllFree
<1>18. CASE UNCHANGED vars
  BY <1>18 DEF vars
<1> QED
  BY <1>3, <1>4, <1>5, <1>6, <1>7, <1>8, <1>9, <1>10, <1>11, <1>12, <1>13, <1>14,
     <1>15, <1>16, <1>17, <1>18 DEF Next, Finish, Crash

(* The medium at the start is remembered as it was.                         *)
LEMMA OldNext ==
  ASSUME Inv, [Next]_vars
  PROVE  OldInv'
<1> USE DEF Inv, OldInv, TypeInv
<1>3. ASSUME NEW c \in {"repair", "recover"}, NEW t \in BOOLEAN, NEW m, Start(c, t, m)
      PROVE  OldInv'
  BY <1>3 DEF Start, medium
<1>4. CASE Check
  BY <1>4 DEF Check
<1>5. CASE Drop
  BY <1>5 DEF Drop
<1>6. CASE WriteFbt
  BY <1>6 DEF WriteFbt
<1>7. CASE Sync
  BY <1>7 DEF Sync, AfterRepair
<1>8. CASE Recover
  BY <1>8 DEF Recover
<1>9. CASE RestoreMagic
  <2>1. cmd = "recover"
    BY <1>9 DEF RestoreMagic
  <2>2. \A s \in Slots : table[s] = "user" => ~old.table[s]
    BY <1>9, <2>1 DEF RestoreMagic, RecoverInv
  <2> QED
    BY <1>9, <2>1, <2>2 DEF RestoreMagic
<1>10. CASE Expose
  BY <1>10 DEF Expose
<1>11. CASE SilentCheck
  BY <1>11 DEF SilentCheck
<1>12. CASE Select
  BY <1>12 DEF Select
<1>13. CASE Resync
  BY <1>13 DEF Resync
<1>14. CASE Recheck
  BY <1>14 DEF Recheck
<1>15. CASE FinalSync
  BY <1>15 DEF FinalSync
<1>16. CASE Undo
  BY <1>16 DEF Undo
<1>17. CASE Forget
  BY <1>17 DEF Forget
<1>18. CASE UNCHANGED vars
  BY <1>18 DEF vars
<1> QED
  BY <1>3, <1>4, <1>5, <1>6, <1>7, <1>8, <1>9, <1>10, <1>11, <1>12, <1>13, <1>14,
     <1>15, <1>16, <1>17, <1>18 DEF Next, Finish, Crash

(* RepairWBFS() calculates its free blocks table from a check that saw the  *)
(* medium as it is.                                                         *)
LEMMA CkNext ==
  ASSUME Inv, [Next]_vars
  PROVE  CkInv'
<1> USE DEF Inv, CkInv, TypeInv
<1>3. ASSUME NEW c \in {"repair", "recover"}, NEW t \in BOOLEAN, NEW m, Start(c, t, m)
      PROVE  CkInv'
  BY <1>3 DEF Start
<1>4. CASE Check
  <2>1. CkOf(view)'
    BY <1>4, CheckRecords DEF Check
  <2>2. ListedOn(view)' = ListedOn(view)
    BY <1>4, CheckKeepsListed DEF Check
  <2>3. ListedOn(medium)' = ListedOn(medium)
    BY <1>4 DEF Check, ListedOn, medium
  <2>4. ListedOn(view) = ListedOn(medium)
    BY <1>4, InStep DEF Check
  <2> QED
    BY <1>4, <2>1, <2>2, <2>3, <2>4 DEF Check
<1>5. CASE Drop
  <2>1. GoodFbt = UnusedOn(medium)
    <3>1. \A b \in Blocks : ck.blc[b] = 0 <=> b \in UnusedOn(view)
      BY <1>5 DEF Drop, CkOf
    <3>2. ListedOn(view) = ListedOn(medium)
      BY <1>5 DEF Drop
    <3>3. UnusedOn(view) = UnusedOn(medium)
      BY <3>2 DEF UnusedOn, RefsOn, view, medium
    <3> QED
      BY <3>1, <3>3 DEF GoodFbt, UnusedOn
  <2>2. GoodFbt' = GoodFbt /\ medium' = medium
    BY <1>5 DEF Drop, GoodFbt, medium
  <2>3. pc' \notin {"check", "silent", "recheck", "drop", "select"}
    BY <1>5 DEF Drop, AfterRepair
  <2> QED
    BY <2>1, <2>2, <2>3
<1>6. CASE WriteFbt
  BY <1>6 DEF WriteFbt
<1>7. CASE Sync
  BY <1>7 DEF Sync, AfterRepair
<1>8. CASE Recover
  BY <1>8 DEF Recover
<1>9. CASE RestoreMagic
  BY <1>9 DEF RestoreMagic
<1>10. CASE Expose
  BY <1>10 DEF Expose, WriteTable
<1>11. CASE SilentCheck
  <2>1. CkOf(view)'
    BY <1>11, CheckRecords DEF SilentCheck
  <2>2. ListedOn(view)' = ListedOn(view)
    BY <1>11, CheckKeepsListed DEF SilentCheck
  <2>3. ListedOn(medium)' = ListedOn(medium)
    BY <1>11 DEF SilentCheck, ListedOn, medium
  <2>4. ListedOn(view) = ListedOn(medium)
    BY <1>11, InStep DEF SilentCheck
  <2> QED
    BY <1>11, <2>1, <2>2, <2>3, <2>4 DEF SilentCheck
<1>12. CASE Select
  <2>1. CASE pc' = "drop"
    <3>1. Collided = {}
      BY <1>12, <2>1 DEF Select
    <3>2. \A s \in Slots : table'[s] # "free" <=> table[s] # "free"
      BY <1>12, <3>1 DEF Select
    <3>3. view' = view
      BY <1>12, <3>2 DEF Select, view
    <3>4. CkOf(view)' <=> CkOf(view)
      BY <1>12, <3>3 DEF Select, CkOf
    <3>5. ListedOn(view)' = ListedOn(view) /\ ListedOn(medium)' = ListedOn(medium)
      BY <1>12, <3>2 DEF Select, ListedOn, view, medium
    <3> QED
      BY <1>12, <2>1, <3>4, <3>5 DEF Select
  <2> QED
    BY <1>12, <2>1 DEF Select
<1>13. CASE Resync
  BY <1>13 DEF Resync, WriteTable
<1>14. CASE Recheck
  <2>1. CkOf(view)'
    BY <1>14, CheckRecords DEF Recheck
  <2>2. ListedOn(view)' = ListedOn(view)
    BY <1>14, CheckKeepsListed DEF Recheck
  <2>3. ListedOn(medium)' = ListedOn(medium)
    BY <1>14 DEF Recheck, ListedOn, medium
  <2>4. ListedOn(view) = ListedOn(medium)
    BY <1>14, InStep DEF Recheck
  <2> QED
    BY <1>14, <2>1, <2>2, <2>3, <2>4 DEF Recheck
<1>15. CASE FinalSync
  BY <1>15 DEF FinalSync
<1>16. CASE Undo
  BY <1>16 DEF Undo
<1>17. CASE Forget
  BY <1>17 DEF Forget
<1>18. CASE UNCHANGED vars
  BY <1>18 DEF vars, CkOf, view, medium, GoodFbt
<1> QED
  BY <1>3, <1>4, <1>5, <1>6, <1>7, <1>8, <1>9, <1>10, <1>11, <1>12, <1>13, <1>14,
     <1>15, <1>16, <1>17, <1>18 DEF Next, Finish, Crash

(* No command takes a disc without a fault out of the disc table.           *)
LEMMA HealthyNext ==
  ASSUME Inv, [Next]_vars
  PROVE  HealthyInv'
<1> USE DEF Inv, HealthyInv, TypeInv
<1>1. ASSUME NEW s \in Slots, Healthy(old, s), cmd # "none"
      PROVE  s \in ListedOn(view) /\ table[s] = "used" /\ dMagic[s] = "disc"
  BY <1>1, HealthySound DEF ListedOn, view
<1>3. ASSUME NEW c \in {"repair", "recover"}, NEW t \in BOOLEAN, NEW m, Start(c, t, m)
      PROVE  HealthyInv'
  BY <1>3 DEF Start, Healthy, ListedOn, medium
<1>4. CASE Check
  BY <1>1, <1>4, CheckKeepsListed DEF Check
<1>5. CASE Drop
  <2>1. ASSUME NEW s \in Slots, Healthy(old, s) PROVE s \notin Faulty
    <3>1. s \in ListedOn(view)
      BY <1>1, <1>5, <2>1 DEF Drop
    <3>2. CASE cmd = "repair"
      BY <1>5, <2>1, <3>1, <3>2, CheckTellsHealthy DEF Drop, Faulty
    <3>3. CASE cmd = "recover"
      <4>1. rm = RecoverRm
        BY <1>5, <3>3 DEF Drop, RecoverInv
      <4>2. s \notin ck.invalid /\ s \notin ck.empty
        BY <1>5, <2>1, <3>1, <3>3, HealthySound DEF Drop, CkInv, CkOf, Sound
      <4> QED
        BY <4>1, <4>2 DEF Faulty, RecoverRm
    <3> QED
      BY <1>5, <3>2, <3>3 DEF Drop
  <2> QED
    BY <1>5, <2>1 DEF Drop
<1>6. CASE WriteFbt
  BY <1>6 DEF WriteFbt
<1>7. CASE Sync
  BY <1>7 DEF Sync, WriteTable
<1>8. CASE Recover
  BY <1>8 DEF Recover
<1>9. CASE RestoreMagic
  BY <1>9 DEF RestoreMagic
<1>10. CASE Expose
  BY <1>10 DEF Expose, WriteTable
<1>11. CASE SilentCheck
  BY <1>1, <1>11, CheckKeepsListed DEF SilentCheck
<1>12. CASE Select
  BY <1>12 DEF Select, Collided
<1>13. CASE Resync
  BY <1>13 DEF Resync, WriteTable
<1>14. CASE Recheck
  BY <1>1, <1>14, CheckKeepsListed DEF Recheck
<1>15. CASE FinalSync
  BY <1>15 DEF FinalSync, WriteTable
<1>16. CASE Undo
  BY <1>16 DEF Undo, Healthy, ListedOn
<1>17. CASE Forget
  BY <1>17 DEF Forget
<1>18. CASE UNCHANGED vars
  BY <1>18 DEF vars
<1> QED
  BY <1>3, <1>4, <1>5, <1>6, <1>7, <1>8, <1>9, <1>10, <1>11, <1>12, <1>13, <1>14,
     <1>15, <1>16, <1>17, <1>18 DEF Next, Finish, Crash

(* REPAIR removes the discs that its check has found faulty, and no others. *)
LEMMA RepairNext ==
  ASSUME Inv, [Next]_vars
  PROVE  RepairInv'
<1> USE DEF Inv, RepairInv, TypeInv
<1>3. ASSUME NEW c \in {"repair", "recover"}, NEW t \in BOOLEAN, NEW m, Start(c, t, m)
      PROVE  RepairInv'
  BY <1>3 DEF Start
<1>4. CASE Check
  <2>1. CASE ~Checked.err
    <3>1. dFbt = UnusedOn(old) /\ dFbt = old.fbt
      BY <1>4, <2>1, CheckExact, RepairSeesOld DEF Check
    <3>2. ASSUME NEW s \in ListedOn(medium) PROVE Healthy(old, s)
      <4>1. s \in ListedOn(view) /\ s \in ListedOn(old)
        BY <1>4, <3>2, RepairSeesOld DEF Check
      <4>2. RefsOn(old, s) \subseteq Blocks /\ ~SharedOn(old, s) /\ RefsOn(old, s) # {}
        BY <1>4, <2>1, <4>1, CheckExact, RepairSeesOld DEF Check
      <4>3. RefsOn(old, s) \cap old.fbt = {}
        BY <3>1, <4>1 DEF UnusedOn
      <4> QED
        BY <4>1, <4>2, <4>3 DEF Healthy, Sound
    <3>3. ListedOn(medium)' = ListedOn(medium)
      BY <1>4 DEF Check, ListedOn, medium
    <3> QED
      BY <1>4, <2>1, <3>1, <3>2, <3>3 DEF Check
  <2>2. CASE Checked.err
    BY <1>4, <2>2 DEF Check
  <2> QED
    BY <2>1, <2>2
<1>5. CASE Drop
  <2> SUFFICES ASSUME cmd = "repair", ~test
               PROVE  RepairInv'
    BY <1>5 DEF Drop
  <2>1. dFbt = old.fbt /\ UnusedOn(medium) = UnusedOn(old) /\ GoodFbt = UnusedOn(old)
    <3>1. \A b \in Blocks : ck.blc[b] = 0 <=> b \in UnusedOn(view)
      BY <1>5 DEF Drop, CkInv, CkOf
    <3>2. UnusedOn(view) = UnusedOn(old)
      BY <1>5, RepairSeesOld DEF Drop
    <3> QED
      BY <1>5, <3>1, <3>2, RepairSeesOld DEF Drop, GoodFbt, UnusedOn
  <2>2. ASSUME RmAll \subseteq rm, NEW s \in ListedOn(view), s \notin Faulty
        PROVE  Healthy(old, s)
    BY <1>5, <2>2, CheckTellsHealthy DEF Drop, Faulty, RmAll
  <2>3. \A s \in ListedOn(view)' : s \in ListedOn(view) /\ s \notin Faulty
    BY <1>5 DEF Drop, ListedOn, view
  <2>4. CASE pc' = "done"
    <3>1. Dropped = {} /\ ~("FBT" \in rm /\ dFbt # GoodFbt)
      BY <1>5, <2>4 DEF Drop
    <3>2. ASSUME NEW s \in ListedOn(medium)' PROVE s \in ListedOn(view) /\ s \notin Faulty
      <4>1. s \in ListedOn(view)
        BY <1>5, <3>2 DEF Drop, CkInv, ListedOn, medium
      <4>2. table[s] # "free"
        BY <4>1 DEF ListedOn, view
      <4> QED
        BY <3>1, <4>1, <4>2 DEF Dropped, ListedOn
    <3> QED
      BY <1>5, <2>1, <2>2, <2>4, <3>1, <3>2 DEF Drop
  <2>5. CASE pc' # "done"
    <3>1. pc' \in {"fbt", "sync"}
      BY <1>5, <2>5 DEF Drop, AfterRepair
    <3>2. pc' = "sync" /\ "FBT" \in rm => dFbt = GoodFbt
      BY <1>5 DEF Drop
    <3> QED
      BY <1>5, <2>1, <2>2, <2>3, <3>1, <3>2 DEF Drop
  <2> QED
    BY <2>4, <2>5
<1>6. CASE WriteFbt
  <2>1. cmd = "repair" => UnusedOn(medium) = UnusedOn(old)
    BY <1>6 DEF WriteFbt, OldInv, UnusedOn, ListedOn, RefsOn, medium
  <2>2. ListedOn(view)' = ListedOn(view)
    BY <1>6, ViewStays DEF WriteFbt
  <2> QED
    BY <1>6, <2>1, <2>2 DEF WriteFbt, CkInv
<1>7. CASE Sync
  <2>1. ListedOn(medium)' = ListedOn(view)
    BY <1>7 DEF Sync, WriteTable, ListedOn, medium, view
  <2> QED
    BY <1>7, <2>1 DEF Sync, AfterRepair
<1>8. CASE Recover
  BY <1>8 DEF Recover
<1>9. CASE RestoreMagic
  BY <1>9 DEF RestoreMagic
<1>10. CASE Expose
  BY <1>10 DEF Expose
<1>11. CASE SilentCheck
  BY <1>11 DEF SilentCheck
<1>12. CASE Select
  BY <1>12 DEF Select
<1>13. CASE Resync
  BY <1>13 DEF Resync
<1>14. CASE Recheck
  BY <1>14 DEF Recheck
<1>15. CASE FinalSync
  BY <1>15 DEF FinalSync
<1>16. CASE Undo
  BY <1>16 DEF Undo
<1>17. CASE Forget
  BY <1>17 DEF Forget
<1>18. CASE UNCHANGED vars
  BY <1>18 DEF vars, view, medium
<1> QED
  BY <1>3, <1>4, <1>5, <1>6, <1>7, <1>8, <1>9, <1>10, <1>11, <1>12, <1>13, <1>14,
     <1>15, <1>16, <1>17, <1>18 DEF Next, Finish, Crash

(* RECOVER: what it adds to the disc table, and keeps there, is valid.      *)
LEMMA RecoverNext ==
  ASSUME Inv, [Next]_vars
  PROVE  RecoverInv'
<1> USE DEF Inv, RecoverInv, TypeInv
<1>1. ASSUME UNCHANGED <<dMagic, dMap, table, old>>,
             \A s \in ListedOn(view) \ ListedOn(old) : Sound(view, s) /\ ~SharedOn(view, s)
      PROVE  (\A s \in ListedOn(view) \ ListedOn(old) : Sound(view, s) /\ ~SharedOn(view, s))'
  BY <1>1, ViewStays
<1>2. ASSUME UNCHANGED <<dMap, old>>, ListedOn(view)' \subseteq ListedOn(view),
             \A s \in ListedOn(view) \ ListedOn(old) : Sound(view, s) /\ ~SharedOn(view, s)
      PROVE  (\A s \in ListedOn(view) \ ListedOn(old) : Sound(view, s) /\ ~SharedOn(view, s))'
  BY <1>2, FewerShare
<1>3. ASSUME NEW c \in {"repair", "recover"}, NEW t \in BOOLEAN, NEW m, Start(c, t, m),
             c = "recover" => m = {}
      PROVE  RecoverInv'
  BY <1>3 DEF Start, medium
<1>4. CASE Check
  BY <1>4 DEF Check
<1>5. CASE Drop
  <2> SUFFICES ASSUME cmd = "recover"
               PROVE  RecoverInv'
    BY <1>5 DEF Drop
  <2>1. ListedOn(view)' \subseteq ListedOn(view)
    BY <1>5 DEF Drop, ListedOn, view
  <2>2. pc' \in {"fbt", "sync", "final"}
    BY <1>5 DEF Drop, AfterRepair
  <2>3. \A s \in Slots : table'[s] # "free" => dMagic'[s] = "disc"
    BY <1>5 DEF Drop
  <2> QED
    BY <1>2, <1>5, <2>1, <2>2, <2>3 DEF Drop
<1>6. CASE WriteFbt
  BY <1>1, <1>6 DEF WriteFbt
<1>7. CASE Sync
  BY <1>1, <1>7 DEF Sync, AfterRepair
<1>8. CASE Recover
  BY <1>8 DEF Recover
<1>9. CASE RestoreMagic
  BY <1>9 DEF RestoreMagic
<1>10. CASE Expose
  BY <1>10 DEF Expose
<1>11. CASE SilentCheck
  <2>1. \A s \in Slots : table'[s] \in {table[s], "free"} /\ (table'[s] # "free" => s \in ListedOn(view))
    BY <1>11, CheckKeepsListed DEF SilentCheck
  <2>2. \A s \in Slots : table'[s] # "free" => dMagic'[s] = "disc"
    BY <1>11, <2>1 DEF SilentCheck, ListedOn, view
  <2> QED
    BY <1>11, <2>1, <2>2 DEF SilentCheck
<1>12. CASE Select
  <2> SUFFICES ASSUME ~test
               PROVE  RecoverInv'
    BY <1>12 DEF Select
  <2>1. \A s \in ListedOn(view)' : s \in ListedOn(view) /\ s \notin Collided
    BY <1>12 DEF Select, ListedOn, view
  <2>2. ASSUME NEW s \in ListedOn(view), s \notin ListedOn(old), s \notin Collided
        PROVE  Sound(view, s) /\ ~SharedOn(view, s)
    <3>1. s \in Slots /\ table[s] # "free" /\ dMagic[s] = "disc"
      BY <2>2 DEF ListedOn, view
    <3>2. ~old.table[s]
      BY <1>12, <2>2, <3>1 DEF Select, OldInv, ListedOn
    <3>3. table[s] = "user"
      BY <1>12, <3>1, <3>2 DEF Select
    <3>4. s \notin ck.empty \cup ck.overlap \cup ck.invalid
      BY <2>2, <3>1, <3>3 DEF Collided
    <3> QED
      BY <1>12, <2>2, <3>4 DEF Select, CkInv, CkOf, Sound
  <2>3. \A s : /\ SharedOn(view, s)' => SharedOn(view, s)
               /\ Sound(view, s)' <=> Sound(view, s)
    BY <1>12, <2>1, FewerShare DEF Select
  <2>4. (\A s \in ListedOn(view) \ ListedOn(old) : Sound(view, s) /\ ~SharedOn(view, s))'
    BY <1>12, <2>1, <2>2, <2>3 DEF Select
  <2>5. \A s \in Slots : table'[s] # "free" => dMagic'[s] = "disc"
    BY <1>12 DEF Select
  <2>6. ~test' /\ rm' = RecoverRm /\ pc' \in {"resync", "drop"}
    BY <1>12 DEF Select, RecoverRm
  <2> QED
    BY <2>4, <2>5, <2>6
<1>13. CASE Resync
  BY <1>1, <1>13 DEF Resync
<1>14. CASE Recheck
  <2>1. ListedOn(view)' = ListedOn(view) /\ \A s \in Slots : table'[s] # "free" => s \in ListedOn(view)
    BY <1>14, CheckKeepsListed DEF Recheck
  <2>2. \A s \in Slots : table'[s] # "free" => dMagic'[s] = "disc"
    BY <1>14, <2>1 DEF Recheck, ListedOn, view
  <2> QED
    BY <1>2, <1>14, <2>1, <2>2 DEF Recheck
<1>15. CASE FinalSync
  BY <1>15 DEF FinalSync
<1>16. CASE Undo
  BY <1>16 DEF Undo
<1>17. CASE Forget
  BY <1>17 DEF Forget
<1>18. CASE UNCHANGED vars
  BY <1>1, <1>18 DEF vars
<1> QED
  BY <1>3, <1>4, <1>5, <1>6, <1>7, <1>8, <1>9, <1>10, <1>11, <1>12, <1>13, <1>14,
     <1>15, <1>16, <1>17, <1>18 DEF Next, Finish, Crash

(* RECOVER ends with the silent check, the final sync, or the undo of --test. *)
LEMMA DoneNext ==
  ASSUME Inv, [Next]_vars
  PROVE  DoneInv'
<1> USE DEF Inv, DoneInv, TypeInv
<1>1. CASE ~(pc' = "done" /\ cmd' = "recover")
  BY <1>1 DEF RecoveredDiscsDisjoint, RecoverDropsInvalid
<1>2. CASE UNCHANGED vars
  BY <1>2 DEF vars, RecoveredDiscsDisjoint, RecoverDropsInvalid, medium
<1>3. CASE SilentCheck /\ pc' = "done"
  <2>1. ~Checked.err /\ cmd' = "recover" /\ rm' = {}
    BY <1>3 DEF SilentCheck, RecoverInv
  <2>2. ASSUME NEW s \in ListedOn(medium) PROVE Sound(medium, s) /\ ~SharedOn(medium, s)
    <3>1. s \in ListedOn(view)
      BY <1>3, <2>2, InStep DEF SilentCheck, CkInv
    <3>2. RefsOn(view, s) \subseteq Blocks /\ ~SharedOn(view, s) /\ RefsOn(view, s) # {}
      BY <2>1, <3>1, CheckExact
    <3> QED
      BY <1>3, <3>2, InStep DEF SilentCheck, CkInv, Sound
  <2>3. medium' = medium
    BY <1>3 DEF SilentCheck, medium
  <2> QED
    BY <1>3, <2>1, <2>2, <2>3 DEF SilentCheck, RecoveredDiscsDisjoint, RecoverDropsInvalid
<1>4. CASE FinalSync
  <2>1. medium' = view
    BY <1>4 DEF FinalSync, WriteTable, medium, view
  <2>2. \A s \in Slots : dTable'[s] => dMagic'[s] = "disc"
    BY <1>4 DEF FinalSync, WriteTable, RecoverInv
  <2>3. \A s \in ListedOn(view) \ ListedOn(old) : Sound(view, s) /\ ~SharedOn(view, s)
    BY <1>4 DEF FinalSync, RecoverInv
  <2> QED
    BY <1>4, <2>1, <2>2, <2>3 DEF FinalSync, RecoveredDiscsDisjoint, RecoverDropsInvalid
<1>5. CASE Undo
  <2>1. ListedOn(medium)' \subseteq ListedOn(old)'
    BY <1>5 DEF Undo, OldInv, ListedOn, medium
  <2>2. test'
    BY <1>5 DEF Undo, RecoverInv
  <2> QED
    BY <2>1, <2>2 DEF RecoveredDiscsDisjoint, RecoverDropsInvalid
<1>6. ASSUME pc' = "done", cmd' = "recover", ~UNCHANGED vars
      PROVE  SilentCheck \/ FinalSync \/ Undo
  <2>1. ~Drop
    BY <1>6 DEF Drop, AfterRepair, RecoverInv
  <2> QED
    BY <1>6, <2>1 DEF Next, Start, Check, WriteFbt, Sync, AfterRepair, Recover, RestoreMagic,
                      Expose, Select, Resync, Recheck, Finish, Crash, Forget
<1> QED
  BY <1>1, <1>2, <1>3, <1>4, <1>5, <1>6

THEOREM InvHolds == Spec => []Inv
<1>1. Inv /\ [Next]_vars => Inv'
  BY TypeNext, OldNext, CkNext, HealthyNext, RepairNext, RecoverNext, DoneNext DEF Inv
<1> QED
  BY InitInv, <1>1, PTL DEF Spec

-----------------------------------------------------------------------------
(* Types are correct, and the position belongs to the command.              *)
THEOREM TypeCorrect == Spec => []TypeInv
<1>1. Inv => TypeInv
  BY DEF Inv
<1> QED
  BY InvHolds, <1>1, PTL

(* A disc without any fault is listed at every step of REPAIR and RECOVER,  *)
(* and so also after the process dies anywhere.                             *)
THEOREM FaultlessDiscsStay == Spec => []HealthyDiscsStay
<1>1. Inv => HealthyDiscsStay
  BY HealthySound DEF Inv, HealthyInv, HealthyDiscsStay, ListedOn, medium
<1> QED
  BY InvHolds, <1>1, PTL

(* The table written before the disc table frees no block of a listed disc. *)
THEOREM FbtWriteIsSafe == Spec => FbtWriteSafe
<1> DEFINE Safe == dFbt' # dFbt =>
                     \A s \in ListedOn(medium) : RefsOn(medium, s) \cap dFbt' = {}
<1>1. ASSUME Inv, [Next]_vars PROVE [Safe]_vars
  <2>1. CASE WriteFbt
    <3>1. dFbt' = UnusedOn(medium)
      BY <1>1, <2>1 DEF WriteFbt, Inv, CkInv
    <3> QED
      BY <3>1 DEF UnusedOn
  <2>2. CASE ~WriteFbt
    <3>1. dFbt' = dFbt
      BY <1>1, <2>2 DEF Next, Start, Check, Drop, Sync, Recover, RestoreMagic, Expose, SilentCheck,
         Select, Resync, Recheck, FinalSync, Undo, Finish, Crash, Forget, vars
    <3> QED
      BY <3>1
  <2> QED
    BY <2>1, <2>2
<1> QED
  BY InvHolds, <1>1, PTL DEF Spec, FbtWriteSafe

(* After REPAIR with all RM modes every listed disc is without fault.       *)
THEOREM RepairLeavesNoFault == Spec => []RepairDropsFaulty
<1>1. ASSUME Inv PROVE RepairDropsFaulty
  <2> SUFFICES ASSUME pc = "done", cmd = "repair", ~test, RmAll \subseteq rm,
                      NEW s \in ListedOn(medium)
               PROVE  Healthy(medium, s)
    BY DEF RepairDropsFaulty
  <2> USE <1>1 DEF Inv
  <2>1. \A t \in ListedOn(medium) : Healthy(old, t) /\ t \in ListedOn(old)
    BY DEF RepairInv, Healthy
  <2>2. \A t : RefsOn(medium, t) = RefsOn(old, t)
    BY DEF OldInv, RefsOn, medium
  <2>3. dFbt = old.fbt \/ dFbt = UnusedOn(old)
    BY DEF RepairInv
  <2>4. RefsOn(medium, s) \cap dFbt = {}
    BY <2>1, <2>2, <2>3 DEF Healthy, UnusedOn
  <2>5. ~SharedOn(medium, s)
    <3>1. ~SharedOn(old, s) /\ dMap = old.map
      BY <2>1 DEF Healthy, OldInv
    <3> QED
      BY <2>1, <2>2, <3>1 DEF SharedOn, medium
  <2> QED
    BY <2>1, <2>2, <2>4, <2>5 DEF Healthy, Sound, medium
<1> QED
  BY InvHolds, <1>1, PTL

(* The table REPAIR leaves is that of the discs it began with.              *)
THEOREM RepairTableOfOldDiscs == Spec => []RepairConverges
<1>1. Inv => RepairConverges
  BY DEF Inv, RepairInv, RepairConverges
<1> QED
  BY InvHolds, <1>1, PTL

(* A disc brought back is valid and shares no block.                        *)
THEOREM RecoveredAreAlone == Spec => []RecoveredDiscsDisjoint
<1>1. Inv => RecoveredDiscsDisjoint
  BY DEF Inv, DoneInv
<1> QED
  BY InvHolds, <1>1, PTL

(* Once an error was found, no slot without a disc stays marked used.       *)
THEOREM RecoverLeavesNoEmptySlot == Spec => []RecoverDropsInvalid
<1>1. Inv => RecoverDropsInvalid
  BY DEF Inv, DoneInv
<1> QED
  BY InvHolds, <1>1, PTL
=============================================================================
