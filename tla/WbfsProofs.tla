----------------------------- MODULE WbfsProofs -----------------------------
(***************************************************************************)
(* Theorems about Wbfs, for every size of the partition, every set of disc *)
(* images, both allocation modes and, where a theorem does not say         *)
(* otherwise, with source faults allowed.                                  *)
(***************************************************************************)
EXTENDS Wbfs, FiniteSetTheorems, TLAPS

-----------------------------------------------------------------------------
(* Type correctness *)

(* A start block and a number of releases stay in range. *)
LEMMA ReleasedType ==
  ASSUME NEW u \in 0 .. UsedMax, NEW n \in Nat
  PROVE  Released(u, n) \in 0 .. UsedMax
BY WbfsAssumption DEF Released

LEMMA EntriesFinite ==
  ASSUME NEW S \in SUBSET Slots, NEW b
  PROVE  IsFiniteSet(Entries(S, b)) /\ Cardinality(Entries(S, b)) \in Nat
<1>1. IsFiniteSet(Slots) /\ IsFiniteSet(Idx)
  BY FS_Interval, WbfsAssumption DEF Slots, Idx
<1>2. IsFiniteSet(S \X Idx)
  BY <1>1, FS_Subset, FS_Product
<1>3. Entries(S, b) \subseteq S \X Idx
  BY DEF Entries
<1> QED BY <1>2, <1>3, FS_Subset, FS_CardinalityType

LEMMA SaturatedType ==
  ASSUME NEW n \in Nat
  PROVE  Saturated(n) \in 0 .. UsedMax
BY WbfsAssumption DEF Saturated

LEMMA BlankType ==
  /\ NoMap \in [Idx -> 0 .. NBlocks - 1]
  /\ NoCur \in CurType
  /\ NoData \in DataType /\ NoInfo \in InfoType
<1>1. 0 \in Slots /\ 0 \in 0 .. NBlocks - 1
  BY WbfsAssumption DEF Slots
<1>2. NoMap \in [Idx -> 0 .. NBlocks - 1]
  BY <1>1 DEF NoMap
<1>3. 0 \in Idx
  BY WbfsAssumption DEF Idx
<1> QED BY <1>1, <1>2, <1>3 DEF NoCur, CurType, NoData, DataType, NoInfo, InfoType

LEMMA InitType == Init => TypeOK
<1> SUFFICES ASSUME Init
             PROVE  TypeOK
  OBVIOUS
<1>1. 0 \in Idx /\ 0 \in 0 .. UsedMax
  BY WbfsAssumption DEF Idx
<1>2. dInfo \in [Slots -> InfoType]
  BY BlankType DEF Init
<1>3. dData \in [Blocks -> DataType]
  BY BlankType DEF Init
<1>4. used \in [Blocks -> 0 .. UsedMax] /\ idList \in [Slots -> Images \cup {NoImage}]
  BY <1>1 DEF Init
<1> QED BY <1>2, <1>3, <1>4, BlankType DEF Init, TypeOK

LEMMA ForgetType ==
  ASSUME TypeOK, Forget
  PROVE  TypeOK'
<1>1. used' \in [Blocks -> 0 .. UsedMax] /\ idList' \in [Slots -> Images \cup {NoImage}]
  BY WbfsAssumption DEF Forget
<1> QED BY <1>1, BlankType DEF Forget, TypeOK, disk

LEMMA OpenType ==
  ASSUME TypeOK, NEW c \in Commands, Open(c)
  PROVE  TypeOK'
<1>1. \A b \in Blocks : Saturated(Cardinality(DiskRefsTo(b))) \in 0 .. UsedMax
  BY EntriesFinite, SaturatedType DEF DiskRefsTo
<1>2. used' \in [Blocks -> 0 .. UsedMax]
  BY <1>1 DEF Open
<1>3. idList' \in [Slots -> Images \cup {NoImage}]
  <2>1. \A s \in Slots : dInfo[s].id \in Images \cup {NoImage}
    BY DEF TypeOK, InfoType
  <2> QED BY <2>1 DEF Open
<1> QED BY <1>2, <1>3 DEF Open, TypeOK, disk, Commands

LEMMA AddBeginType ==
  ASSUME TypeOK, NEW img \in Images, AddBegin(img)
  PROVE  TypeOK'
<1>1. PICK s \in Slots, start \in Blocks \cup {0}, ok \in BOOLEAN :
        /\ head' = [head EXCEPT ![s] = TRUE]
        /\ cur' = [slot |-> s, img |-> img, ok |-> ok, left |-> UsedIdx[img],
                   map |-> NoMap, at |-> start]
        /\ good' = good \ {s}
  BY DEF AddBegin
<1>2. cur' \in CurType
  <2>1. UsedIdx[img] \in SUBSET Idx
    BY WbfsAssumption
  <2>2. start \in 0 .. NBlocks - 1
    BY WbfsAssumption DEF Blocks
  <2> QED BY <1>1, <2>1, <2>2, BlankType DEF CurType
<1> QED BY <1>1, <1>2 DEF AddBegin, TypeOK, disk

LEMMA AllocBlockType ==
  ASSUME TypeOK, NEW b \in Blocks, AllocBlock(b)
  PROVE  /\ used' \in [Blocks -> 0 .. UsedMax]
         /\ usedDirty' \in BOOLEAN /\ dirty' \in BOOLEAN
BY WbfsAssumption DEF AllocBlock, TypeOK

LEMMA AddBlockType ==
  ASSUME TypeOK, AddBlock
  PROVE  TypeOK'
<1>1. PICK i \in cur.left, b \in Blocks :
        /\ AllocBlock(b)
        /\ dData' = [dData EXCEPT ![b] = Part(cur.img, i)]
        /\ cur' = [cur EXCEPT !.map[i] = b, !.left = cur.left \ {i}, !.at = b]
  BY DEF AddBlock
<1>2. i \in Idx /\ b \in 0 .. NBlocks - 1 /\ cur.img \in Images \cup {NoImage}
  BY <1>1, WbfsAssumption DEF TypeOK, CurType, Blocks
<1>3. cur' \in CurType
  BY <1>1, <1>2 DEF TypeOK, CurType
<1>4. dData' \in [Blocks -> DataType]
  BY <1>1, <1>2 DEF TypeOK, Part, DataType
<1> QED BY <1>1, <1>3, <1>4, AllocBlockType DEF AddBlock, TypeOK

LEMMA AddReadErrorType ==
  ASSUME TypeOK, AddReadError
  PROVE  TypeOK'
<1>1. PICK b \in Blocks : AllocBlock(b)
  BY DEF AddReadError
<1> QED BY <1>1, BlankType, AllocBlockType DEF AddReadError, TypeOK, disk

LEMMA AddInfoType ==
  ASSUME TypeOK, AddInfo
  PROVE  TypeOK'
<1>1. [id |-> cur.img, valid |-> cur.ok, map |-> cur.map] \in InfoType
  BY DEF TypeOK, CurType, InfoType
<1>2. cur' \in CurType
  BY BlankType DEF AddInfo, TypeOK, CurType
<1> QED BY <1>1, <1>2 DEF AddInfo, TypeOK, CurType

LEMMA SyncType ==
  ASSUME TypeOK, SyncHead \/ SyncFbt
  PROVE  TypeOK'
BY DEF SyncHead, SyncFbt, AfterSync, TypeOK, FreeBlocks

LEMMA OpenAddedType ==
  ASSUME TypeOK, OpenAdded
  PROVE  TypeOK'
<1>1. Valid(cur.slot) \in BOOLEAN
  BY DEF TypeOK, CurType, InfoType, Valid
<1>2. head' \in [Slots -> BOOLEAN]
  BY <1>1 DEF OpenAdded, TypeOK
<1> QED BY <1>2, BlankType DEF OpenAdded, TypeOK, disk

LEMMA RmDiscType ==
  ASSUME TypeOK, NEW s \in Slots, NEW slotOnly \in BOOLEAN, RmDisc(s, slotOnly)
  PROVE  TypeOK'
<1>1. \A b \in Blocks : Released(used[b], RefsFrom(s, b)) \in 0 .. UsedMax
  BY ReleasedType, EntriesFinite DEF TypeOK, RefsFrom
<1>2. used' \in [Blocks -> 0 .. UsedMax]
  BY <1>1 DEF RmDisc, TypeOK
<1>3. usedDirty' \in BOOLEAN /\ dirty' \in BOOLEAN
  BY DEF RmDisc, TypeOK
<1> QED BY <1>2, <1>3 DEF RmDisc, TypeOK, disk

LEMMA RenameType ==
  ASSUME TypeOK, NEW s \in Slots, NEW id \in NewIds, Rename(s, id)
  PROVE  TypeOK'
<1>1. id \in Images
  BY WbfsAssumption
<1>2. dInfo' \in [Slots -> InfoType]
  BY <1>1 DEF Rename, TypeOK, InfoType
<1> QED BY <1>2 DEF Rename, TypeOK, mem

LEMMA RenameIsoType ==
  ASSUME TypeOK, NEW s \in Slots, NEW id \in NewIds, NEW both \in BOOLEAN,
         RenameIso(s, id, both)
  PROVE  TypeOK'
<1>1. id \in Images
  BY WbfsAssumption
<1>2. dData' \in [Blocks -> DataType]
  BY <1>1 DEF RenameIso, TypeOK, DataType
<1>3. cur' \in CurType
  BY <1>1, BlankType DEF RenameIso, TypeOK, CurType, InfoType, NoCur
<1> QED BY <1>2, <1>3 DEF RenameIso, TypeOK

LEMMA RenameEndType ==
  ASSUME TypeOK, RenameInfo \/ RenameFails
  PROVE  TypeOK'
<1>1. dInfo' \in [Slots -> InfoType]
  <2>1. cur.img \in Images \cup {NoImage}
    BY DEF TypeOK, CurType
  <2>2. dInfo \in [Slots -> InfoType]
    BY DEF TypeOK
  <2>3. ASSUME NEW info \in InfoType
        PROVE  [info EXCEPT !.id = cur.img] \in InfoType
    BY <2>1 DEF InfoType
  <2>4. CASE RenameInfo
    <3>1. dInfo' = [dInfo EXCEPT ![cur.slot] = [dInfo[cur.slot] EXCEPT !.id = cur.img]]
      BY <2>4 DEF RenameInfo
    <3>2. cur.slot \in Slots
      BY DEF TypeOK, CurType
    <3>3. dInfo[cur.slot] \in InfoType
      BY <2>2, <3>2
    <3> QED BY <2>2, <2>3, <3>1, <3>2, <3>3
  <2>5. CASE RenameFails
    BY <2>2, <2>5 DEF RenameFails, disk
  <2> QED BY <2>4, <2>5
<1> QED BY <1>1, BlankType DEF RenameInfo, RenameFails, disk, TypeOK

LEMMA NextType == TypeOK /\ [Next]_vars => TypeOK'
<1> SUFFICES ASSUME TypeOK, [Next]_vars
             PROVE  TypeOK'
  OBVIOUS
<1>1. ASSUME NEW c \in Commands, Open(c) PROVE TypeOK'
  BY <1>1, OpenType
<1>2. ASSUME NEW img \in Images, AddBegin(img) PROVE TypeOK'
  BY <1>2, AddBeginType
<1>3. CASE AddBlock
  BY <1>3, AddBlockType
<1>4. CASE AddReadError
  BY <1>4, AddReadErrorType
<1>5. CASE AddInfo
  BY <1>5, AddInfoType
<1>6. CASE SyncHead \/ SyncFbt
  BY <1>6, SyncType
<1>7. CASE OpenAdded
  BY <1>7, OpenAddedType
<1>8. ASSUME NEW s \in Slots, RmSlot(s) PROVE TypeOK'
  BY <1>8, RmDiscType DEF RmSlot
<1>9. ASSUME NEW s \in Slots, DropInvalid(s) PROVE TypeOK'
  BY <1>9 DEF DropInvalid, TypeOK, disk
<1>10. ASSUME NEW id \in Images, RmId(id) PROVE TypeOK'
  BY <1>10, RmDiscType DEF RmId
<1>11. ASSUME NEW s \in Slots, NEW id \in NewIds, Rename(s, id) PROVE TypeOK'
  BY <1>11, RenameType
<1>12. CASE CloseSync
  BY <1>12 DEF CloseSync, TypeOK, disk
<1>13. CASE Close
  BY <1>13, ForgetType DEF Close
<1>14. CASE Crash
  BY <1>14, ForgetType DEF Crash
<1>15. CASE UNCHANGED vars
  BY <1>15 DEF vars, TypeOK
<1>16. ASSUME NEW s \in Slots, NEW id \in NewIds, NEW both \in BOOLEAN,
              RenameIso(s, id, both)
       PROVE  TypeOK'
  BY <1>16, RenameIsoType
<1>17. CASE RenameInfo \/ RenameFails
  BY <1>17, RenameEndType
<1> QED BY <1>1, <1>2, <1>3, <1>4, <1>5, <1>6, <1>7, <1>8, <1>9, <1>10,
           <1>11, <1>12, <1>13, <1>14, <1>15, <1>16, <1>17 DEF Next

(* The memory and the medium of the WBFS code stay well typed: map entries  *)
(* name blocks, use counters never exceed the saturation limit.             *)
THEOREM TypeCorrect == Spec => []TypeOK
<1>1. Init => TypeOK
  BY InitType
<1> QED BY <1>1, NextType, PTL DEF Spec

-----------------------------------------------------------------------------
(* Counting references *)

(* A smaller set of slots has fewer references. *)
LEMMA EntriesMono ==
  ASSUME NEW S \in SUBSET Slots, NEW T \in SUBSET S, NEW b
  PROVE  Cardinality(Entries(T, b)) <= Cardinality(Entries(S, b))
<1>1. Entries(T, b) \in SUBSET Entries(S, b)
  BY DEF Entries
<1> QED BY <1>1, EntriesFinite, FS_Subset

(* The references of a set of slots are those of one of them plus those of  *)
(* the others.                                                              *)
LEMMA EntriesSplit ==
  ASSUME NEW S \in SUBSET Slots, NEW s \in S, NEW b
  PROVE  Cardinality(Entries(S, b))
           = Cardinality(Entries(S \ {s}, b)) + Cardinality(Entries({s}, b))
<1>1. Entries(S, b) \ Entries({s}, b) = Entries(S \ {s}, b)
  BY DEF Entries
<1>2. Entries(S, b) \cap Entries({s}, b) = Entries({s}, b)
  BY DEF Entries
<1>3. Cardinality(Entries(S \ {s}, b))
        = Cardinality(Entries(S, b)) - Cardinality(Entries({s}, b))
  BY <1>1, <1>2, EntriesFinite, FS_Difference
<1>4. /\ Cardinality(Entries(S, b)) \in Nat
      /\ Cardinality(Entries({s}, b)) \in Nat
  BY EntriesFinite
<1> QED BY <1>3, <1>4

LEMMA EntriesEmpty ==
  ASSUME NEW S \in SUBSET Slots, NEW b
  PROVE  Entries(S, b) = {} <=> \A s \in S : \A i \in Idx : dInfo[s].map[i] # b
<1>1. ASSUME NEW s \in S, NEW i \in Idx, dInfo[s].map[i] = b
      PROVE  Entries(S, b) # {}
  <2>1. <<s, i>> \in S \X Idx
    OBVIOUS
  <2>2. <<s, i>> \in Entries(S, b)
    BY <1>1, <2>1 DEF Entries
  <2> QED BY <2>2
<1>2. ASSUME NEW p \in Entries(S, b)
      PROVE  \E s \in S : \E i \in Idx : dInfo[s].map[i] = b
  BY <1>2 DEF Entries
<1> QED BY <1>1, <1>2

LEMMA CoversMono ==
  ASSUME NEW u \in Nat, NEW n \in Nat, NEW m \in Nat, m <= n, Covers(u, n)
  PROVE  Covers(u, m)
BY WbfsAssumption DEF Covers

(* A saturated counter is never released, any other one loses exactly the   *)
(* references that go away: it still covers those that remain.              *)
LEMMA ReleasedCovers ==
  ASSUME NEW u \in Nat, NEW m \in Nat, NEW n \in Nat, Covers(u, m + n)
  PROVE  Covers(Released(u, n), m)
BY WbfsAssumption DEF Covers, Released

LEMMA SaturatedCovers ==
  ASSUME NEW n \in Nat
  PROVE  Covers(Saturated(n), n)
BY WbfsAssumption DEF Covers, Saturated

(* A counter that covers a non-empty set of references is positive. *)
LEMMA CoversPositive ==
  ASSUME NEW S \in SUBSET Slots, NEW b, NEW u \in Nat,
         Covers(u, Cardinality(Entries(S, b)))
  PROVE  u = 0 => Entries(S, b) = {}
<1>1. UsedMax > 0 /\ UsedMax \in Nat
  BY WbfsAssumption
<1>2. Cardinality(Entries(S, b)) \in Nat /\ IsFiniteSet(Entries(S, b))
  BY EntriesFinite
<1>3. u = 0 => Cardinality(Entries(S, b)) = 0
  BY <1>1, <1>2 DEF Covers
<1> QED BY <1>2, <1>3, FS_EmptySet

-----------------------------------------------------------------------------
(* The inductive invariant, action by action *)

LEMMA InitInv == Init => IInv
BY InitType DEF Init, IInv, IdListInv, GoodInv, CopyInv, RenamingInv, Valid, NoInfo

LEMMA ForgetInv ==
  ASSUME IInv, Forget
  PROVE  IInv'
<1>1. TypeOK' /\ (pc' # "idle" => cmd' # "none") /\ cmd' = "none"
  BY ForgetType DEF Forget, IInv
<1>2. IdListInv' /\ GoodInv' /\ CopyInv' /\ RenamingInv'
  BY DEF Forget, IInv, IdListInv, GoodInv, CopyInv, RenamingInv, Valid, disk
<1> QED BY <1>1, <1>2 DEF IInv

LEMMA OpenInv ==
  ASSUME IInv, NEW c \in Commands, Open(c)
  PROVE  IInv'
<1>1. TypeOK'
  BY OpenType DEF IInv
<1>2. pc = "idle"
  BY DEF IInv, Open
<1>3. UsedCovers'
  <2> SUFFICES ASSUME NEW b \in Blocks
               PROVE  Covers(used'[b], Cardinality(Entries(Counted, b)'))
    BY DEF UsedCovers
  <2> DEFINE D == {s \in Slots : dHead[s]}
  <2>1. Entries(Counted, b)' = Entries(Counted', b)
    BY DEF Open, Entries, disk
  <2>2. Counted' \in SUBSET D /\ D \in SUBSET Slots
    BY DEF Counted, Open
  <2>3. Cardinality(Entries(Counted', b)) <= Cardinality(Entries(D, b))
    BY <2>2, EntriesMono
  <2>4. used'[b] = Saturated(Cardinality(Entries(D, b)))
    BY DEF Open, DiskRefsTo
  <2>5. /\ Cardinality(Entries(D, b)) \in Nat
        /\ Cardinality(Entries(Counted', b)) \in Nat
    BY <2>2, EntriesFinite
  <2>6. used'[b] \in Nat
    BY <1>1 DEF TypeOK
  <2>7. Covers(used'[b], Cardinality(Entries(D, b)))
    BY <2>4, <2>5, SaturatedCovers
  <2> HIDE DEF D
  <2> QED BY <2>1, <2>3, <2>5, <2>6, <2>7, CoversMono
<1>4. IdListInv' /\ GoodInv' /\ CopyInv' /\ RenamingInv'
  BY <1>2 DEF Open, IInv, TypeOK, IdListInv, GoodInv, CopyInv, RenamingInv, Valid, disk
<1> QED BY <1>1, <1>2, <1>3, <1>4 DEF IInv, Open

LEMMA AddBeginInv ==
  ASSUME IInv, NEW img \in Images, AddBegin(img)
  PROVE  IInv'
<1>1. TypeOK'
  BY AddBeginType DEF IInv
<1>2. PICK s \in Slots, start \in Blocks \cup {0}, ok \in BOOLEAN :
        /\ ~head[s]
        /\ head' = [head EXCEPT ![s] = TRUE]
        /\ cur' = [slot |-> s, img |-> img, ok |-> ok, left |-> UsedIdx[img],
                   map |-> NoMap, at |-> start]
        /\ good' = good \ {s}
  BY DEF AddBegin
<1>3. /\ cmd = "add" /\ pc = "idle" /\ pc' = "copy"
      /\ UNCHANGED <<dHead, dInfo, dFbt, dData, cmd, used, idList>>
  BY DEF AddBegin, Idle, disk
<1>4. idList[s] = NoImage \/ ~Valid(s)
  BY <1>2 DEF IInv, IdListInv
<1>5. Counted' = Counted /\ s \notin Counted
  BY <1>2, <1>3, <1>4 DEF Counted, Valid, IInv, TypeOK
<1>6. UsedCovers'
  BY <1>3, <1>5 DEF UsedCovers, Entries, IInv
<1>7. IdListInv' /\ GoodInv'
  BY <1>2, <1>3 DEF IInv, TypeOK, IdListInv, GoodInv, Valid
<1>8. CopyInv' /\ RenamingInv'
  <2>1. /\ cur'.slot = s /\ cur'.img = img /\ cur'.left = UsedIdx[img]
        /\ \A i \in Idx : cur'.map[i] = 0
    BY <1>2 DEF NoMap
  <2>2. head'[s] /\ s \notin good'
    BY <1>2 DEF IInv, TypeOK
  <2> QED BY <1>3, <1>5, <2>1, <2>2 DEF CopyInv, RenamingInv
<1> QED BY <1>1, <1>3, <1>6, <1>7, <1>8 DEF IInv

(* The allocated block was covered with 0: nothing counted refers to it. *)
LEMMA AllocBlockInv ==
  ASSUME IInv, cmd # "none", NEW b \in Blocks, AllocBlock(b),
         UNCHANGED <<dInfo, head, idList>>
  PROVE  Unreferenced(b) /\ UsedCovers'
<1>1. used[b] = 0 /\ used' = [used EXCEPT ![b] = 1]
  BY DEF AllocBlock, IsAllocated, IsNearest, FreeBlocks
<1>2. \A c \in Blocks : used[c] \in Nat /\ used'[c] \in Nat
  BY <1>1 DEF IInv, TypeOK
<1>3. Counted \in SUBSET Slots /\ Counted' = Counted
  BY DEF Counted, Valid
<1>4. \A c \in Blocks : Covers(used[c], Cardinality(Entries(Counted, c)))
  BY DEF IInv, UsedCovers
<1>5. Entries(Counted, b) = {}
  BY <1>1, <1>2, <1>3, <1>4, CoversPositive
<1>6. \A c \in Blocks : Entries(Counted, c)' = Entries(Counted, c)
  BY <1>3 DEF Entries
<1>7. UsedCovers'
  <2> SUFFICES ASSUME NEW c \in Blocks
               PROVE  Covers(used'[c], Cardinality(Entries(Counted, c)))
    BY <1>6 DEF UsedCovers
  <2>1. CASE c = b
    <3>1. Cardinality(Entries(Counted, c)) = 0
      BY <2>1, <1>5, FS_EmptySet
    <3> QED BY <3>1, <1>2 DEF Covers
  <2>2. CASE c # b
    BY <2>2, <1>1, <1>4 DEF IInv, TypeOK
  <2> QED BY <2>1, <2>2
<1>8. Unreferenced(b)
  BY <1>3, <1>5, EntriesEmpty DEF Unreferenced
<1> QED BY <1>7, <1>8

LEMMA AddBlockInv ==
  ASSUME IInv, AddBlock
  PROVE  IInv'
<1>1. TypeOK'
  BY AddBlockType DEF IInv
<1>2. PICK i \in cur.left, b \in Blocks :
        /\ AllocBlock(b)
        /\ dData' = [dData EXCEPT ![b] = Part(cur.img, i)]
        /\ cur' = [cur EXCEPT !.map[i] = b, !.left = cur.left \ {i}, !.at = b]
  BY DEF AddBlock
<1>3. /\ pc = "copy" /\ pc' = "copy" /\ cmd # "none"
      /\ UNCHANGED <<dHead, dInfo, dFbt, cmd, head, idList, good>>
  BY DEF AddBlock, IInv
<1>4. Unreferenced(b) /\ UsedCovers'
  BY <1>2, <1>3, AllocBlockInv
<1>5. used[b] = 0 /\ used' = [used EXCEPT ![b] = 1]
  BY <1>2 DEF AllocBlock, IsAllocated, IsNearest, FreeBlocks
<1>6. IdListInv' /\ GoodInv'
  BY <1>3 DEF IInv, IdListInv, GoodInv, Valid
<1>7. CopyInv' /\ RenamingInv'
  <2>1. /\ cur'.slot = cur.slot /\ cur'.img = cur.img
        /\ cur'.left = cur.left \ {i}
        /\ cur'.map = [cur.map EXCEPT ![i] = b]
    BY <1>2 DEF IInv, TypeOK, CurType
  <2>2. /\ cur.map \in [Idx -> 0 .. NBlocks - 1] /\ i \in Idx
        /\ used \in [Blocks -> 0 .. UsedMax]
        /\ dData \in [Blocks -> DataType]
    BY DEF IInv, TypeOK, CurType
  <2>3. b # 0 /\ b \in Blocks
    BY DEF Blocks
  <2>4. CopyInv
    BY DEF IInv
  <2>5. \A j \in Idx : cur.map[j] # b
    BY <1>3, <1>5, <2>2, <2>3, <2>4 DEF CopyInv
  <2>6. ASSUME NEW j \in Idx
        PROVE  \/ /\ j \in UsedIdx[cur'.img] \ cur'.left
                  /\ cur'.map[j] \in Blocks
                  /\ used'[cur'.map[j]] >= 1
                  /\ Unreferenced(cur.map[j])'
                  /\ dData'[cur'.map[j]] = Part(cur'.img, j)
               \/ j \notin UsedIdx[cur'.img] \ cur'.left /\ cur'.map[j] = 0
    <3>1. CASE j = i
      <4>1. j \in UsedIdx[cur'.img] \ cur'.left
        BY <3>1, <1>3, <2>1, <2>4 DEF CopyInv
      <4>2. cur'.map[j] = b
        BY <3>1, <2>1, <2>2
      <4>3. Unreferenced(cur.map[j])'
        BY <4>2, <1>3, <1>4 DEF Unreferenced, Counted, Valid
      <4>4. used'[b] = 1 /\ dData'[b] = Part(cur'.img, j)
        BY <3>1, <1>2, <1>5, <2>1, <2>2
      <4> QED BY <4>1, <4>2, <4>3, <4>4
    <3>2. CASE j # i
      <4>1. cur'.map[j] = cur.map[j]
        BY <3>2, <2>1, <2>2
      <4>2. cur.map[j] # b
        BY <2>5
      <4>3. j \in cur'.left <=> j \in cur.left
        BY <3>2, <2>1
      <4>4. CASE j \notin UsedIdx[cur.img] \ cur.left /\ cur.map[j] = 0
        BY <4>4, <4>1, <4>3, <2>1
      <4>5. CASE /\ j \in UsedIdx[cur.img] \ cur.left
                 /\ cur.map[j] \in Blocks
                 /\ used[cur.map[j]] >= 1 /\ Unreferenced(cur.map[j])
                 /\ dData[cur.map[j]] = Part(cur.img, j)
        <5>1. Unreferenced(cur.map[j])'
          BY <4>1, <4>5, <1>3 DEF Unreferenced, Counted, Valid
        <5>2. used'[cur.map[j]] = used[cur.map[j]]
          BY <4>2, <4>5, <1>5, <2>2
        <5>3. dData'[cur.map[j]] = dData[cur.map[j]]
          BY <4>2, <4>5, <1>2, <2>2
        <5> QED BY <5>1, <5>2, <5>3, <4>1, <4>3, <4>5, <2>1
      <4> QED BY <4>4, <4>5, <1>3, <2>4 DEF CopyInv
    <3> QED BY <3>1, <3>2
  <2>7. \A j, k \in Idx : cur'.map[j] = cur'.map[k] /\ cur'.map[j] # 0 => j = k
    BY <1>3, <2>1, <2>2, <2>4, <2>5 DEF CopyInv
  <2>8. /\ cmd' = "add" /\ cur'.img \in Images
        /\ head'[cur'.slot] /\ cur'.slot \notin Counted' /\ cur'.slot \notin good'
        /\ cur'.left \subseteq UsedIdx[cur'.img]
    BY <1>3, <2>1, <2>4 DEF CopyInv, Counted, Valid
  <2> QED BY <1>3, <2>6, <2>7, <2>8 DEF CopyInv, RenamingInv
<1> QED BY <1>1, <1>3, <1>4, <1>6, <1>7 DEF IInv

LEMMA AddReadErrorInv ==
  ASSUME IInv, AddReadError
  PROVE  IInv'
<1>1. TypeOK'
  BY AddReadErrorType DEF IInv
<1>2. /\ pc = "copy" /\ pc' = "idle" /\ cmd # "none"
      /\ UNCHANGED <<dHead, dInfo, dFbt, dData, cmd, head, idList, good>>
  BY DEF AddReadError, IInv, disk
<1>3. UsedCovers'
  BY <1>2, AllocBlockInv DEF AddReadError
<1>4. IdListInv' /\ GoodInv' /\ CopyInv' /\ RenamingInv'
  BY <1>2 DEF IInv, IdListInv, GoodInv, CopyInv, RenamingInv, Valid
<1> QED BY <1>1, <1>2, <1>3, <1>4 DEF IInv

(* The new inode adds at most one reference to each block, and only to      *)
(* blocks that had none.                                                    *)
LEMMA AddInfoInv ==
  ASSUME IInv, AddInfo
  PROVE  IInv'
<1> DEFINE s == cur.slot
           info == [id |-> cur.img, valid |-> cur.ok, map |-> cur.map]
<1>1. TypeOK'
  BY AddInfoType DEF IInv
<1>2. /\ pc = "copy" /\ pc' = "head" /\ cur.left = {} /\ cmd = "add"
      /\ UNCHANGED <<dHead, dFbt, dData, cmd, head, used>>
      /\ dInfo' = [dInfo EXCEPT ![s] = info]
      /\ idList' = [idList EXCEPT ![s] = cur.img]
      /\ good' = IF cur.ok THEN good \cup {s} ELSE good
  BY DEF AddInfo, IInv, CopyInv
<1>3. /\ s \in Slots /\ head[s] /\ s \notin Counted /\ s \notin good
      /\ cur.img \in Images /\ cur.img # NoImage /\ cur.ok \in BOOLEAN
      /\ dInfo'[s] = info
      /\ idList'[s] = cur.img
      /\ \A t \in Slots : t # s => dInfo'[t] = dInfo[t] /\ idList'[t] = idList[t]
  <2>1. s \in Slots /\ head[s] /\ s \notin Counted /\ s \notin good
    BY <1>2 DEF IInv, CopyInv, TypeOK, CurType
  <2>2. cur.img \in Images /\ cur.img # NoImage /\ cur.ok \in BOOLEAN
    BY <1>2, WbfsAssumption DEF IInv, CopyInv, TypeOK, CurType
  <2>3. /\ dInfo'[s] = info
        /\ \A t \in Slots : t # s => dInfo'[t] = dInfo[t]
    BY <1>2, <2>1 DEF IInv, TypeOK
  <2>4. /\ idList'[s] = cur.img
        /\ \A t \in Slots : t # s => idList'[t] = idList[t]
    BY <1>2, <2>1 DEF IInv, TypeOK
  <2> QED BY <2>1, <2>2, <2>3, <2>4
<1>4. /\ Counted' = IF cur.ok THEN Counted \cup {s} ELSE Counted
      /\ Counted \in SUBSET Slots
  BY <1>2, <1>3 DEF Counted, Valid
<1>5. UsedCovers'
  <2> SUFFICES ASSUME NEW b \in Blocks
               PROVE  Covers(used[b], Cardinality(Entries(Counted, b)'))
    BY <1>2 DEF UsedCovers
  <2>1. used[b] \in Nat /\ Covers(used[b], Cardinality(Entries(Counted, b)))
    BY <1>2 DEF IInv, TypeOK, UsedCovers
  <2>2. CASE \A i \in Idx : cur.map[i] # b
    <3>1. Entries(Counted, b)' = {p \in Counted' \X Idx : dInfo'[p[1]].map[p[2]] = b}
      BY DEF Entries
    <3>2. \A p \in Counted' \X Idx : dInfo'[p[1]].map[p[2]] = b
            => p[1] \in Counted /\ dInfo[p[1]].map[p[2]] = b
      BY <1>3, <1>4, <2>2
    <3>3. \A p \in Counted \X Idx : dInfo'[p[1]] = dInfo[p[1]] /\ p[1] \in Counted'
      BY <1>3, <1>4
    <3>4. Entries(Counted, b)' = Entries(Counted, b)
      BY <3>1, <3>2, <3>3 DEF Entries
    <3> QED BY <2>1, <3>4
  <2>3. ASSUME NEW i \in Idx, cur.map[i] = b PROVE Covers(used[b], Cardinality(Entries(Counted, b)'))
    <3>1. b # 0
      BY DEF Blocks
    <3>2. used[b] >= 1 /\ Unreferenced(b)
      BY <1>2, <2>3, <3>1 DEF IInv, CopyInv
    <3>3. \A j \in Idx : cur.map[j] = b => j = i
      BY <1>2, <2>3, <3>1 DEF IInv, CopyInv
    <3>4. Entries(Counted, b)' \in SUBSET {<<s, i>>}
      BY <1>3, <1>4, <3>2, <3>3 DEF Entries, Unreferenced
    <3> DEFINE E == Entries(Counted, b)'
    <3>5. ASSUME NEW T \in SUBSET {<<s, i>>}
          PROVE  Cardinality(T) <= 1 /\ Cardinality(T) \in Nat
      <4>1. IsFiniteSet({<<s, i>>}) /\ Cardinality({<<s, i>>}) = 1
        BY FS_Singleton
      <4> QED BY <4>1, FS_Subset, FS_CardinalityType
    <3>6. Cardinality(E) <= 1 /\ Cardinality(E) \in Nat
      BY <3>4, <3>5
    <3> QED BY <2>1, <3>2, <3>6 DEF Covers
  <2> QED BY <2>2, <2>3
<1>6. IdListInv' /\ GoodInv'
  BY <1>2, <1>3 DEF IInv, IdListInv, GoodInv, Valid, TypeOK
<1>7. CopyInv' /\ RenamingInv'
  BY <1>2 DEF CopyInv, RenamingInv
<1> QED BY <1>1, <1>2, <1>5, <1>6, <1>7 DEF IInv

LEMMA SyncInv ==
  ASSUME IInv, SyncHead \/ SyncFbt
  PROVE  IInv'
<1>1. TypeOK' /\ cmd # "none" /\ cmd' = cmd
  BY SyncType DEF SyncHead, SyncFbt, IInv
<1>2. /\ UNCHANGED <<dInfo, cmd, head, used, idList, cur, good>>
      /\ pc # "copy" /\ pc' \notin {"copy", "head", "inode"}
      /\ dHead' = head \/ (pc # "head" /\ dHead' = dHead)
  BY DEF SyncHead, SyncFbt, AfterSync
<1>3. UsedCovers'
  BY <1>1, <1>2 DEF IInv, UsedCovers, Entries, Counted, Valid
<1>4. IdListInv' /\ GoodInv' /\ CopyInv' /\ RenamingInv'
  BY <1>1, <1>2 DEF IInv, IdListInv, GoodInv, CopyInv, RenamingInv, Valid
<1> QED BY <1>1, <1>3, <1>4 DEF IInv

(* A slot that is freed because its inode is bad was not counted. *)
LEMMA FreedInv ==
  ASSUME IInv, TypeOK', NEW s \in Slots, ~Valid(s) \/ head' = head,
         pc # "copy", pc # "head", cmd # "none", pc' = "idle",
         head' = head \/ head' = [head EXCEPT ![s] = FALSE],
         UNCHANGED <<dHead, dInfo, cmd, used, idList, good>>
  PROVE  IInv'
<1>1. \A t \in Slots : Valid(t) => head'[t] = head[t]
  BY DEF IInv, TypeOK
<1>2. \A t \in Slots : head'[t] => head[t]
  BY DEF IInv, TypeOK
<1>3. Counted' = Counted
  BY <1>1, <1>2 DEF Counted, Valid
<1>4. UsedCovers'
  BY <1>3 DEF IInv, UsedCovers, Entries
<1>5. IdListInv' /\ CopyInv' /\ RenamingInv'
  BY <1>1, <1>2 DEF IInv, IdListInv, CopyInv, RenamingInv, Valid
<1>6. GoodInv'
  BY <1>1, <1>2 DEF IInv, TypeOK, GoodInv, Valid
<1> QED BY <1>4, <1>5, <1>6 DEF IInv

LEMMA OpenAddedInv ==
  ASSUME IInv, OpenAdded
  PROVE  IInv'
<1>1. /\ pc = "open" /\ pc' = "idle" /\ cmd # "none" /\ cur.slot \in Slots
      /\ UNCHANGED <<dHead, dInfo, cmd, used, idList, good>>
  BY DEF OpenAdded, disk, IInv, TypeOK, CurType
<1>2. head' = head \/ (head' = [head EXCEPT ![cur.slot] = FALSE] /\ ~Valid(cur.slot))
  <2>1. Valid(cur.slot) \in BOOLEAN /\ head \in [Slots -> BOOLEAN]
    BY <1>1 DEF IInv, TypeOK, InfoType, Valid
  <2> QED BY <1>1, <2>1 DEF OpenAdded
<1> QED BY <1>1, <1>2, OpenAddedType, FreedInv DEF IInv

(* REMOVE gives back what the removed slot refers to and nothing that any   *)
(* other counted slot needs.                                                *)
LEMMA RmDiscInv ==
  ASSUME IInv, NEW s \in Slots, NEW slotOnly \in BOOLEAN, RmDisc(s, slotOnly),
         Idle, idList[s] # NoImage
  PROVE  IInv'
<1>1. TypeOK'
  BY RmDiscType DEF IInv
<1>2. /\ pc' = "head" /\ cmd # "none"
      /\ UNCHANGED <<dHead, dInfo, dFbt, dData, cmd, cur, good>>
      /\ head' = [head EXCEPT ![s] = FALSE]
      /\ idList' = [idList EXCEPT ![s] = NoImage]
  BY DEF RmDisc, Idle, disk
<1>3. s \in Counted /\ Counted \in SUBSET Slots /\ Counted' = Counted \ {s}
  BY <1>2 DEF Counted, Valid, RmDisc, IInv, TypeOK
<1>4. UsedCovers'
  <2> SUFFICES ASSUME NEW b \in Blocks
               PROVE  Covers(used'[b], Cardinality(Entries(Counted \ {s}, b)))
    BY <1>2, <1>3 DEF UsedCovers, Entries
  <2> DEFINE all  == Cardinality(Entries(Counted, b))
             rest == Cardinality(Entries(Counted \ {s}, b))
             mine == Cardinality(Entries({s}, b))
  <2>1. all = rest + mine
    BY <1>3, EntriesSplit
  <2>2. rest \in Nat /\ mine \in Nat /\ all \in Nat
    BY <1>3, EntriesFinite
  <2>3. used[b] \in Nat /\ Covers(used[b], all)
    BY <1>2 DEF IInv, TypeOK, UsedCovers
  <2>4. CASE slotOnly
    <3>1. used'[b] = used[b]
      BY <2>4 DEF RmDisc
    <3> QED BY <2>1, <2>2, <2>3, <3>1, CoversMono
  <2>5. CASE ~slotOnly
    <3>1. used'[b] = Released(used[b], mine)
      BY <2>5 DEF RmDisc, RefsFrom
    <3> QED BY <2>1, <2>2, <2>3, <3>1, ReleasedCovers
  <2> QED BY <2>4, <2>5
<1>5. IdListInv' /\ GoodInv' /\ CopyInv' /\ RenamingInv'
  BY <1>2 DEF IInv, IdListInv, GoodInv, CopyInv, RenamingInv, Valid, TypeOK
<1> QED BY <1>1, <1>2, <1>4, <1>5 DEF IInv

LEMMA DropInvalidInv ==
  ASSUME IInv, NEW s \in Slots, DropInvalid(s)
  PROVE  IInv'
<1>1. /\ cmd # "none" /\ pc = "idle" /\ pc' = "idle" /\ ~Valid(s)
      /\ head' = [head EXCEPT ![s] = FALSE]
      /\ UNCHANGED <<dHead, dInfo, cmd, used, idList, good>>
  BY DEF DropInvalid, Idle, disk
<1>2. TypeOK'
  BY <1>1 DEF IInv, TypeOK, DropInvalid, disk
<1> QED BY <1>1, <1>2, FreedInv

(* RENAME changes neither a map nor what is valid. *)
LEMMA RenamedInv ==
  ASSUME IInv, TypeOK', cmd = "rename", pc \in {"idle", "inode"}, pc' \in {"idle", "inode"},
         pc' = "inode" => cur'.img \in Images,
         UNCHANGED <<dHead, cmd, head, used, idList, good>>,
         \A s \in Slots : /\ dInfo'[s].map = dInfo[s].map
                          /\ dInfo'[s].valid = dInfo[s].valid
                          /\ dInfo'[s].id = dInfo[s].id \/ dInfo'[s].id \in Images
  PROVE  IInv'
<1>1. Counted' = Counted /\ Counted \in SUBSET Slots
  BY DEF Counted, Valid
<1>2. \A b : Entries(Counted, b)' = Entries(Counted, b)
  BY <1>1 DEF Entries
<1>3. UsedCovers'
  BY <1>2 DEF IInv, UsedCovers
<1>4. IdListInv' /\ GoodInv' /\ CopyInv' /\ RenamingInv'
  BY WbfsAssumption DEF IInv, TypeOK, IdListInv, GoodInv, CopyInv, RenamingInv, Valid
<1> QED BY <1>3, <1>4 DEF IInv

LEMMA RenameInv ==
  ASSUME IInv, NEW s \in Slots, NEW id \in NewIds, Rename(s, id)
  PROVE  IInv'
<1>1. TypeOK' /\ id \in Images
  BY RenameType, WbfsAssumption DEF IInv
<1>2. /\ cmd = "rename" /\ pc = "idle"
      /\ dInfo' = [dInfo EXCEPT ![s].id = id]
      /\ UNCHANGED <<dHead, cmd, head, used, idList, pc, good>>
  BY DEF Rename, IsRenamed, Idle, mem
<1>3. \A t \in Slots : /\ dInfo'[t].map = dInfo[t].map
                       /\ dInfo'[t].valid = dInfo[t].valid
                       /\ dInfo'[t].id = dInfo[t].id \/ dInfo'[t].id \in Images
  BY <1>1, <1>2 DEF IInv, TypeOK, InfoType
<1> QED BY <1>1, <1>2, <1>3, RenamedInv

LEMMA RenameIsoInv ==
  ASSUME IInv, NEW s \in Slots, NEW id \in NewIds, NEW both \in BOOLEAN,
         RenameIso(s, id, both)
  PROVE  IInv'
<1>1. TypeOK' /\ id \in Images
  BY RenameIsoType, WbfsAssumption DEF IInv
<1>2. /\ cmd = "rename" /\ pc = "idle" /\ pc' = "inode"
      /\ UNCHANGED <<dHead, dInfo, cmd, head, used, idList, good>>
  BY DEF RenameIso, IsRenamed, Idle
<1>3. cur'.img \in Images
  <2>1. dInfo[s].id \in Images
    BY DEF RenameIso, IsRenamed, IInv, IdListInv, TypeOK, InfoType
  <2>2. cur'.img = IF both THEN id ELSE dInfo[s].id
    BY DEF RenameIso, NoCur
  <2> QED BY <1>1, <2>1, <2>2
<1> QED BY <1>1, <1>2, <1>3, RenamedInv

LEMMA RenameEndInv ==
  ASSUME IInv, RenameInfo \/ RenameFails
  PROVE  IInv'
<1>1. TypeOK'
  BY RenameEndType DEF IInv
<1>2. /\ pc = "inode" /\ cmd = "rename" /\ pc' = "idle" /\ cur.img \in Images
      /\ UNCHANGED <<dHead, cmd, head, used, idList, good>>
  BY DEF RenameInfo, RenameFails, disk, IInv, RenamingInv
<1>3. \A t \in Slots : /\ dInfo'[t].map = dInfo[t].map
                       /\ dInfo'[t].valid = dInfo[t].valid
                       /\ dInfo'[t].id = dInfo[t].id \/ dInfo'[t].id \in Images
  BY <1>2 DEF RenameInfo, RenameFails, disk, IInv, TypeOK, InfoType
<1> QED BY <1>1, <1>2, <1>3, RenamedInv

LEMMA FrameInv ==
  ASSUME IInv, CloseSync \/ UNCHANGED vars
  PROVE  IInv'
<1>1. TypeOK' /\ (pc' # "idle" => cmd' # "none")
  BY DEF CloseSync, vars, IInv, TypeOK, disk, Idle
<1>2. UNCHANGED <<dHead, dInfo, dData, cmd, head, used, idList, cur, good>>
  BY DEF CloseSync, vars, disk
<1>3. (cmd' # "none" => UsedCovers') /\ IdListInv' /\ GoodInv'
  BY <1>2 DEF CloseSync, vars, Idle, IInv, UsedCovers, Entries, Counted, IdListInv,
              GoodInv, Valid
<1>4. CopyInv' /\ RenamingInv'
  BY <1>2 DEF CloseSync, vars, Idle, IInv, CopyInv, Unreferenced, Counted, Valid, RenamingInv
<1> QED BY <1>1, <1>3, <1>4 DEF IInv

LEMMA NextInv == IInv /\ [Next]_vars => IInv'
<1> SUFFICES ASSUME IInv, [Next]_vars
             PROVE  IInv'
  OBVIOUS
<1>1. ASSUME NEW c \in Commands, Open(c) PROVE IInv'
  BY <1>1, OpenInv
<1>2. ASSUME NEW img \in Images, AddBegin(img) PROVE IInv'
  BY <1>2, AddBeginInv
<1>3. CASE AddBlock
  BY <1>3, AddBlockInv
<1>4. CASE AddReadError
  BY <1>4, AddReadErrorInv
<1>5. CASE AddInfo
  BY <1>5, AddInfoInv
<1>6. CASE SyncHead \/ SyncFbt
  BY <1>6, SyncInv
<1>7. CASE OpenAdded
  BY <1>7, OpenAddedInv
<1>8. ASSUME NEW s \in Slots, RmSlot(s) PROVE IInv'
  <2>1. idList[s] # NoImage
    BY <1>8 DEF RmSlot, RmDisc, IInv, IdListInv
  <2> QED BY <1>8, <2>1, RmDiscInv DEF RmSlot
<1>9. ASSUME NEW s \in Slots, DropInvalid(s) PROVE IInv'
  BY <1>9, DropInvalidInv
<1>10. ASSUME NEW id \in Images, RmId(id) PROVE IInv'
  <2>1. PICK s \in Slots : IsFoundSlot(s, id) /\ RmDisc(s, FALSE)
    BY <1>10 DEF RmId
  <2>2. idList[s] # NoImage
    BY <2>1, WbfsAssumption DEF IsFoundSlot, HasId
  <2> QED BY <1>10, <2>1, <2>2, RmDiscInv DEF RmId
<1>11. ASSUME NEW s \in Slots, NEW id \in NewIds, Rename(s, id) PROVE IInv'
  BY <1>11, RenameInv
<1>12. CASE CloseSync
  BY <1>12, FrameInv
<1>13. CASE Close
  BY <1>13, ForgetInv DEF Close
<1>14. CASE Crash
  BY <1>14, ForgetInv DEF Crash
<1>15. CASE UNCHANGED vars
  BY <1>15, FrameInv
<1>16. ASSUME NEW s \in Slots, NEW id \in NewIds, NEW both \in BOOLEAN,
              RenameIso(s, id, both)
       PROVE  IInv'
  BY <1>16, RenameIsoInv
<1>17. CASE RenameInfo \/ RenameFails
  BY <1>17, RenameEndInv
<1> QED BY <1>1, <1>2, <1>3, <1>4, <1>5, <1>6, <1>7, <1>8, <1>9, <1>10,
           <1>11, <1>12, <1>13, <1>14, <1>15, <1>16, <1>17 DEF Next

LEMMA InductiveInvariant == Spec => []IInv
BY InitInv, NextInv, PTL DEF Spec

-----------------------------------------------------------------------------
(* Safety of the data *)

LEMMA InvNoLiveBlockFree == IInv => NoLiveBlockFree
<1> SUFFICES ASSUME IInv, cmd # "none", pc # "head",
                    NEW s \in Slots, NEW i \in Idx,
                    Committed(s), dInfo[s].map[i] # 0
             PROVE  used[dInfo[s].map[i]] > 0
  BY DEF NoLiveBlockFree
<1> DEFINE b == dInfo[s].map[i]
<1>1. s \in Counted /\ Counted \in SUBSET Slots
  BY DEF Committed, IInv, GoodInv, Counted
<1>2. b \in Blocks
  <2>1. dInfo[s].map[i] \in 0 .. NBlocks - 1
    BY DEF IInv, TypeOK, InfoType
  <2> QED BY <2>1, WbfsAssumption DEF Blocks
<1>3. used[b] \in Nat /\ Covers(used[b], Cardinality(Entries(Counted, b)))
  BY <1>2 DEF IInv, TypeOK, UsedCovers
<1>4. Entries(Counted, b) # {}
  BY <1>1, EntriesEmpty
<1> QED BY <1>1, <1>3, <1>4, CoversPositive

(* No block of a committed disc is ever up for allocation, whatever crashes *)
(* and read errors came before.                                             *)
THEOREM LiveBlocksSafe == Spec => []NoLiveBlockFree
BY InductiveInvariant, InvNoLiveBlockFree, PTL

(* The free blocks table, whenever it is written, keeps clear of every      *)
(* committed disc.                                                          *)
THEOREM FbtSafe == Spec => FbtWriteSafe
<1>1. ASSUME IInv, [Next]_vars, dFbt' # dFbt, NEW s \in Slots, NEW i \in Idx, Committed(s)
      PROVE  dInfo[s].map[i] \notin dFbt'
  <2>1. SyncFbt
    BY <1>1 DEF Next, vars, disk, Open, AddBegin, AddBlock, AddReadError, AddInfo,
       SyncHead, OpenAdded, RmSlot, RmId, RmDisc, DropInvalid, Rename, RenameIso,
       RenameInfo, RenameFails, CloseSync, Close, Crash, Forget
  <2>2. dFbt' = FreeBlocks /\ cmd # "none" /\ pc # "head"
    BY <1>1, <2>1 DEF SyncFbt, IInv
  <2>3. dInfo[s].map[i] # 0 => used[dInfo[s].map[i]] > 0
    BY <1>1, <2>2, InvNoLiveBlockFree DEF NoLiveBlockFree
  <2> QED BY <2>2, <2>3 DEF FreeBlocks, Blocks
<1>2. IInv /\ [Next]_vars =>
        [dFbt' # dFbt =>
           \A s \in Slots : \A i \in Idx : Committed(s) => dInfo[s].map[i] \notin dFbt']_vars
  BY <1>1
<1> QED BY <1>2, InductiveInvariant, PTL DEF Spec, FbtWriteSafe

(* Only a disc that wbfs_rm_disc() has taken out of the ID list vanishes    *)
(* from the catalogue; slots freed for a bad inode are never one of its     *)
(* discs, failed header reads included.                                     *)
THEOREM OnlyRemoved == Spec => OnlyRemovedVanish
<1>1. ASSUME IInv, [Next]_vars, NEW s \in Slots, Committed(s), ~Committed(s)'
      PROVE  idList[s] = NoImage
  <2>1. s \in good /\ dHead[s] /\ Valid(s)
    BY <1>1 DEF Committed, IInv, GoodInv
  <2>2. ASSUME NEW img \in Images, AddBegin(img) PROVE FALSE
    <3>1. PICK t \in Slots : ~head[t] /\ good' = good \ {t}
      BY <2>2 DEF AddBegin
    <3>2. dHead' = dHead /\ cmd # "none" /\ pc = "idle"
      BY <2>2 DEF AddBegin, Idle, disk
    <3>3. head[s]
      BY <1>1, <2>1, <3>2 DEF IInv, GoodInv
    <3> QED BY <1>1, <2>1, <3>1, <3>2, <3>3 DEF Committed
  <2>3. CASE SyncHead
    BY <1>1, <2>1, <2>3 DEF SyncHead, Committed, IInv, IdListInv
  <2>4. CASE AddInfo
    BY <1>1, <2>1, <2>4 DEF AddInfo, Committed
  <2>5. CASE UNCHANGED <<dHead, good>>
    BY <1>1, <2>5 DEF Committed
  <2> QED BY <1>1, <2>2, <2>3, <2>4, <2>5 DEF Next, vars, disk, mem, Open, AddBlock,
       AddReadError, SyncFbt, OpenAdded, RmSlot, RmId, RmDisc, DropInvalid, Rename,
       RenameIso, RenameInfo, RenameFails, CloseSync, Close, Crash, Forget
<1>2. IInv /\ [Next]_vars =>
        [\A s \in Slots : Committed(s) /\ ~Committed(s)' => idList[s] = NoImage]_vars
  BY <1>1
<1> QED BY <1>2, InductiveInvariant, PTL DEF Spec, OnlyRemovedVanish
-----------------------------------------------------------------------------
(* The catalogue without read errors.  HeadInv, DisjointInv and CountInv    *)
(* are kept one by one.                                                     *)

LEMMA HeadInvNext ==
  ASSUME IInv, HeadInv, ~SourceFaults, [Next]_vars
  PROVE  HeadInv'
<1>1. ASSUME NEW c \in Commands, Open(c) PROVE HeadInv'
  BY <1>1 DEF Open, disk, IInv, HeadInv, NoGhostDisc, TypeOK
<1>2. ASSUME NEW img \in Images, AddBegin(img) PROVE HeadInv'
  <2>1. PICK s \in Slots, start \in Blocks \cup {0}, ok \in BOOLEAN :
          /\ ~head[s]
          /\ head' = [head EXCEPT ![s] = TRUE]
          /\ cur' = [slot |-> s, img |-> img, ok |-> ok, left |-> UsedIdx[img],
                     map |-> NoMap, at |-> start]
          /\ good' = good \ {s}
          /\ ok
    BY <1>2 DEF AddBegin
  <2>2. pc' = "copy" /\ pc = "idle" /\ cmd # "none" /\ dHead' = dHead
    BY <1>2 DEF AddBegin, Idle, disk
  <2>3. ~dHead[s]
    BY <2>1, <2>2 DEF IInv, GoodInv, HeadInv, NoGhostDisc
  <2> QED BY <2>1, <2>2, <2>3 DEF HeadInv, NoGhostDisc, IInv, TypeOK
<1>3. CASE AddBlock
  <2>1. pc = "copy" /\ pc' = "copy" /\ cur'.slot = cur.slot /\ cur'.ok = cur.ok
        /\ UNCHANGED <<dHead, head, good>>
    BY <1>3 DEF AddBlock, IInv, TypeOK, CurType
  <2> QED BY <2>1 DEF HeadInv, NoGhostDisc
<1>4. CASE AddReadError
  BY <1>4 DEF AddReadError
<1>5. CASE AddInfo
  BY <1>5 DEF AddInfo, HeadInv, NoGhostDisc
<1>6. CASE SyncHead
  BY <1>6 DEF SyncHead, AfterSync, HeadInv, NoGhostDisc
<1>7. CASE SyncFbt
  BY <1>7 DEF SyncFbt, AfterSync, HeadInv, NoGhostDisc
<1>8. ASSUME NEW s \in Slots, NEW slotOnly \in BOOLEAN, RmDisc(s, slotOnly), Idle
      PROVE  HeadInv'
  BY <1>8 DEF RmDisc, Idle, disk, HeadInv, NoGhostDisc, IInv, TypeOK
<1>9. ASSUME NEW s \in Slots, RmSlot(s) PROVE HeadInv'
  BY <1>8, <1>9 DEF RmSlot
<1>10. ASSUME NEW s \in Slots, DropInvalid(s) PROVE HeadInv'
  BY <1>10 DEF DropInvalid, Idle, disk, HeadInv, NoGhostDisc, IInv, TypeOK
<1>11. ASSUME NEW id \in Images, RmId(id) PROVE HeadInv'
  BY <1>8, <1>11 DEF RmId
<1>12. ASSUME NEW s \in Slots, NEW id \in NewIds, Rename(s, id) PROVE HeadInv'
  BY <1>12 DEF Rename, mem, HeadInv, NoGhostDisc
<1>13. CASE CloseSync
  BY <1>13 DEF CloseSync, Idle, disk, HeadInv, NoGhostDisc
<1>14. ASSUME Forget PROVE HeadInv'
  BY <1>14 DEF Forget, disk, HeadInv, NoGhostDisc
<1>15. CASE UNCHANGED vars
  BY <1>15 DEF vars, HeadInv, NoGhostDisc
<1>16. CASE OpenAdded
  BY <1>16 DEF OpenAdded, disk, HeadInv, NoGhostDisc, IInv, TypeOK
<1>17. ASSUME NEW s \in Slots, NEW id \in NewIds, NEW both \in BOOLEAN,
              RenameIso(s, id, both)
       PROVE  HeadInv'
  BY <1>17 DEF RenameIso, IsRenamed, Idle, HeadInv, NoGhostDisc
<1>18. CASE RenameInfo \/ RenameFails
  BY <1>18 DEF RenameInfo, RenameFails, disk, HeadInv, NoGhostDisc
<1> QED BY <1>1, <1>2, <1>3, <1>4, <1>5, <1>6, <1>7, <1>9, <1>10, <1>11, <1>12,
           <1>13, <1>14, <1>15, <1>16, <1>17, <1>18 DEF Next, Close, Crash

(* While a command is running and no header write is pending, every slot    *)
(* that the medium marks used is counted, and so is every slot that memory  *)
(* marks used but the one being filled.                                     *)
LEMMA UsedSlotsCounted ==
  ASSUME IInv, HeadInv, cmd # "none", NEW s \in Slots
  PROVE  /\ head[s] => s \in Counted \/ (pc = "copy" /\ s = cur.slot)
         /\ pc # "head" /\ dHead[s] => s \in Counted
BY DEF IInv, HeadInv, NoGhostDisc, GoodInv, Counted

(* Only the inode write of an ADD makes a slot live or changes a map; the   *)
(* blocks it names were referred to by no live slot.                        *)
LEMMA LiveKept ==
  ASSUME IInv, HeadInv, [Next]_vars, ~AddInfo, ~SourceFaults
  PROVE  Live' \subseteq Live /\ \A s \in Slots : dInfo'[s].map = dInfo[s].map
<1>1. ASSUME NEW c \in Commands, Open(c)
      PROVE  Live' \subseteq Live /\ dInfo' = dInfo
  BY <1>1 DEF Open, disk, Live, Counted, Valid
<1>2. ASSUME NEW img \in Images, AddBegin(img)
      PROVE  Live' \subseteq Live /\ dInfo' = dInfo
  <2>1. PICK s \in Slots : ~head[s] /\ head' = [head EXCEPT ![s] = TRUE]
    BY <1>2 DEF AddBegin
  <2>2. UNCHANGED <<dHead, dInfo, idList>> /\ (idList[s] = NoImage \/ ~Valid(s))
    BY <1>2, <2>1 DEF AddBegin, disk, IInv, IdListInv
  <2> QED BY <2>1, <2>2 DEF Live, Counted, Valid, IInv, TypeOK
<1>3. CASE AddBlock
  BY <1>3 DEF AddBlock, Live, Counted, Valid
<1>4. CASE AddReadError
  BY <1>4 DEF AddReadError
<1>5. ASSUME SyncHead
      PROVE  Live' \subseteq Live /\ dInfo' = dInfo
  <2>1. cmd # "none" /\ pc # "copy" /\ dHead' = head
        /\ UNCHANGED <<dInfo, head, idList>>
    BY <1>5 DEF SyncHead, IInv
  <2> QED BY <2>1, UsedSlotsCounted DEF Live, Counted, Valid
<1>6. CASE SyncFbt
  BY <1>6 DEF SyncFbt, Live, Counted, Valid
<1>7. ASSUME NEW s \in Slots, NEW slotOnly \in BOOLEAN, RmDisc(s, slotOnly)
      PROVE  Live' \subseteq Live /\ dInfo' = dInfo
  BY <1>7 DEF RmDisc, disk, Live, Counted, Valid, IInv, TypeOK
<1>8. ASSUME NEW s \in Slots, RmSlot(s)
      PROVE  Live' \subseteq Live /\ dInfo' = dInfo
  BY <1>7, <1>8 DEF RmSlot
<1>9. ASSUME NEW s \in Slots, DropInvalid(s)
      PROVE  Live' \subseteq Live /\ dInfo' = dInfo
  BY <1>9 DEF DropInvalid, disk, Live, Counted, Valid, IInv, TypeOK
<1>10. ASSUME NEW id \in Images, RmId(id)
       PROVE  Live' \subseteq Live /\ dInfo' = dInfo
  BY <1>7, <1>10 DEF RmId
<1>11. ASSUME NEW s \in Slots, NEW id \in NewIds, Rename(s, id)
       PROVE  Live' = Live /\ \A t \in Slots : dInfo'[t].map = dInfo[t].map
  <2>1. \A t \in Slots : dInfo'[t].map = dInfo[t].map /\ dInfo'[t].valid = dInfo[t].valid
    BY <1>11 DEF Rename, IInv, TypeOK, InfoType
  <2> QED BY <1>11, <2>1 DEF Rename, mem, Live, Counted, Valid
<1>12. CASE CloseSync \/ UNCHANGED vars
  BY <1>12 DEF CloseSync, vars, disk, Live, Counted, Valid
<1>13. ASSUME Forget
       PROVE  Live' \subseteq Live /\ dInfo' = dInfo
  BY <1>13 DEF Forget, disk, Live, Counted
<1>14. CASE OpenAdded
  BY <1>14 DEF OpenAdded, disk, Live, Counted, Valid, IInv, TypeOK
<1>15. ASSUME NEW s \in Slots, NEW id \in NewIds, NEW both \in BOOLEAN,
              RenameIso(s, id, both)
       PROVE  Live' = Live /\ dInfo' = dInfo
  BY <1>15 DEF RenameIso, Live, Counted, Valid
<1>16. ASSUME RenameInfo \/ RenameFails
       PROVE  Live' = Live /\ \A t \in Slots : dInfo'[t].map = dInfo[t].map
  <2>1. \A t \in Slots : dInfo'[t].map = dInfo[t].map /\ dInfo'[t].valid = dInfo[t].valid
    <3>1. dInfo \in [Slots -> InfoType] /\ cur.slot \in Slots
      BY DEF IInv, TypeOK, CurType
    <3>2. CASE RenameInfo
      BY <3>1, <3>2 DEF RenameInfo, InfoType
    <3>3. CASE RenameFails
      BY <3>3 DEF RenameFails, disk
    <3> QED BY <1>16, <3>2, <3>3
  <2> QED BY <1>16, <2>1 DEF RenameInfo, RenameFails, disk, Live, Counted, Valid
<1> QED BY <1>1, <1>2, <1>3, <1>4, <1>5, <1>6, <1>8, <1>9, <1>10, <1>11, <1>12,
           <1>13, <1>14, <1>15, <1>16 DEF Next, Close, Crash

(* What AddInfo does to the slot it fills and to the others. *)
LEMMA AddInfoFrame ==
  ASSUME IInv, HeadInv, AddInfo
  PROVE  /\ cur.slot \in Slots /\ cur.slot \notin Counted
         /\ Counted' = Counted \cup {cur.slot}
         /\ dInfo'[cur.slot].map = cur.map
         /\ \A t \in Slots : t # cur.slot => dInfo'[t] = dInfo[t]
<1>1. /\ pc = "copy" /\ cmd = "add" /\ head' = head /\ cur.ok
      /\ dInfo' = [dInfo EXCEPT ![cur.slot] =
                     [id |-> cur.img, valid |-> cur.ok, map |-> cur.map]]
      /\ idList' = [idList EXCEPT ![cur.slot] = cur.img]
  BY DEF AddInfo, IInv, CopyInv, HeadInv
<1>2. /\ cur.slot \in Slots /\ head[cur.slot] /\ cur.slot \notin Counted
      /\ cur.img # NoImage
  BY <1>1, WbfsAssumption DEF IInv, CopyInv, TypeOK, CurType
<1> QED BY <1>1, <1>2 DEF IInv, TypeOK, Counted, Valid

LEMMA DisjointInvNext ==
  ASSUME IInv, HeadInv, DisjointInv, ~SourceFaults, [Next]_vars
  PROVE  DisjointInv'
<1>1. CASE ~AddInfo
  <2>1. Live' \subseteq Live /\ \A s \in Slots : dInfo'[s].map = dInfo[s].map
    BY <1>1, LiveKept
  <2>2. Live \subseteq Slots
    BY DEF Live, Counted
  <2> QED BY <2>1, <2>2 DEF DisjointInv
<1>2. CASE AddInfo
  <2>1. pc = "copy" /\ cmd # "none" /\ dHead' = dHead
    BY <1>2 DEF AddInfo, IInv
  <2>2. Live' \subseteq Counted \cup {cur.slot}
    BY <1>2, <2>1, AddInfoFrame, UsedSlotsCounted DEF Live
  <2>3. Counted \subseteq Slots /\ Counted \subseteq Live
    BY DEF Live, Counted
  <2>4. \A i \in Idx : cur.map[i] # 0 => Unreferenced(cur.map[i])
    BY <2>1 DEF IInv, CopyInv
  <2>5. \A i, j \in Idx : cur.map[i] = cur.map[j] /\ cur.map[i] # 0 => i = j
    BY <2>1 DEF IInv, CopyInv
  <2>6. \A t \in Counted : dInfo'[t] = dInfo[t]
    BY <1>2, <2>3, AddInfoFrame
  <2>7. dInfo'[cur.slot].map = cur.map
    BY <1>2, AddInfoFrame
  <2> SUFFICES ASSUME NEW s \in Live', NEW t \in Live', NEW i \in Idx, NEW j \in Idx,
                      dInfo'[s].map[i] # 0, dInfo'[s].map[i] = dInfo'[t].map[j]
               PROVE  s = t /\ i = j
    BY DEF DisjointInv
  <2>8. CASE s \in Counted /\ t \in Counted
    BY <2>3, <2>6, <2>8 DEF DisjointInv
  <2>9. CASE s \in Counted /\ t = cur.slot
    BY <2>4, <2>6, <2>7, <2>9 DEF Unreferenced
  <2>10. CASE s = cur.slot /\ t \in Counted
    BY <2>4, <2>6, <2>7, <2>10 DEF Unreferenced
  <2>11. CASE s = cur.slot /\ t = cur.slot
    BY <2>5, <2>7, <2>11
  <2> QED BY <2>2, <2>8, <2>9, <2>10, <2>11
<1> QED BY <1>1, <1>2

(* Slots with disjoint maps refer to a block once or not at all. *)
LEMMA EntriesOnce ==
  ASSUME NEW S \in SUBSET Live, DisjointInv, NEW b \in Blocks
  PROVE  Cardinality(Entries(S, b))
           = IF \A s \in S : \A i \in Idx : dInfo[s].map[i] # b THEN 0 ELSE 1
<1>1. S \in SUBSET Slots /\ b # 0
  BY DEF Live, Counted, Blocks
<1>2. CASE \A s \in S : \A i \in Idx : dInfo[s].map[i] # b
  BY <1>1, <1>2, EntriesEmpty, FS_EmptySet
<1>3. ASSUME NEW s \in S, NEW i \in Idx, dInfo[s].map[i] = b
      PROVE  Cardinality(Entries(S, b)) = 1
  <2>1. <<s, i>> \in Entries(S, b)
    <3>1. <<s, i>> \in S \X Idx
      OBVIOUS
    <3> QED BY <1>3, <3>1 DEF Entries
  <2>2. \A p \in Entries(S, b) : p = <<s, i>>
    BY <1>1, <1>3 DEF Entries, DisjointInv
  <2>3. Entries(S, b) = {<<s, i>>}
    BY <2>1, <2>2
  <2> QED BY <2>3, FS_Singleton
<1> QED BY <1>2, <1>3

(* An open recounts the references of the slots that the medium marks used. *)
LEMMA OpenCount ==
  ASSUME IInv, HeadInv, DisjointInv, NEW c \in Commands, Open(c)
  PROVE  CountInv'
<1> DEFINE D == {s \in Slots : dHead[s]}
<1>1. pc' = "idle" /\ UNCHANGED <<dHead, dInfo>>
  BY DEF Open, IInv, disk
<1>2. D \in SUBSET Live
  BY DEF Live
<1>3. Counted' = D
  BY WbfsAssumption DEF Open, disk, Counted, IInv, GoodInv, IdListInv, HeadInv, NoGhostDisc, Valid
<1> SUFFICES ASSUME NEW b \in Blocks
             PROVE  used'[b] = IF InUse(b)' THEN 1 ELSE 0
  BY DEF CountInv
<1>4. used'[b] = Saturated(Cardinality(Entries(D, b)))
  BY DEF Open, DiskRefsTo
<1>5. Cardinality(Entries(D, b))
        = IF \A s \in D : \A i \in Idx : dInfo[s].map[i] # b THEN 0 ELSE 1
  BY <1>2, EntriesOnce
<1>6. InUse(b)' <=> ~(\A s \in D : \A i \in Idx : dInfo[s].map[i] # b)
  BY <1>1, <1>3 DEF InUse, Unreferenced
<1>7. Saturated(0) = 0 /\ Saturated(1) = 1
  BY WbfsAssumption DEF Saturated
<1> QED BY <1>4, <1>5, <1>6, <1>7

(* The allocated block is in use from then on, and no other becomes so. *)
LEMMA AddBlockCount ==
  ASSUME IInv, CountInv, AddBlock
  PROVE  CountInv'
<1>1. PICK i \in cur.left, b \in Blocks :
        /\ used[b] = 0 /\ used' = [used EXCEPT ![b] = 1]
        /\ cur' = [cur EXCEPT !.map[i] = b, !.left = cur.left \ {i}, !.at = b]
  BY DEF AddBlock, AllocBlock, IsAllocated, IsNearest, FreeBlocks
<1>2. pc = "copy" /\ pc' = "copy" /\ cmd' = cmd /\ UNCHANGED <<dInfo, head, idList>>
  BY DEF AddBlock
<1>3. i \in Idx /\ cur'.map = [cur.map EXCEPT ![i] = b]
  BY <1>1 DEF IInv, TypeOK, CurType
<1>4. cur.map \in [Idx -> 0 .. NBlocks - 1] /\ cur.map[i] = 0
  BY <1>1, <1>2, <1>3 DEF IInv, TypeOK, CurType, CopyInv
<1> SUFFICES ASSUME cmd \notin {"none", "drop"}, NEW c \in Blocks
             PROVE  used'[c] = IF InUse(c)' THEN 1 ELSE 0
  BY <1>2 DEF CountInv
<1>5. c # 0 /\ used[c] = (IF InUse(c) THEN 1 ELSE 0)
  BY DEF CountInv, Blocks
<1>6. Unreferenced(c)' <=> Unreferenced(c)
  BY <1>2 DEF Unreferenced, Counted, Valid
<1>7. CASE c = b
  <2>1. cur'.map[i] = c /\ used'[c] = 1
    BY <1>1, <1>3, <1>4, <1>7 DEF IInv, TypeOK
  <2> QED BY <1>2, <1>3, <2>1 DEF InUse
<1>8. CASE c # b
  <2>1. \A j \in Idx : cur'.map[j] = c <=> cur.map[j] = c
    BY <1>3, <1>4, <1>5, <1>8
  <2>2. used'[c] = used[c]
    BY <1>1, <1>8 DEF IInv, TypeOK
  <2> QED BY <1>2, <1>5, <1>6, <2>1, <2>2 DEF InUse
<1> QED BY <1>7, <1>8

(* The inode takes over the references of the map in memory. *)
LEMMA AddInfoCount ==
  ASSUME IInv, HeadInv, CountInv, AddInfo
  PROVE  CountInv'
<1>1. pc = "copy" /\ pc' = "head" /\ cmd' = cmd /\ used' = used
  BY DEF AddInfo
<1> SUFFICES ASSUME NEW b \in Blocks
             PROVE  InUse(b)' <=> InUse(b)
  BY <1>1 DEF CountInv
<1>2. Unreferenced(b)' <=> Unreferenced(b) /\ \A i \in Idx : cur.map[i] # b
  <2>1. Counted \subseteq Slots
    BY DEF Counted
  <2> QED BY <2>1, AddInfoFrame DEF Unreferenced
<1> QED BY <1>1, <1>2 DEF InUse

(* A removed disc was the only one to refer to its blocks. *)
LEMMA RmDiscCount ==
  ASSUME IInv, DisjointInv, CountInv, Idle, NEW s \in Slots, idList[s] # NoImage,
         NEW slotOnly \in BOOLEAN, RmDisc(s, slotOnly), slotOnly => cmd = "drop"
  PROVE  CountInv'
<1>1. /\ pc = "idle" /\ pc' = "head" /\ cmd' = cmd /\ dInfo' = dInfo
      /\ head' = [head EXCEPT ![s] = FALSE] /\ head[s]
      /\ idList' = [idList EXCEPT ![s] = NoImage]
  BY DEF RmDisc, Idle, disk
<1>2. s \in Counted /\ Counted' = Counted \ {s} /\ Counted \subseteq Live
  BY <1>1 DEF Counted, Valid, RmDisc, Live, IInv, TypeOK
<1> SUFFICES ASSUME cmd \notin {"none", "drop"}, NEW b \in Blocks
             PROVE  used'[b] = IF InUse(b)' THEN 1 ELSE 0
  BY <1>1 DEF CountInv
<1>3. used'[b] = Released(used[b], Cardinality(Entries({s}, b)))
  BY DEF RmDisc, RefsFrom
<1>4. Cardinality(Entries({s}, b))
        = IF \A i \in Idx : dInfo[s].map[i] # b THEN 0 ELSE 1
  <2>1. {s} \in SUBSET Live
    BY <1>2
  <2>2. Cardinality(Entries({s}, b))
          = IF \A t \in {s} : \A i \in Idx : dInfo[t].map[i] # b THEN 0 ELSE 1
    BY <2>1, EntriesOnce
  <2> QED BY <2>2
<1>5. /\ used[b] = (IF Unreferenced(b) THEN 0 ELSE 1)
      /\ InUse(b)' <=> ~(\A t \in Counted \ {s} : \A i \in Idx : dInfo[t].map[i] # b)
  BY <1>1, <1>2 DEF CountInv, InUse, Unreferenced
<1>6. b # 0
  BY DEF Blocks
<1>7. CASE \A i \in Idx : dInfo[s].map[i] # b
  <2>1. InUse(b)' <=> ~Unreferenced(b)
    BY <1>2, <1>5, <1>7 DEF Unreferenced
  <2>2. Released(1, 0) = 1 /\ Released(0, 0) = 0
    BY WbfsAssumption DEF Released
  <2>3. used'[b] = used[b]
    BY <1>3, <1>4, <1>5, <1>7, <2>2
  <2> QED BY <1>5, <2>1, <2>3
<1>8. ASSUME NEW i \in Idx, dInfo[s].map[i] = b
      PROVE  used'[b] = IF InUse(b)' THEN 1 ELSE 0
  <2>1. ~Unreferenced(b)
    BY <1>2, <1>8 DEF Unreferenced
  <2>2. ~InUse(b)'
    BY <1>2, <1>5, <1>6, <1>8 DEF DisjointInv
  <2>3. Released(1, 1) = 0
    BY WbfsAssumption DEF Released
  <2> QED BY <1>3, <1>4, <1>5, <1>8, <2>1, <2>2, <2>3
<1> QED BY <1>7, <1>8

LEMMA CountInvNext ==
  ASSUME CleanInv, ~SourceFaults, [Next]_vars
  PROVE  CountInv'
<1> USE DEF CleanInv
<1>1. ASSUME NEW c \in Commands, Open(c) PROVE CountInv'
  BY <1>1, OpenCount
<1>2. ASSUME NEW img \in Images, AddBegin(img) PROVE CountInv'
  <2>1. PICK s \in Slots, start \in Blocks \cup {0}, ok \in BOOLEAN :
          /\ ~head[s] /\ head' = [head EXCEPT ![s] = TRUE]
          /\ cur' = [slot |-> s, img |-> img, ok |-> ok, left |-> UsedIdx[img],
                     map |-> NoMap, at |-> start]
    BY <1>2 DEF AddBegin
  <2>2. /\ pc = "idle" /\ UNCHANGED <<dInfo, cmd, used, idList>>
        /\ idList[s] = NoImage \/ ~Valid(s)
    BY <1>2, <2>1 DEF AddBegin, Idle, disk, IInv, IdListInv
  <2>3. Counted' = Counted
    BY <2>1, <2>2 DEF Counted, Valid, IInv, TypeOK
  <2>4. \A i \in Idx : cur'.map[i] = 0
    BY <2>1 DEF NoMap
  <2>5. \A b \in Blocks : InUse(b)' <=> InUse(b)
    BY <2>2, <2>3, <2>4 DEF InUse, Unreferenced, Blocks
  <2> QED BY <2>2, <2>5 DEF CountInv
<1>3. CASE AddBlock
  BY <1>3, AddBlockCount
<1>4. CASE AddReadError
  BY <1>4 DEF AddReadError
<1>5. CASE AddInfo
  BY <1>5, AddInfoCount
<1>6. ASSUME SyncHead \/ SyncFbt \/ CloseSync \/ UNCHANGED vars
      PROVE  CountInv'
  <2>1. /\ UNCHANGED <<dInfo, cmd, head, used, idList, cur>>
        /\ pc' = "copy" <=> pc = "copy"
    BY <1>6 DEF SyncHead, SyncFbt, AfterSync, CloseSync, vars, disk, Idle
  <2>2. \A b \in Blocks : InUse(b)' <=> InUse(b)
    BY <2>1 DEF InUse, Unreferenced, Counted, Valid
  <2> QED BY <2>1, <2>2 DEF CountInv
<1>7. ASSUME NEW s \in Slots, RmSlot(s) PROVE CountInv'
  <2>1. idList[s] # NoImage
    BY <1>7 DEF RmSlot, RmDisc, IInv, IdListInv
  <2> QED BY <1>7, <2>1, RmDiscCount DEF RmSlot
<1>8. ASSUME NEW s \in Slots, DropInvalid(s) PROVE CountInv'
  BY <1>8 DEF DropInvalid, Idle, IInv, GoodInv, HeadInv
<1>9. ASSUME NEW id \in Images, RmId(id) PROVE CountInv'
  <2>1. PICK s \in Slots : IsFoundSlot(s, id) /\ RmDisc(s, FALSE)
    BY <1>9 DEF RmId
  <2>2. idList[s] # NoImage
    BY <2>1, WbfsAssumption DEF IsFoundSlot, HasId
  <2> QED BY <1>9, <2>1, <2>2, RmDiscCount DEF RmId
<1>10. ASSUME pc # "copy", pc' # "copy", UNCHANGED <<cmd, head, used, idList>>,
              \A t \in Slots : /\ dInfo'[t].map = dInfo[t].map
                               /\ dInfo'[t].valid = dInfo[t].valid
       PROVE  CountInv'
  <2>1. \A b \in Blocks : InUse(b)' <=> InUse(b)
    BY <1>10 DEF InUse, Unreferenced, Counted, Valid
  <2> QED BY <1>10, <2>1 DEF CountInv
<1>11. ASSUME Forget PROVE CountInv'
  BY <1>11 DEF Forget, CountInv
<1>12. ASSUME NEW s \in Slots, NEW id \in NewIds, Rename(s, id) PROVE CountInv'
  BY <1>10, <1>12 DEF Rename, IsRenamed, Idle, mem, IInv, TypeOK, InfoType
<1>13. ASSUME NEW s \in Slots, NEW id \in NewIds, NEW both \in BOOLEAN,
              RenameIso(s, id, both)
       PROVE  CountInv'
  BY <1>10, <1>13 DEF RenameIso, IsRenamed, Idle
<1>14. CASE RenameInfo \/ RenameFails
  BY <1>10, <1>14 DEF RenameInfo, RenameFails, disk, IInv, TypeOK, InfoType
<1>15. CASE OpenAdded
  <2>1. pc = "open" /\ UNCHANGED <<dInfo, cmd, used, idList>> /\ pc' = "idle"
        /\ cmd # "none" /\ cur.slot \in Slots
    BY <1>15 DEF OpenAdded, disk, IInv, TypeOK, CurType
  <2>2. head[cur.slot] => Valid(cur.slot)
    BY <2>1 DEF HeadInv, IInv, GoodInv
  <2>3. head' = head
    BY <1>15, <2>1, <2>2 DEF OpenAdded, IInv, TypeOK, InfoType, Valid
  <2> QED BY <1>10, <2>1, <2>3
<1> QED BY <1>1, <1>2, <1>3, <1>4, <1>5, <1>6, <1>7, <1>8, <1>9,
           <1>11, <1>12, <1>13, <1>14, <1>15 DEF Next, Close, Crash

LEMMA CleanInductive == ASSUME ~SourceFaults PROVE Spec => []CleanInv
<1>1. Init => CleanInv
  <2>1. Init => Live = {}
    BY DEF Init, Live, Counted
  <2> QED BY <2>1, InitInv DEF Init, CleanInv, HeadInv, NoGhostDisc, DisjointInv, CountInv
<1>2. CleanInv /\ [Next]_vars => CleanInv'
  <2> SUFFICES ASSUME CleanInv, [Next]_vars PROVE CleanInv'
    OBVIOUS
  <2>1. IInv' /\ HeadInv' /\ DisjointInv' /\ CountInv'
    BY NextInv, HeadInvNext, DisjointInvNext, CountInvNext DEF CleanInv
  <2> QED BY <2>1 DEF CleanInv
<1> QED BY <1>1, <1>2, PTL DEF Spec

(* As long as every source can be read, a slot marked used on the medium    *)
(* belongs to an ADD that ran to its end, whatever crashes happen.          *)
THEOREM NoGhosts == ASSUME ~SourceFaults PROVE Spec => []NoGhostDisc
<1>1. CleanInv => NoGhostDisc
  BY DEF CleanInv, HeadInv
<1> QED BY <1>1, CleanInductive, PTL

(* As long as every source can be read, no block of the medium belongs to   *)
(* two places of the listed discs, mid-command and after a crash included.  *)
THEOREM BlocksDisjoint == ASSUME ~SourceFaults PROVE Spec => []NoBlockShared
<1>1. CleanInv => NoBlockShared
  <2> SUFFICES ASSUME CleanInv, NEW s \in Slots, NEW t \in Slots,
                      NEW i \in Idx, NEW j \in Idx,
                      Listed(s), Listed(t), <<s, i>> # <<t, j>>, dInfo[s].map[i] # 0
               PROVE  dInfo[s].map[i] # dInfo[t].map[j]
    BY DEF NoBlockShared
  <2>1. s \in Live /\ t \in Live
    BY DEF Live, Listed
  <2> QED BY <2>1 DEF CleanInv, DisjointInv
<1> QED BY <1>1, CleanInductive, PTL

(* As long as every source can be read, the use counters between calls are  *)
(* what a recount of the inodes would give; REMOVE --no-free is exempt.     *)
THEOREM CountersExact == ASSUME ~SourceFaults PROVE Spec => []UsedExact
<1>1. CleanInv => UsedExact
  <2> SUFFICES ASSUME CleanInv, Idle, cmd # "drop", NEW b \in Blocks
               PROVE  used[b] = Saturated(Cardinality(RefsTo(b)))
    BY DEF UsedExact
  <2> DEFINE H == {s \in Slots : head[s]}
  <2>1. H = Counted /\ H \in SUBSET Live
    BY UsedSlotsCounted DEF CleanInv, Idle, Counted, Live
  <2>2. Cardinality(Entries(H, b))
          = IF \A s \in H : \A i \in Idx : dInfo[s].map[i] # b THEN 0 ELSE 1
    BY <2>1, EntriesOnce DEF CleanInv
  <2>3. used[b] = IF Unreferenced(b) THEN 0 ELSE 1
    BY DEF CleanInv, CountInv, InUse, Idle
  <2>4. Saturated(0) = 0 /\ Saturated(1) = 1
    BY WbfsAssumption DEF Saturated
  <2> QED BY <2>1, <2>2, <2>3, <2>4 DEF RefsTo, Unreferenced
<1> QED BY <1>1, CleanInductive, PTL
-----------------------------------------------------------------------------
(* Unique IDs *)

LEMMA AddBeginIds ==
  ASSUME IdsInv, NEW img \in Images, AddBegin(img)
  PROVE  IdsInv'
<1>1. PICK s \in Slots, start \in Blocks \cup {0}, ok \in BOOLEAN :
        /\ ~head[s] /\ head' = [head EXCEPT ![s] = TRUE]
        /\ cur' = [slot |-> s, img |-> img, ok |-> ok, left |-> UsedIdx[img],
                   map |-> NoMap, at |-> start]
        /\ good' = good \ {s}
  BY DEF AddBegin
<1>2. /\ UNCHANGED <<dInfo, idList>> /\ \A t \in Slots : ~HasId(t, img)
      /\ good \subseteq Slots /\ cmd = "add" /\ cmd' = "add" /\ pc' = "copy"
  BY DEF AddBegin, Idle, disk, IdsInv, IInv, TypeOK
<1>3. \A t \in Slots : t # s => head'[t] = head[t]
  BY <1>1 DEF IdsInv, IInv, TypeOK
<1>4. \A t \in good' : head'[t] => idList'[t] = dInfo'[t].id
  BY <1>1, <1>2, <1>3 DEF IdsInv
<1>5. cur'.img = img
  BY <1>1
<1>6. \A t \in good' : head'[t] => dInfo'[t].id # cur'.img
  BY <1>1, <1>2, <1>3, <1>5 DEF IdsInv, HasId
<1>7. IInv'
  BY AddBeginInv DEF IdsInv
<1> QED BY <1>2, <1>4, <1>6, <1>7 DEF IdsInv

(* No complete disc in memory has the ID of the new one. *)
LEMMA AddInfoIds ==
  ASSUME IdsInv, AddInfo
  PROVE  IdsInv'
<1> DEFINE s == cur.slot
<1>1. /\ pc = "copy" /\ pc' = "head" /\ cmd # "none"
      /\ UNCHANGED <<dHead, head>> /\ s \in Slots /\ s \notin good
      /\ dInfo' = [dInfo EXCEPT ![s] = [id |-> cur.img, valid |-> cur.ok, map |-> cur.map]]
      /\ idList' = [idList EXCEPT ![s] = cur.img]
      /\ good' \subseteq good \cup {s} /\ good \subseteq Slots
  BY DEF AddInfo, IdsInv, IInv, CopyInv, TypeOK, CurType
<1>2. /\ dInfo'[s].id = cur.img /\ idList'[s] = cur.img
      /\ \A t \in Slots : t # s => dInfo'[t] = dInfo[t] /\ idList'[t] = idList[t]
  BY <1>1 DEF IdsInv, IInv, TypeOK
<1>3. \A t \in good : head[t] => dInfo[t].id # cur.img /\ idList[t] = dInfo[t].id
  BY <1>1 DEF IdsInv, IInv, CopyInv
<1>4. \A t \in good : dHead[t] = head[t]
  BY <1>1 DEF IdsInv, IInv, GoodInv
<1>5. \A t \in good' : head'[t] => idList'[t] = dInfo'[t].id
  BY <1>1, <1>2, <1>3
<1>6. \A t, u \in good' :
        head'[t] /\ ~dHead'[t] /\ head'[u] /\ t # u => dInfo'[t].id # dInfo'[u].id
  BY <1>1, <1>2, <1>3, <1>4
<1>7. IInv'
  BY AddInfoInv DEF IdsInv
<1> QED BY <1>1, <1>5, <1>6, <1>7 DEF IdsInv

LEMMA IdsInvNext ==
  ASSUME IdsInv, [Next]_vars
  PROVE  IdsInv'
<1>0. IInv' /\ good \subseteq Slots
  BY NextInv DEF IdsInv, IInv, TypeOK
<1>1. ASSUME NEW c \in Commands, Open(c) PROVE IdsInv'
  <2>1. pc' = "idle" /\ UNCHANGED <<dInfo, good>> /\ head' = dHead
    BY <1>1 DEF Open, disk, IdsInv, IInv
  <2>2. \A s \in Slots : dHead[s] => idList'[s] = dInfo[s].id
    BY <1>1 DEF Open
  <2> QED BY <1>0, <2>1, <2>2 DEF IdsInv
<1>2. ASSUME NEW img \in Images, AddBegin(img) PROVE IdsInv'
  BY <1>2, AddBeginIds
<1>3. CASE AddBlock
  <2>1. /\ pc' = "copy" /\ pc = "copy" /\ UNCHANGED <<dInfo, cmd, head, idList, good>>
        /\ cur'.img = cur.img
    BY <1>3 DEF AddBlock, IdsInv, IInv, TypeOK, CurType
  <2> QED BY <1>0, <2>1 DEF IdsInv
<1>4. CASE AddReadError
  <2>1. pc' = "idle" /\ UNCHANGED <<dInfo, cmd, head, idList, good>>
    BY <1>4 DEF AddReadError, disk
  <2> QED BY <1>0, <2>1 DEF IdsInv
<1>5. CASE AddInfo
  BY <1>5, AddInfoIds
<1>6. CASE SyncHead \/ SyncFbt
  <2>1. pc' \notin {"copy", "head"} /\ UNCHANGED <<dInfo, cmd, head, idList, good>>
    BY <1>6 DEF SyncHead, SyncFbt, AfterSync
  <2> QED BY <1>0, <2>1 DEF IdsInv
<1>7. CASE CloseSync
  <2>1. /\ pc' = "head" /\ UNCHANGED <<dHead, dInfo, cmd, head, idList, good>>
        /\ \A s \in good : dHead[s] = head[s]
    BY <1>7 DEF CloseSync, Idle, disk, IdsInv, IInv, GoodInv
  <2> QED BY <1>0, <2>1 DEF IdsInv
<1>8. ASSUME NEW s \in Slots, NEW slotOnly \in BOOLEAN, RmDisc(s, slotOnly), Idle
      PROVE  IdsInv'
  <2>1. /\ pc' = "head" /\ UNCHANGED <<dHead, dInfo, cmd, good>>
        /\ \A t \in Slots : head'[t] => head[t] /\ idList'[t] = idList[t]
        /\ \A t \in good : dHead[t] = head[t]
    BY <1>8 DEF RmDisc, Idle, disk, IdsInv, IInv, TypeOK, GoodInv
  <2> QED BY <1>0, <2>1 DEF IdsInv
<1>9. ASSUME NEW s \in Slots, RmSlot(s) PROVE IdsInv'
  BY <1>8, <1>9 DEF RmSlot
<1>10. ASSUME NEW id \in Images, RmId(id) PROVE IdsInv'
  BY <1>8, <1>10 DEF RmId
<1>11. ASSUME OpenAdded \/ \E s \in Slots : DropInvalid(s) PROVE IdsInv'
  <2>1. /\ pc' = "idle" /\ UNCHANGED <<dInfo, cmd, idList, good>>
        /\ \A t \in Slots : head'[t] => head[t]
    BY <1>11 DEF OpenAdded, DropInvalid, Idle, disk, IdsInv, IInv, TypeOK
  <2> QED BY <1>0, <2>1 DEF IdsInv
<1>12. ASSUME cmd = "rename", cmd' = "rename", pc' \notin {"copy", "head"} PROVE IdsInv'
  BY <1>0, <1>12 DEF IdsInv
<1>13. ASSUME NEW s \in Slots, NEW id \in NewIds,
              Rename(s, id) \/ \E both \in BOOLEAN : RenameIso(s, id, both)
       PROVE  IdsInv'
  BY <1>12, <1>13 DEF Rename, RenameIso, IsRenamed, Idle, mem
<1>14. CASE RenameInfo \/ RenameFails
  BY <1>12, <1>14 DEF RenameInfo, RenameFails, IdsInv, IInv, RenamingInv
<1>15. ASSUME Forget PROVE IdsInv'
  BY <1>0, <1>15 DEF Forget, IdsInv
<1>16. CASE UNCHANGED vars
  BY <1>0, <1>16 DEF vars, IdsInv
<1> QED BY <1>1, <1>2, <1>3, <1>4, <1>5, <1>6, <1>7, <1>9, <1>10, <1>11,
           <1>13, <1>14, <1>15, <1>16 DEF Next, Close, Crash

(* The inode write shows a disc at once if its slot was already marked used *)
(* on the medium; else the header write does.                               *)
LEMMA AppearsUnique ==
  ASSUME IdsInv, [Next]_vars, NEW s \in Slots, NEW t \in Slots,
         ~Committed(s), Committed(s)', Committed(t)', s # t
  PROVE  dInfo'[s].id # dInfo'[t].id
<1>1. CASE AddInfo
  <2>1. /\ pc = "copy" /\ cmd # "none" /\ dHead' = dHead
        /\ cur.slot \in Slots /\ good' \subseteq good \cup {cur.slot}
        /\ dInfo' = [dInfo EXCEPT ![cur.slot] =
                       [id |-> cur.img, valid |-> cur.ok, map |-> cur.map]]
    BY <1>1 DEF AddInfo, IdsInv, IInv, CopyInv, TypeOK, CurType
  <2>2. s = cur.slot /\ t \in good /\ head[t]
    BY <2>1 DEF Committed, IdsInv, IInv, GoodInv
  <2>3. dInfo'[s].id = cur.img /\ dInfo'[t] = dInfo[t]
    BY <2>1, <2>2 DEF IdsInv, IInv, TypeOK
  <2> QED BY <2>1, <2>2, <2>3 DEF IdsInv
<1>2. CASE SyncHead
  <2>1. pc = "head" /\ dHead' = head /\ UNCHANGED <<dInfo, good>>
    BY <1>2 DEF SyncHead
  <2> QED BY <2>1 DEF Committed, IdsInv
<1>3. CASE dHead' = dHead /\ good' \subseteq good
  BY <1>3 DEF Committed
<1> QED BY <1>1, <1>2, <1>3 DEF Next, vars, disk, mem, Open, AddBegin, AddBlock,
     AddReadError, SyncFbt, OpenAdded, RmSlot, RmId, RmDisc, DropInvalid, Rename,
     RenameIso, RenameInfo, RenameFails, CloseSync, Close, Crash, Forget

(* A disc appears only under an ID that no other disc of the catalogue has, *)
(* whatever was renamed before and even where read errors left slots with   *)
(* stale inodes behind.                                                     *)
THEOREM IdsUnique == Spec => UniqueIds
<1>1. Init => IdsInv
  BY InitInv DEF Init, IdsInv
<1>2. IdsInv /\ [Next]_vars => IdsInv'
  BY IdsInvNext
<1>3. IdsInv /\ [Next]_vars =>
        [\A s, t \in Slots :
           ~Committed(s) /\ Committed(s)' /\ Committed(t)' /\ s # t
             => dInfo'[s].id # dInfo'[t].id]_vars
  BY AppearsUnique
<1> QED BY <1>1, <1>2, <1>3, PTL DEF Spec, UniqueIds

-----------------------------------------------------------------------------
(* Wbfs implements DiscStore: whatever crashes and read errors happen, a    *)
(* reader of the medium sees whole discs that appear, are renamed and       *)
(* vanish, and nothing else.                                                *)

(* The catalogue is a function of the disc table, the history, the inodes   *)
(* and the data blocks.                                                     *)
LEMMA CatalogueFrame ==
  ASSUME UNCHANGED <<dHead, dInfo, dData, good>>
  PROVE  UNCHANGED catalogue
BY DEF catalogue, Committed, Entry, ContentAt, DataAt, Nameless, NoData

(* An entry of the catalogue changes only with what it is computed from. *)
LEMMA CatalogueEntry ==
  ASSUME NEW s \in Slots, Committed(s)' = Committed(s),
         Committed(s) => Entry(s)' = Entry(s)
  PROVE  catalogue'[s] = catalogue[s]
BY DEF catalogue

LEMMA EntrySame ==
  ASSUME NEW s \in Slots, 0 \in Idx, dInfo'[s] = dInfo[s],
         \A i \in Idx : DataAt(s, i)' = DataAt(s, i)
  PROVE  Entry(s)' = Entry(s)
BY DEF Entry, ContentAt, Nameless

LEMMA EntryFrame ==
  ASSUME NEW s \in Slots, dInfo'[s] = dInfo[s], dData' = dData
  PROVE  Entry(s)' = Entry(s)
<1>1. 0 \in Idx
  BY WbfsAssumption DEF Idx
<1>2. \A i \in Idx : DataAt(s, i)' = DataAt(s, i)
  BY DEF DataAt, NoData
<1> QED BY <1>1, <1>2, EntrySame

(* Two catalogues with the same entries are equal; with one entry that      *)
(* differs, the later one is an update of the earlier one.                  *)
LEMMA CatalogueSame ==
  ASSUME \A t \in Slots : catalogue'[t] = catalogue[t]
  PROVE  UNCHANGED catalogue
BY DEF catalogue

LEMMA CatalogueUpdate ==
  ASSUME NEW s \in Slots, NEW v, catalogue'[s] = v,
         \A t \in Slots : t # s => catalogue'[t] = catalogue[t]
  PROVE  catalogue' = [catalogue EXCEPT ![s] = v]
BY DEF catalogue

-----------------------------------------------------------------------------
(* PendingInv *)

LEMMA InitPending == Init => PendingInv
BY DEF Init, PendingInv

LEMMA NamelessPart ==
  ASSUME NEW img, NEW i, i # 0
  PROVE  Nameless(Part(img, i)) = Part(img, i)
BY DEF Nameless, Part

(* What AddInfo stores is the whole image under both names. *)
LEMMA AddInfoPending ==
  ASSUME IInv, AddInfo
  PROVE  \E s \in Slots, img \in Images :
           /\ s \notin good
           /\ good' = good \cup {s} \/ good' = good
           /\ dInfo' = [dInfo EXCEPT ![s] =
                         [id |-> img, valid |-> cur.ok, map |-> cur.map]]
           /\ dInfo'[s].id = img
           /\ Entry(s)' = FullEntry(img)
<1>1. PICK s \in Slots, img \in Images : s = cur.slot /\ img = cur.img
  BY DEF AddInfo, IInv, CopyInv, TypeOK, CurType
<1>2. /\ s \notin good /\ (good' = good \cup {s} \/ good' = good)
      /\ pc = "copy" /\ cur.left = {} /\ dData' = dData
      /\ dInfo' = [dInfo EXCEPT ![s] =
                    [id |-> img, valid |-> cur.ok, map |-> cur.map]]
  BY <1>1 DEF AddInfo, IInv, CopyInv
<1>3. dInfo'[s] = [id |-> img, valid |-> cur.ok, map |-> cur.map]
  BY <1>2 DEF IInv, TypeOK
<1>4. ASSUME NEW i \in Idx
      PROVE  DataAt(s, i)' = IF i \in UsedIdx[img] THEN Part(img, i) ELSE NoData
  <2>1. DataAt(s, i)' = IF cur.map[i] = 0 THEN NoData ELSE dData[cur.map[i]]
    BY <1>2, <1>3 DEF DataAt, NoData
  <2>2. \/ i \in UsedIdx[img] /\ cur.map[i] # 0 /\ dData[cur.map[i]] = Part(img, i)
        \/ i \notin UsedIdx[img] /\ cur.map[i] = 0
    BY <1>1, <1>2 DEF IInv, CopyInv, Blocks
  <2> QED BY <2>1, <2>2
<1>5. 0 \in Idx /\ 0 \in UsedIdx[img]
  BY WbfsAssumption DEF Idx
<1>6. DataAt(s, 0)'.name = img
  BY <1>4, <1>5 DEF Part
<1>7. ContentAt(s)' = FullContent(img)
  <2>1. ContentAt(s)' = [i \in Idx |-> IF i = 0 THEN Nameless(DataAt(s, i)') ELSE DataAt(s, i)']
    BY DEF ContentAt, Nameless
  <2>2. ASSUME NEW i \in Idx
        PROVE  (IF i = 0 THEN Nameless(DataAt(s, i)') ELSE DataAt(s, i)')
                 = (IF i \in UsedIdx[img] THEN Nameless(Part(img, i)) ELSE NoData)
    BY <1>4, <1>5, NamelessPart
  <2> QED BY <2>1, <2>2 DEF FullContent
<1>8. Entry(s)' = FullEntry(img)
  BY <1>3, <1>6, <1>7 DEF Entry, FullEntry
<1>9. dInfo'[s].id = img
  BY <1>3
<1> HIDE DEF Entry, FullEntry
<1> WITNESS s \in Slots, img \in Images
<1> QED BY <1>2, <1>8, <1>9

LEMMA NextPending == IInv /\ PendingInv /\ [Next]_vars => PendingInv'
<1> SUFFICES ASSUME IInv, PendingInv, [Next]_vars, pc' = "head"
             PROVE  PendingInv'
  BY DEF PendingInv
<1>1. CASE AddInfo
  <2>1. PICK s \in Slots, img \in Images :
          /\ s \notin good /\ good' \subseteq good \cup {s}
          /\ dInfo'[s].id = img
          /\ Entry(s)' = FullEntry(img)
    BY <1>1, AddInfoPending
  <2>2. UNCHANGED <<dHead, head>>
    BY <1>1 DEF AddInfo
  <2>3. \A t \in good : dHead[t] = head[t]
    BY <1>1 DEF IInv, GoodInv, AddInfo
  <2>4. \A t, u \in good' : dHead'[t] # head'[t] /\ dHead'[u] # head'[u] => t = u
    BY <2>1, <2>2, <2>3
  <2>5. \A t \in good' : head'[t] /\ ~dHead'[t] => t = s
    BY <2>1, <2>2, <2>3
  <2>6. \A t \in good' :
          head'[t] /\ ~dHead'[t] => Entry(t)' = FullEntry(dInfo'[t].id)
    BY <2>1, <2>5
  <2> QED BY <2>4, <2>6 DEF PendingInv, FullEntry, FullContent, Part, Nameless, NoData
<1>2. ASSUME NEW s \in Slots, NEW slotOnly \in BOOLEAN, RmDisc(s, slotOnly), Idle
      PROVE  PendingInv'
  <2>1. /\ \A t \in good : dHead[t] = head[t]
        /\ head' = [head EXCEPT ![s] = FALSE]
        /\ UNCHANGED <<dHead, good>>
    BY <1>2 DEF IInv, GoodInv, RmDisc, Idle, disk
  <2>2. \A t \in good : ~(head'[t] /\ ~dHead'[t])
    BY <2>1 DEF IInv, TypeOK
  <2>3. \A t \in good : dHead'[t] # head'[t] => t = s
    BY <2>1 DEF IInv, TypeOK
  <2> QED BY <2>1, <2>2, <2>3 DEF PendingInv
<1>3. CASE CloseSync
  <2>1. /\ \A t \in good : dHead[t] = head[t]
        /\ UNCHANGED <<dHead, head, good>>
    BY <1>3 DEF CloseSync, IInv, GoodInv, Idle, disk
  <2> QED BY <2>1 DEF PendingInv
<1>4. CASE UNCHANGED vars
  <2>1. /\ UNCHANGED <<dHead, dInfo, dData, head, good, pc>>
        /\ good \subseteq Slots
    BY <1>4 DEF vars, IInv, TypeOK
  <2>2. \A s \in good : Entry(s)' = Entry(s)
    BY <2>1, EntryFrame
  <2> QED BY <2>1, <2>2 DEF PendingInv, FullEntry, FullContent, Part, Nameless, NoData
<1> QED
  <2>1. ASSUME NEW s \in Slots, RmSlot(s) PROVE PendingInv'
    BY <2>1, <1>2 DEF RmSlot
  <2>2. ASSUME NEW id \in Images, RmId(id) PROVE PendingInv'
    BY <2>2, <1>2 DEF RmId
  <2>3. /\ ~SyncHead /\ ~SyncFbt /\ ~AddBlock /\ ~AddReadError /\ ~Close /\ ~Crash
        /\ ~OpenAdded /\ ~RenameInfo /\ ~RenameFails
    BY DEF SyncHead, SyncFbt, AfterSync, AddBlock, AddReadError, Close, Crash, Forget,
       OpenAdded, RenameInfo, RenameFails
  <2>4. /\ \A img \in Images : ~AddBegin(img)
        /\ \A s \in Slots : ~DropInvalid(s)
    BY DEF AddBegin, DropInvalid, Idle
  <2>5. \A s \in Slots, id \in NewIds :
          ~Rename(s, id) /\ \A both \in BOOLEAN : ~RenameIso(s, id, both)
    BY DEF Rename, RenameIso, IsRenamed, Idle, mem
  <2>6. ASSUME NEW c \in Commands, Open(c) PROVE FALSE
    BY <2>6 DEF Open, IInv
  <2> QED BY <1>1, <1>3, <1>4, <2>1, <2>2, <2>3, <2>4, <2>5, <2>6 DEF Next

-----------------------------------------------------------------------------
(* Step refinement *)

LEMMA InitStore == Init => Store!Init
BY DEF Init, Store!Init, catalogue, Committed

(* AddBlock writes a block no committed disc refers to. *)
LEMMA AddBlockStutters ==
  ASSUME IInv, AddBlock
  PROVE  UNCHANGED catalogue
<1>1. PICK i \in cur.left, b \in Blocks :
        AllocBlock(b) /\ dData' = [dData EXCEPT ![b] = Part(cur.img, i)]
  BY DEF AddBlock
<1>2. UNCHANGED <<dHead, dInfo, good>> /\ used[b] = 0 /\ cmd # "none" /\ pc = "copy"
  BY <1>1 DEF AddBlock, AllocBlock, IsAllocated, IsNearest, FreeBlocks, IInv
<1>3. ASSUME NEW s \in Slots PROVE catalogue'[s] = catalogue[s]
  <2>1. Committed(s)' = Committed(s)
    BY <1>2 DEF Committed
  <2>2. ASSUME Committed(s), NEW j \in Idx
        PROVE  DataAt(s, j)' = DataAt(s, j)
    <3>1. dInfo[s].map[j] # 0 => dInfo[s].map[j] # b
      BY <1>2, <2>2, InvNoLiveBlockFree DEF NoLiveBlockFree
    <3>2. dInfo[s].map[j] # 0 => dData'[dInfo[s].map[j]] = dData[dInfo[s].map[j]]
      BY <1>1, <3>1 DEF IInv, TypeOK
    <3> QED BY <1>2, <3>2 DEF DataAt, NoData
  <2>3. 0 \in Idx
    BY WbfsAssumption DEF Idx
  <2>4. Committed(s) => Entry(s)' = Entry(s)
    BY <1>2, <2>2, <2>3, EntrySame
  <2> QED BY <2>1, <2>4, CatalogueEntry
<1> QED BY <1>3, CatalogueSame

LEMMA AddBeginStutters ==
  ASSUME IInv, NEW img \in Images, AddBegin(img)
  PROVE  UNCHANGED catalogue
<1>1. PICK s \in Slots : ~head[s] /\ good' = good \ {s}
  BY DEF AddBegin
<1>2. UNCHANGED disk /\ cmd # "none" /\ pc = "idle"
  BY DEF AddBegin, Idle
<1>3. s \in good => ~dHead[s]
  BY <1>1, <1>2 DEF IInv, GoodInv
<1>4. ASSUME NEW t \in Slots PROVE catalogue'[t] = catalogue[t]
  <2>1. Committed(t)' = Committed(t)
    BY <1>1, <1>2, <1>3 DEF Committed, disk
  <2>2. Entry(t)' = Entry(t)
    BY <1>2, EntryFrame DEF disk
  <2> QED BY <2>1, <2>2, CatalogueEntry
<1> QED BY <1>4, CatalogueSame

(* The inode write makes the disc appear at once if the slot still is       *)
(* marked used on the medium, else the header write will.                   *)
LEMMA AddInfoStore ==
  ASSUME IInv, AddInfo
  PROVE  [Store!Next]_catalogue
<1>1. PICK s \in Slots, img \in Images :
        /\ s \notin good
        /\ good' = good \cup {s} \/ good' = good
        /\ dInfo' = [dInfo EXCEPT ![s] = [id |-> img, valid |-> cur.ok, map |-> cur.map]]
        /\ dInfo'[s].id = img
        /\ Entry(s)' = FullEntry(img)
  BY AddInfoPending
<1>2. UNCHANGED <<dHead, dData>>
  BY DEF AddInfo
<1>3. ASSUME NEW t \in Slots, t # s PROVE catalogue'[t] = catalogue[t]
  <2>1. dInfo'[t] = dInfo[t]
    BY <1>1, <1>3 DEF IInv, TypeOK
  <2>2. Committed(t)' = Committed(t)
    BY <1>1, <1>2, <1>3 DEF Committed
  <2>3. Entry(t)' = Entry(t)
    BY <1>2, <2>1, EntryFrame
  <2> QED BY <2>2, <2>3, CatalogueEntry
<1>4. catalogue[s] = {}
  BY <1>1 DEF catalogue, Committed
<1>5. CASE ~Committed(s)'
  <2>1. catalogue'[s] = {}
    BY <1>5 DEF catalogue
  <2>2. \A t \in Slots : catalogue'[t] = catalogue[t]
    BY <1>3, <1>4, <2>1
  <2> QED BY <2>2, CatalogueSame
<1>6. CASE Committed(s)'
  <2>1. catalogue'[s] = {FullEntry(img)}
    BY <1>1, <1>6 DEF catalogue
  <2>2. catalogue' = [catalogue EXCEPT ![s] = {FullEntry(img)}]
    BY <1>3, <2>1, CatalogueUpdate
  <2>3. Store!Put(s, img)
    BY <1>4, <2>2 DEF Store!Put, FullEntry
  <2> QED BY <2>3 DEF Store!Next
<1> QED BY <1>5, <1>6

(* The header write makes the one pending disc appear or vanish. *)
LEMMA SyncHeadStore ==
  ASSUME IInv, PendingInv, SyncHead
  PROVE  [Store!Next]_catalogue
<1>1. dHead' = head /\ UNCHANGED <<dInfo, dData, good>> /\ pc = "head"
  BY DEF SyncHead
<1>2. ASSUME NEW t \in Slots, t \in good => dHead[t] = head[t]
      PROVE  catalogue'[t] = catalogue[t]
  <2>1. Committed(t)' = Committed(t)
    BY <1>1, <1>2 DEF Committed
  <2>2. Entry(t)' = Entry(t)
    BY <1>1, EntryFrame
  <2> QED BY <2>1, <2>2, CatalogueEntry
<1>3. CASE \A s \in good : dHead[s] = head[s]
  <2>1. \A t \in Slots : catalogue'[t] = catalogue[t]
    BY <1>2, <1>3
  <2> QED BY <2>1, CatalogueSame
<1>4. ASSUME NEW s \in good, dHead[s] # head[s]
      PROVE  Store!Next
  <2>1. s \in Slots /\ dHead[s] \in BOOLEAN /\ head[s] \in BOOLEAN
    BY DEF IInv, TypeOK
  <2>2. \A t \in Slots : t # s => catalogue'[t] = catalogue[t]
    BY <1>1, <1>2, <1>4 DEF PendingInv
  <2>3. CASE head[s] /\ ~dHead[s]
    <3> DEFINE img == dInfo[s].id
    <3>1. img \in Images
      BY <2>1 DEF IInv, GoodInv, IdListInv, TypeOK, InfoType
    <3>2. Entry(s) = FullEntry(img)
      BY <1>1, <2>3 DEF PendingInv
    <3>3. Entry(s)' = Entry(s) /\ dHead'[s]
      BY <1>1, <2>1, <2>3, EntryFrame
    <3>4. catalogue[s] = {}
      BY <2>1, <2>3 DEF catalogue, Committed
    <3> HIDE DEF img
    <3>5. catalogue'[s] = {FullEntry(img)}
      BY <1>1, <2>1, <3>2, <3>3 DEF catalogue, Committed
    <3>6. catalogue' = [catalogue EXCEPT ![s] = {FullEntry(img)}]
      BY <2>1, <2>2, <3>5, CatalogueUpdate
    <3>7. Store!Put(s, img)
      BY <3>1, <3>4, <3>6 DEF Store!Put, FullEntry
    <3> QED BY <2>1, <3>1, <3>7 DEF Store!Next
  <2>4. CASE ~head[s] /\ dHead[s]
    <3>1. catalogue'[s] = {} /\ catalogue[s] # {}
      BY <1>1, <2>1, <2>4 DEF catalogue, Committed
    <3>2. catalogue' = [catalogue EXCEPT ![s] = {}]
      BY <2>1, <2>2, <3>1, CatalogueUpdate
    <3>3. Store!Drop(s)
      BY <3>1, <3>2 DEF Store!Drop
    <3> QED BY <2>1, <3>3 DEF Store!Next
  <2> QED BY <1>4, <2>1, <2>3, <2>4
<1> QED BY <1>3, <1>4

(* An inode write of RENAME changes the ID of one entry. *)
LEMMA RenameEntryStore ==
  ASSUME IInv, NEW s \in Slots, NEW id \in Images,
         dInfo' = [dInfo EXCEPT ![s].id = id], UNCHANGED <<dHead, dData, good>>
  PROVE  [Store!Next]_catalogue
<1>1. /\ \A t \in Slots : t # s => dInfo'[t] = dInfo[t]
      /\ dInfo'[s].map = dInfo[s].map /\ dInfo'[s].id = id
  BY DEF IInv, TypeOK, InfoType
<1>2. \A t \in Slots : Committed(t)' = Committed(t)
  BY DEF Committed
<1>3. \A t \in Slots : t # s => catalogue'[t] = catalogue[t]
  BY <1>1, <1>2, EntryFrame, CatalogueEntry
<1>4. CASE ~Committed(s)
  <2>1. catalogue'[s] = catalogue[s]
    BY <1>2, <1>4 DEF catalogue
  <2> QED BY <1>3, <2>1, CatalogueSame
<1>5. CASE Committed(s)
  <2>1. \A i \in Idx \cup {0} : DataAt(s, i)' = DataAt(s, i)
    BY <1>1 DEF DataAt, NoData
  <2>2. ContentAt(s)' = ContentAt(s)
    BY <2>1 DEF ContentAt, Nameless
  <2>3. Entry(s)' = [Entry(s) EXCEPT !.id = id]
    BY <1>1, <2>1, <2>2 DEF Entry
  <2>4. catalogue[s] = {Entry(s)} /\ catalogue'[s] = {[Entry(s) EXCEPT !.id = id]}
    BY <1>2, <1>5, <2>3 DEF catalogue
  <2>5. catalogue' = [catalogue EXCEPT ![s] = {[Entry(s) EXCEPT !.id = id]}]
    BY <1>3, <2>4, CatalogueUpdate
  <2>6. Store!RenameEntry(s, id)
    BY <2>4, <2>5 DEF Store!RenameEntry
  <2> QED BY <2>6 DEF Store!Next
<1> QED BY <1>4, <1>5

(* The sector that RENAME rewrites belongs to no other part of any disc of  *)
(* the catalogue.  This is where a slot with an old inode would do harm.    *)
LEMMA RenameIsoStore ==
  ASSUME CleanInv, NEW s \in Slots, NEW id \in NewIds, NEW both \in BOOLEAN,
         RenameIso(s, id, both)
  PROVE  [Store!Next]_catalogue
<1> DEFINE b == dInfo[s].map[0]
<1>1. /\ UNCHANGED <<dHead, dInfo, good>> /\ b # 0
      /\ dData' = [dData EXCEPT ![b].name = id]
  BY DEF RenameIso, IsoDiffers
<1>2. 0 \in Idx /\ id \in Images
  BY WbfsAssumption DEF Idx
<1>3. b \in Blocks /\ dData[b] \in DataType
  <2>1. b \in 0 .. NBlocks - 1
    BY <1>2 DEF CleanInv, IInv, TypeOK, InfoType
  <2> QED BY <1>1, <2>1, WbfsAssumption DEF Blocks, CleanInv, IInv, TypeOK
<1>4. s \in Live
  BY DEF RenameIso, IsRenamed, Idle, CleanInv, IInv, IdListInv, Live, Counted
<1>5. /\ \A t \in Slots : Committed(t)' = Committed(t)
      /\ \A t \in Slots : Committed(t) => t \in Live
  BY <1>1 DEF Committed, Live
<1>6. ASSUME NEW t \in Live, NEW i \in Idx, <<t, i>> # <<s, 0>>
      PROVE  DataAt(t, i)' = DataAt(t, i)
  <2>1. dInfo[t].map[i] # b
    BY <1>1, <1>2, <1>4, <1>6 DEF CleanInv, DisjointInv
  <2>2. dInfo[t].map[i] # 0 => dData'[dInfo[t].map[i]] = dData[dInfo[t].map[i]]
    BY <1>1, <2>1 DEF CleanInv, IInv, TypeOK
  <2> QED BY <1>1, <2>2 DEF DataAt, NoData
<1>7. \A t \in Slots : t # s => catalogue'[t] = catalogue[t]
  BY <1>1, <1>2, <1>5, <1>6, EntrySame, CatalogueEntry
<1>8. CASE ~Committed(s)
  <2>1. catalogue'[s] = catalogue[s]
    BY <1>5, <1>8 DEF catalogue
  <2> QED BY <1>7, <2>1, CatalogueSame
<1>9. CASE Committed(s)
  <2>1. /\ DataAt(s, 0) = dData[b]
        /\ DataAt(s, 0)' = [dData[b] EXCEPT !.name = id]
    BY <1>1, <1>3 DEF DataAt, CleanInv, IInv, TypeOK
  <2>2. /\ Nameless(DataAt(s, 0)') = Nameless(DataAt(s, 0))
        /\ DataAt(s, 0)'.name = id
    BY <1>3, <2>1 DEF Nameless, DataType
  <2>3. \A i \in Idx : i # 0 => DataAt(s, i)' = DataAt(s, i)
    BY <1>4, <1>6
  <2>4. ContentAt(s)' = ContentAt(s)
    <3>1. ContentAt(s)' = [i \in Idx |-> IF i = 0 THEN Nameless(DataAt(s, i)') ELSE DataAt(s, i)']
      BY DEF ContentAt, Nameless
    <3> QED BY <2>2, <2>3, <3>1 DEF ContentAt
  <2>5. Entry(s)' = [Entry(s) EXCEPT !.name = id]
    BY <1>1, <2>2, <2>4 DEF Entry
  <2>6. catalogue[s] = {Entry(s)} /\ catalogue'[s] = {[Entry(s) EXCEPT !.name = id]}
    BY <1>5, <1>9, <2>5 DEF catalogue
  <2>7. catalogue' = [catalogue EXCEPT ![s] = {[Entry(s) EXCEPT !.name = id]}]
    BY <1>7, <2>6, CatalogueUpdate
  <2>8. Store!RenameHeader(s, id)
    BY <2>6, <2>7 DEF Store!RenameHeader
  <2> QED BY <1>2, <2>8 DEF Store!Next
<1> QED BY <1>8, <1>9

LEMMA NextStore ==
  ASSUME IInv, PendingInv, CleanInv \/ NewIds = {}, [Next]_vars
  PROVE  [Store!Next]_catalogue
<1>1. CASE AddBlock
  BY <1>1, AddBlockStutters
<1>2. ASSUME NEW img \in Images, AddBegin(img) PROVE UNCHANGED catalogue
  BY <1>2, AddBeginStutters
<1>3. CASE AddInfo
  BY <1>3, AddInfoStore
<1>4. CASE SyncHead
  BY <1>4, SyncHeadStore
<1>5. ASSUME NEW s \in Slots, NEW id \in NewIds, Rename(s, id)
      PROVE  [Store!Next]_catalogue
  <2>1. id \in Images
    BY WbfsAssumption
  <2> QED BY <1>5, <2>1, RenameEntryStore DEF Rename
<1>6. ASSUME NEW s \in Slots, NEW id \in NewIds, NEW both \in BOOLEAN,
             RenameIso(s, id, both)
      PROVE  [Store!Next]_catalogue
  BY <1>6, RenameIsoStore
<1>7. CASE RenameInfo
  <2>1. cur.slot \in Slots /\ cur.img \in Images
    BY <1>7 DEF RenameInfo, IInv, RenamingInv, TypeOK, CurType
  <2> QED BY <1>7, <2>1, RenameEntryStore DEF RenameInfo
<1>8. ASSUME NEW s \in Slots, RmSlot(s) \/ DropInvalid(s) PROVE UNCHANGED catalogue
  BY <1>8, CatalogueFrame DEF RmSlot, RmDisc, DropInvalid, disk
<1>9. ASSUME NEW id \in Images, RmId(id) PROVE UNCHANGED catalogue
  BY <1>9, CatalogueFrame DEF RmId, RmDisc, disk
<1>10. ASSUME NEW c \in Commands, Open(c) PROVE UNCHANGED catalogue
  BY <1>10, CatalogueFrame DEF Open, disk
<1>11. CASE AddReadError \/ SyncFbt \/ OpenAdded \/ RenameFails \/ CloseSync \/ Close \/ Crash
  BY <1>11, CatalogueFrame DEF AddReadError, SyncFbt, OpenAdded, RenameFails, CloseSync,
     Close, Crash, Forget, disk
<1>12. CASE UNCHANGED vars
  BY <1>12, CatalogueFrame DEF vars
<1> QED BY <1>1, <1>2, <1>3, <1>4, <1>5, <1>6, <1>7, <1>8, <1>9, <1>10, <1>11,
           <1>12 DEF Next

(* The medium presents a disc store at every moment: an ADD cut short by a  *)
(* crash leaves no part of a disc in the catalogue and damages none that    *)
(* was there, a RENAME cut short by a crash or a failed write leaves the    *)
(* disc with two different names and its content as it was.  The same holds *)
(* with sources that fail to be read, as long as nothing is renamed.        *)
THEOREM ImplementsStore ==
  ASSUME ~SourceFaults \/ NewIds = {} PROVE Spec => StoreSpec
<1>1. Init => IInv /\ PendingInv
  BY InitInv, InitPending
<1>2. IInv /\ PendingInv /\ [Next]_vars => (IInv /\ PendingInv)'
  BY NextInv, NextPending
<1>3. Spec => [](IInv /\ PendingInv)
  BY <1>1, <1>2, PTL DEF Spec
<1>4. CASE ~SourceFaults
  <2>1. Spec => []CleanInv
    BY <1>4, CleanInductive
  <2>2. IInv /\ PendingInv /\ CleanInv /\ [Next]_vars => [Store!Next]_catalogue
    BY NextStore
  <2> QED BY <1>3, <2>1, <2>2, InitStore, PTL DEF Spec, StoreSpec, Store!Spec
<1>5. CASE NewIds = {}
  <2>1. IInv /\ PendingInv /\ [Next]_vars => [Store!Next]_catalogue
    BY <1>5, NextStore
  <2> QED BY <1>3, <2>1, InitStore, PTL DEF Spec, StoreSpec, Store!Spec
<1> QED BY <1>4, <1>5
=============================================================================
