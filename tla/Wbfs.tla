-------------------------------- MODULE Wbfs --------------------------------
(***************************************************************************)
(* The WBFS partition of libwbfs.c as the wwt commands ADD, REMOVE and     *)
(* RENAME drive it.  The d... variables are what the medium holds, one     *)
(* action per write_hdsector() call, so that a crash falls between any two *)
(* writes; the others are the fields of wbfs_t and the locals of the       *)
(* running call, and die with the process.                                 *)
(*                                                                         *)
(* A slot of the disc table is free or not: WBFS_VERSION is 1, hence       *)
(* wbfs_calc_used_blocks() resets every used slot to VALID on each open    *)
(* and no decision reads the other bits.                                   *)
(***************************************************************************)
EXTENDS BlockChoice

CONSTANTS
  MaxDisc,       \* p->max_disc
  NBlocks,       \* p->n_wbfs_sec; block 0 holds the management data
  PerDisc,       \* p->n_wbfs_sec_per_disc
  UsedMax,       \* 127, where the use counters saturate
  Images,        \* disc images; an image also stands for its ID6
  UsedIdx,       \* UsedIdx[img]: the block-sized parts of img to be stored;
                 \* part 0 begins with the disc header and is always used
  NoImage,       \* no disc, no ID, never written
  NewIds,        \* the IDs that RENAME may assign
  AvoidFrag,     \* p->balloc_mode: AVOID_FRAG, else FIRST
  SourceFaults   \* may the source image of an ADD fail to be read?

Slots  == 0 .. MaxDisc - 1
Blocks == 1 .. NBlocks - 1
Idx    == 0 .. PerDisc - 1

ASSUME WbfsAssumption ==
  /\ MaxDisc \in Nat \ {0} /\ NBlocks \in Nat \ {0} /\ PerDisc \in Nat \ {0}
  /\ UsedMax \in Nat \ {0, 1}
  /\ IsFiniteSet(Images) /\ NoImage \notin Images
  /\ UsedIdx \in [Images -> SUBSET Idx] /\ \A img \in Images : 0 \in UsedIdx[img]
  /\ NewIds \subseteq Images
  /\ AvoidFrag \in BOOLEAN /\ SourceFaults \in BOOLEAN

VARIABLES
  dHead,      \* medium: disc table of the header sector, TRUE = used
  dInfo,      \* medium: disc info (inode) of each slot
  dFbt,       \* medium: the blocks that the free blocks table marks free
  dData,      \* medium: content of each data block
  cmd,        \* running wwt command, "none" if the partition is closed
  head,       \* p->head->disc_table
  used,       \* p->used_block
  usedDirty,  \* p->used_block_dirty
  dirty,      \* p->is_dirty
  idList,     \* p->id_list
  pc,         \* next write of the running library call
  cur,        \* locals of wbfs_add_disc_param(), or of wbfs_rename_disc()
  good        \* history: slots whose inode a complete ADD has written

disk == <<dHead, dInfo, dFbt, dData>>
mem  == <<cmd, head, used, usedDirty, dirty, idList, pc, cur>>
vars == <<dHead, dInfo, dFbt, dData,
          cmd, head, used, usedDirty, dirty, idList, pc, cur, good>>

Commands == {"add", "remove", "drop", "rename"}  \* "drop": REMOVE --no-free

NoMap  == [i \in Idx |-> 0]
NoInfo == [id |-> NoImage, valid |-> FALSE, map |-> NoMap]
NoData == [img |-> NoImage, part |-> 0, name |-> NoImage]
NoCur  == [slot |-> 0, img |-> NoImage, ok |-> TRUE, left |-> {}, map |-> NoMap, at |-> 0]

(* Part i of an image.  Part 0 names the disc a second time, in its ISO     *)
(* header.                                                                  *)
Part(img, i) == [img |-> img, part |-> i, name |-> IF i = 0 THEN img ELSE NoImage]

-----------------------------------------------------------------------------
(* Helpers.  An operator that nothing uses, placed before the one it is a   *)
(* faulty variant of, is a mutant: see the list in PROJECT.json.            *)

(* The entries of the wlba tables of slot set S that refer to block b. *)
Entries(S, b) == {p \in S \X Idx : dInfo[p[1]].map[p[2]] = b}

RefsTo(b)     == Entries({s \in Slots : head[s]}, b)
DiskRefsTo(b) == Entries({s \in Slots : dHead[s]}, b)

(* used_block counts with saturation. *)
Saturated(n) == IF n < UsedMax THEN n ELSE UsedMax

FreeBlocks == {b \in Blocks : used[b] = 0}

(* Where an ADD of n blocks starts to look for free blocks. *)
IsStart(n, b) == IF AvoidFrag THEN IsFirstRange(FreeBlocks, n, b) ELSE b = 0

IsAllocatedAnyway(start, b) == IsNearest(NBlocks, Blocks, start, b)

(* wbfs_alloc_block() returns b. *)
IsAllocated(start, b) == IsNearest(NBlocks, FreeBlocks, start, b)

(* wbfs_free_block() applied n times to a counter. *)
ReleasedAll(u, n) == IF n > 0 THEN 0 ELSE u

Released(u, n) ==
  IF u >= UsedMax THEN u ELSE IF u > n THEN u - n ELSE 0

(* wbfs_find_slot(): the first used slot whose cached ID matches. *)
HasId(s, id) == head[s] /\ idList[s] = id

IsFoundSlot(s, id) ==
  HasId(s, id) /\ \A t \in Slots : t < s => ~HasId(t, id)

(* d->is_valid: the inode carries the magic of a disc header, and an ID. *)
Valid(s) == dInfo[s].valid

Idle == cmd # "none" /\ pc = "idle"

-----------------------------------------------------------------------------
(* A freshly formatted partition, no command running. *)
Init ==
  /\ dHead = [s \in Slots |-> FALSE]
  /\ dInfo = [s \in Slots |-> NoInfo]
  /\ dFbt  = Blocks
  /\ dData = [b \in Blocks |-> NoData]
  /\ cmd = "none"
  /\ head = [s \in Slots |-> FALSE]
  /\ used = [b \in Blocks |-> 0]
  /\ usedDirty = FALSE /\ dirty = FALSE
  /\ idList = [s \in Slots |-> NoImage]
  /\ pc = "idle" /\ cur = NoCur
  /\ good = {}

(* The memory of the process is gone. *)
Forget ==
  /\ cmd' = "none"
  /\ head' = [s \in Slots |-> FALSE]
  /\ used' = [b \in Blocks |-> 0]
  /\ usedDirty' = FALSE /\ dirty' = FALSE
  /\ idList' = [s \in Slots |-> NoImage]
  /\ pc' = "idle" /\ cur' = NoCur
  /\ UNCHANGED <<disk, good>>

OpenTrustingFbt(c) ==
  /\ cmd = "none"
  /\ cmd' = c
  /\ head' = dHead
  /\ used' = [b \in Blocks |-> IF b \in dFbt THEN 0 ELSE 1]
  /\ idList' = [s \in Slots |-> IF dHead[s] THEN dInfo[s].id ELSE NoImage]
  /\ UNCHANGED <<disk, usedDirty, dirty, pc, cur, good>>

(* wbfs_open_partition_param() and wbfs_calc_used_blocks(): the counters    *)
(* and the ID list are computed from the inodes; the table read from the    *)
(* medium is not believed.                                                  *)
Open(c) ==
  /\ cmd = "none"
  /\ cmd' = c
  /\ head' = dHead
  /\ used' = [b \in Blocks |-> Saturated(Cardinality(DiskRefsTo(b)))]
  /\ idList' = [s \in Slots |-> IF dHead[s] THEN dInfo[s].id ELSE NoImage]
  /\ UNCHANGED <<disk, usedDirty, dirty, pc, cur, good>>

AddBeginEager(img) ==
  /\ Idle /\ cmd = "add"
  /\ \A s \in Slots : ~HasId(s, img)
  /\ Cardinality(UsedIdx[img]) <= Cardinality(FreeBlocks)
  /\ \E s \in Slots, start \in Blocks \cup {0} :
       /\ IsStart(Cardinality(UsedIdx[img]), start)
       /\ ~head[s] /\ \A t \in Slots : t < s => head[t]
       /\ head' = [head EXCEPT ![s] = TRUE]
       /\ cur' = [slot |-> s, img |-> img, ok |-> TRUE, left |-> UsedIdx[img],
                  map |-> NoMap, at |-> start]
       /\ good' = good \ {s}
  /\ pc' = "copy"
  /\ dHead' = head'
  /\ UNCHANGED <<dInfo, dFbt, dData, cmd, used, usedDirty, dirty, idList>>

(* wbfs_add_disc_param() up to the copy loop, as exec_add() calls it: no    *)
(* disc with that ID, enough free blocks, the first free slot.  The result  *)
(* of reading the disc header (ok) is not looked at.                        *)
AddBegin(img) ==
  /\ Idle /\ cmd = "add"
  /\ \A s \in Slots : ~HasId(s, img)
  /\ Cardinality(UsedIdx[img]) <= Cardinality(FreeBlocks)
  /\ \E s \in Slots, start \in Blocks \cup {0}, ok \in BOOLEAN :
       /\ IsStart(Cardinality(UsedIdx[img]), start)
       /\ ok \/ SourceFaults
       /\ ~head[s] /\ \A t \in Slots : t < s => head[t]
       /\ head' = [head EXCEPT ![s] = TRUE]
       /\ cur' = [slot |-> s, img |-> img, ok |-> ok, left |-> UsedIdx[img],
                  map |-> NoMap, at |-> start]
       /\ good' = good \ {s}
  /\ pc' = "copy"
  /\ UNCHANGED <<disk, cmd, used, usedDirty, dirty, idList>>

(* wbfs_alloc_block(). *)
AllocBlock(b) ==
  /\ IsAllocated(cur.at, b)
  /\ used' = [used EXCEPT ![b] = 1]
  /\ usedDirty' = TRUE /\ dirty' = TRUE

(* One round of the copy loop: allocate, read the source, write the block. *)
AddBlock ==
  /\ pc = "copy"
  /\ \E i \in cur.left, b \in Blocks :
       /\ \A j \in cur.left : i <= j
       /\ AllocBlock(b)
       /\ dData' = [dData EXCEPT ![b] = Part(cur.img, i)]
       /\ cur' = [cur EXCEPT !.map[i] = b, !.left = cur.left \ {i}, !.at = b]
  /\ UNCHANGED <<dHead, dInfo, dFbt, cmd, head, idList, pc, good>>

(* The source cannot be read: "goto error", with the block allocated and    *)
(* the slot taken.                                                          *)
AddReadError ==
  /\ SourceFaults
  /\ pc = "copy" /\ cur.left # {}
  /\ \E b \in Blocks : AllocBlock(b)
  /\ pc' = "idle" /\ cur' = NoCur
  /\ UNCHANGED <<disk, cmd, head, idList, good>>

AddInfoNoList ==
  /\ pc = "copy" /\ cur.left = {}
  /\ dInfo' = [dInfo EXCEPT ![cur.slot] =
                 [id |-> cur.img, valid |-> cur.ok, map |-> cur.map]]
  /\ good' = IF cur.ok THEN good \cup {cur.slot} ELSE good
  /\ pc' = "head" /\ cur' = [NoCur EXCEPT !.slot = cur.slot, !.img = cur.img]
  /\ UNCHANGED <<dHead, dFbt, dData, cmd, head, used, usedDirty, dirty, idList>>

(* The inode is written, with the ID and with the header as it was read;    *)
(* wbfs_sync() follows.                                                     *)
AddInfo ==
  /\ pc = "copy" /\ cur.left = {}
  /\ dInfo' = [dInfo EXCEPT ![cur.slot] =
                 [id |-> cur.img, valid |-> cur.ok, map |-> cur.map]]
  /\ idList' = [idList EXCEPT ![cur.slot] = cur.img]
  /\ good' = IF cur.ok THEN good \cup {cur.slot} ELSE good
  /\ pc' = "head" /\ cur' = [NoCur EXCEPT !.slot = cur.slot, !.img = cur.img]
  /\ UNCHANGED <<dHead, dFbt, dData, cmd, head, used, usedDirty, dirty>>

(* An ADD goes on after its wbfs_sync(). *)
AfterSync == IF cur.img # NoImage THEN "open" ELSE "idle"

(* wbfs_sync(), first write: the header sector with the disc table. *)
SyncHead ==
  /\ pc = "head"
  /\ dHead' = head
  /\ IF usedDirty THEN pc' = "fbt" /\ UNCHANGED dirty
                  ELSE pc' = AfterSync /\ dirty' = FALSE
  /\ UNCHANGED <<dInfo, dFbt, dData, cmd, head, used, usedDirty, idList, cur, good>>

(* wbfs_sync(), second write: the free blocks table. *)
SyncFbt ==
  /\ pc = "fbt"
  /\ dFbt' = FreeBlocks
  /\ usedDirty' = FALSE /\ dirty' = FALSE
  /\ pc' = AfterSync
  /\ UNCHANGED <<dHead, dInfo, dData, cmd, head, used, idList, cur, good>>

(* ADD ends with wbfs_open_disc_by_info() of its new inode, which frees the *)
(* slot again, in memory only, if the inode got no disc header.             *)
OpenAdded ==
  /\ pc = "open"
  /\ head' = [head EXCEPT ![cur.slot] = @ /\ Valid(cur.slot)]
  /\ pc' = "idle" /\ cur' = NoCur
  /\ UNCHANGED <<disk, cmd, used, usedDirty, dirty, idList, good>>

(* How often the disc at slot s refers to block b. *)
RefsFrom(s, b) == Cardinality(Entries({s}, b))

(* wbfs_rm_disc() after the disc is opened.  The inode it writes differs    *)
(* from the old one in its time stamps only.                                *)
RmDisc(s, slotOnly) ==
  /\ head[s] /\ Valid(s)
  /\ used' = IF slotOnly THEN used
             ELSE [b \in Blocks |-> Released(used[b], RefsFrom(s, b))]
  /\ LET freed == \E b \in Blocks : used'[b] = 0 /\ used[b] # 0
     IN  usedDirty' = (usedDirty \/ freed) /\ dirty' = (dirty \/ freed)
  /\ head' = [head EXCEPT ![s] = FALSE]
  /\ idList' = [idList EXCEPT ![s] = NoImage]
  /\ pc' = "head"
  /\ UNCHANGED <<disk, cmd, cur, good>>

RmSlotInverted(s) ==
  /\ Idle /\ cmd \in {"remove", "drop"}
  /\ RmDisc(s, cmd = "remove")

(* REMOVE goes through the slots; --no-free leaves the blocks alone. *)
RmSlot(s) ==
  /\ Idle /\ cmd \in {"remove", "drop"}
  /\ RmDisc(s, cmd = "drop")

(* ADD --overwrite and ADD --sync remove by ID. *)
RmId(id) ==
  /\ Idle /\ cmd = "add"
  /\ \E s \in Slots : IsFoundSlot(s, id) /\ RmDisc(s, FALSE)

DropAny(s) ==
  /\ Idle /\ head[s]
  /\ head' = [head EXCEPT ![s] = FALSE]
  /\ UNCHANGED <<disk, cmd, used, usedDirty, dirty, idList, pc, cur, good>>

(* wbfs_open_disc_by_info() frees the slot of an inode without disc header, *)
(* in memory only: the partition does not become dirty.                     *)
DropInvalid(s) ==
  /\ Idle /\ head[s] /\ ~Valid(s)
  /\ head' = [head EXCEPT ![s] = FALSE]
  /\ UNCHANGED <<disk, cmd, used, usedDirty, dirty, idList, pc, cur, good>>

(* The disc that wbfs_rename_disc() works on. *)
IsRenamed(s) == Idle /\ cmd = "rename" /\ head[s] /\ Valid(s)

(* Its first block is there, and its ISO header has another ID. *)
IsoDiffers(s, id) ==
  LET b == dInfo[s].map[0] IN b # 0 /\ dData[b].name # id

RenameIsoUnread(s, id, both) ==
  /\ IsRenamed(s) /\ IsoDiffers(s, id)
  /\ dData' = [dData EXCEPT ![dInfo[s].map[0]] = [NoData EXCEPT !.name = id]]
  /\ pc' = "inode"
  /\ cur' = [NoCur EXCEPT !.slot = s, !.img = IF both THEN id ELSE dInfo[s].id]
  /\ UNCHANGED <<dHead, dInfo, dFbt, cmd, head, used, usedDirty, dirty, idList, good>>

(* wbfs_rename_disc() of the ISO header, and of the WBFS header too unless  *)
(* --iso: the first sector of the disc is read, changed and written back,   *)
(* then the inode.  If the read or the write fails nothing has changed.     *)
RenameIso(s, id, both) ==
  /\ IsRenamed(s) /\ IsoDiffers(s, id)
  /\ dData' = [dData EXCEPT ![dInfo[s].map[0]].name = id]
  /\ pc' = "inode"
  /\ cur' = [NoCur EXCEPT !.slot = s, !.img = IF both THEN id ELSE dInfo[s].id]
  /\ UNCHANGED <<dHead, dInfo, dFbt, cmd, head, used, usedDirty, dirty, idList, good>>

(* Its second write, the inode. *)
RenameInfo ==
  /\ pc = "inode"
  /\ dInfo' = [dInfo EXCEPT ![cur.slot].id = cur.img]
  /\ pc' = "idle" /\ cur' = NoCur
  /\ UNCHANGED <<dHead, dFbt, dData, cmd, head, used, usedDirty, dirty, idList, good>>

(* The second write fails; the ISO header stays renamed. *)
RenameFails ==
  /\ pc = "inode"
  /\ pc' = "idle" /\ cur' = NoCur
  /\ UNCHANGED <<disk, cmd, head, used, usedDirty, dirty, idList, good>>

(* wbfs_rename_disc() where only the inode changes: RENAME --wbfs, or the   *)
(* ISO header has the new ID already.  Neither is the ID list updated nor   *)
(* is any other disc looked at.                                             *)
Rename(s, id) ==
  /\ IsRenamed(s) /\ dInfo[s].id # id
  /\ dInfo' = [dInfo EXCEPT ![s].id = id]
  /\ UNCHANGED <<dHead, dFbt, dData, mem, good>>

(* wbfs_close(): a dirty partition is synced first. *)
CloseSync ==
  /\ Idle /\ dirty
  /\ pc' = "head"
  /\ UNCHANGED <<disk, cmd, head, used, usedDirty, dirty, idList, cur, good>>

Close == Idle /\ ~dirty /\ Forget

(* The process is killed or the power fails. *)
Crash == cmd # "none" /\ Forget

Next ==
  \/ \E c \in Commands : Open(c)
  \/ \E img \in Images : AddBegin(img)
  \/ AddBlock \/ AddReadError \/ AddInfo
  \/ SyncHead \/ SyncFbt \/ OpenAdded
  \/ \E s \in Slots : RmSlot(s) \/ DropInvalid(s)
  \/ \E id \in Images : RmId(id)
  \/ \E s \in Slots, id \in NewIds :
       Rename(s, id) \/ \E both \in BOOLEAN : RenameIso(s, id, both)
  \/ RenameInfo \/ RenameFails
  \/ CloseSync \/ Close \/ Crash

Spec == Init /\ [][Next]_vars

-----------------------------------------------------------------------------
CurType ==
  [slot : Slots, img : Images \cup {NoImage}, ok : BOOLEAN, left : SUBSET Idx,
   map : [Idx -> 0 .. NBlocks - 1], at : 0 .. NBlocks - 1]

InfoType ==
  [id : Images \cup {NoImage}, valid : BOOLEAN, map : [Idx -> 0 .. NBlocks - 1]]

DataType == [img : Images \cup {NoImage}, part : Idx, name : Images \cup {NoImage}]

(* Every variable holds what its field can hold: map entries name blocks,   *)
(* counters stay within the saturation limit of used_block.                 *)
TypeOK ==
  /\ dHead \in [Slots -> BOOLEAN]
  /\ dInfo \in [Slots -> InfoType]
  /\ dFbt \subseteq Blocks
  /\ dData \in [Blocks -> DataType]
  /\ cmd \in Commands \cup {"none"}
  /\ head \in [Slots -> BOOLEAN]
  /\ used \in [Blocks -> 0 .. UsedMax]
  /\ usedDirty \in BOOLEAN /\ dirty \in BOOLEAN
  /\ idList \in [Slots -> Images \cup {NoImage}]
  /\ pc \in {"idle", "copy", "head", "fbt", "open", "inode"}
  /\ cur \in CurType
  /\ good \subseteq Slots

(* A disc of the catalogue: the disc table on the medium says used, and the *)
(* inode was written by an ADD that ran to its end.                         *)
Committed(s) == dHead[s] /\ s \in good

(* A slot that a listing of the medium shows as a disc. *)
Listed(s) == dHead[s] /\ Valid(s)

(* "A block is not used or exactly assigned to 1 disc", said of the medium  *)
(* at any moment, mid-command and after a crash included.                   *)
NoBlockShared ==
  \A s, t \in Slots : \A i, j \in Idx :
    /\ Listed(s) /\ Listed(t) /\ <<s, i>> # <<t, j>>
    /\ dInfo[s].map[i] # 0
    => dInfo[s].map[i] # dInfo[t].map[j]

(* Between library calls the use counters are what a recount of the inodes  *)
(* would give: no block leaks and none is handed out twice.                 *)
UsedExact ==
  Idle /\ cmd # "drop" =>
    \A b \in Blocks : used[b] = Saturated(Cardinality(RefsTo(b)))

(* The allocator never owns a block of a committed disc, not even after an  *)
(* ADD failed half-way and the partition lists stale inodes.                *)
NoLiveBlockFree ==
  cmd # "none" /\ pc # "head" =>
    \A s \in Slots : \A i \in Idx :
      Committed(s) /\ dInfo[s].map[i] # 0 => used[dInfo[s].map[i]] > 0

(* A slot marked used on the medium belongs to an ADD that ran to its end:  *)
(* no removed disc comes back and no slot is left without a disc.           *)
NoGhostDisc == \A s \in Slots : dHead[s] => s \in good

(* A disc appears in the catalogue only under an ID that no other disc of   *)
(* the catalogue has at that moment, whatever RENAME has done before: the   *)
(* check at the begin of ADD reads the ID list, not the inodes.             *)
UniqueIds ==
  [][\A s, t \in Slots :
       ~Committed(s) /\ Committed(s)' /\ Committed(t)' /\ s # t
         => dInfo'[s].id # dInfo'[t].id]_vars

(* Whatever a crash left in the free blocks table, the next time it is      *)
(* written it marks no block of a committed disc as free.                   *)
FbtWriteSafe ==
  [][dFbt' # dFbt =>
       \A s \in Slots : \A i \in Idx : Committed(s) => dInfo[s].map[i] \notin dFbt']_vars

(* A disc of the catalogue vanishes only after wbfs_rm_disc() has taken it  *)
(* out of the ID list.  Slots that were freed in memory only, because their *)
(* inode is bad, get to the medium with the next header write: none of them *)
(* may be a disc of the catalogue.                                          *)
OnlyRemovedVanish ==
  [][\A s \in Slots : Committed(s) /\ ~Committed(s)' => idList[s] = NoImage]_vars

-----------------------------------------------------------------------------
(* The inductive invariant behind NoLiveBlockFree and FbtWriteSafe.  Exact  *)
(* counters cannot be part of it: a failed ADD leaves blocks allocated and  *)
(* a slot whose inode it did not write.  What survives is that every        *)
(* counter covers the references of the valid slots with a cached ID, which *)
(* are all the slots whose blocks RmDisc can release.                       *)
Counted == {s \in Slots : head[s] /\ Valid(s) /\ idList[s] # NoImage}

Unreferenced(b) == \A s \in Counted : \A i \in Idx : dInfo[s].map[i] # b

Covers(u, n) == u >= UsedMax \/ u >= n

UsedCovers == \A b \in Blocks : Covers(used[b], Cardinality(Entries(Counted, b)))

IdListInv ==
  /\ \A s \in Slots : Valid(s) => dInfo[s].id # NoImage
  /\ \A s \in Slots : idList[s] # NoImage /\ Valid(s) => head[s]
  /\ cmd \notin {"none", "add"} =>
       \A s \in Slots : head[s] /\ Valid(s) => idList[s] # NoImage

GoodInv ==
  /\ \A s \in good : Valid(s)
  /\ cmd # "none" => \A s \in good : head[s] => idList[s] # NoImage
  /\ cmd # "none" /\ pc # "head" => \A s \in good : dHead[s] = head[s]

(* Every part of cur.img that is not left to do sits in a block that no     *)
(* counted inode refers to.                                                 *)
CopyInv ==
  pc = "copy" =>
    /\ cmd = "add" /\ cur.img \in Images
    /\ head[cur.slot] /\ cur.slot \notin Counted /\ cur.slot \notin good
    /\ cur.left \subseteq UsedIdx[cur.img]
    /\ \A i \in Idx :
         \/ i \in UsedIdx[cur.img] \ cur.left
            /\ cur.map[i] \in Blocks
            /\ used[cur.map[i]] >= 1 /\ Unreferenced(cur.map[i])
            /\ dData[cur.map[i]] = Part(cur.img, i)
         \/ i \notin UsedIdx[cur.img] \ cur.left /\ cur.map[i] = 0
    /\ \A i, j \in Idx : cur.map[i] = cur.map[j] /\ cur.map[i] # 0 => i = j

RenamingInv == pc = "inode" => cmd = "rename" /\ cur.img \in Images

IInv ==
  /\ TypeOK
  /\ (pc # "idle" => cmd # "none")
  /\ (cmd # "none" => UsedCovers)
  /\ IdListInv
  /\ GoodInv
  /\ CopyInv
  /\ RenamingInv

-----------------------------------------------------------------------------
(* What IInv lacks for the exact statements.  Without read errors a slot    *)
(* that memory or the medium marks used carries a complete inode, but for   *)
(* the one an ADD is filling.                                               *)
HeadInv ==
  /\ \A s \in Slots : head[s] => s \in good \/ (pc = "copy" /\ s = cur.slot)
  /\ pc = "copy" => cur.ok
  /\ NoGhostDisc

(* The slots whose inode the running call or a later open will count. *)
Live == Counted \cup {s \in Slots : dHead[s]}

DisjointInv ==
  \A s, t \in Live : \A i, j \in Idx :
    dInfo[s].map[i] # 0 /\ dInfo[s].map[i] = dInfo[t].map[j] => s = t /\ i = j

InUse(b) == ~Unreferenced(b) \/ (pc = "copy" /\ \E i \in Idx : cur.map[i] = b)

CountInv ==
  cmd \notin {"none", "drop"} =>
    \A b \in Blocks : used[b] = IF InUse(b) THEN 1 ELSE 0

(* The inductive invariant behind NoGhostDisc, NoBlockShared, UsedExact and *)
(* StoreSpec, for sources that can be read.                                 *)
CleanInv == IInv /\ HeadInv /\ DisjointInv /\ CountInv

(* The one behind UniqueIds: in an ADD the cached IDs of complete discs are *)
(* those of the inodes, hence AddBegin finds every such disc, and a disc    *)
(* that waits for the header write has an ID of its own.                    *)
IdsInv ==
  /\ IInv
  /\ cmd = "add" => \A s \in good : head[s] => idList[s] = dInfo[s].id
  /\ pc = "copy" => \A s \in good : head[s] => dInfo[s].id # cur.img
  /\ pc = "head" =>
       \A s, t \in good :
         head[s] /\ ~dHead[s] /\ head[t] /\ s # t => dInfo[s].id # dInfo[t].id

-----------------------------------------------------------------------------
(* The catalogue the medium presents: content is read through the map, the  *)
(* ID of the ISO header is kept apart from it.                              *)
DataAt(s, i) ==
  IF dInfo[s].map[i] = 0 THEN NoData ELSE dData[dInfo[s].map[i]]

Nameless(data) == [data EXCEPT !.name = NoImage]

ContentAt(s) ==
  [i \in Idx |-> IF i = 0 THEN Nameless(DataAt(s, i)) ELSE DataAt(s, i)]

FullContent(img) ==
  [i \in Idx |-> IF i \in UsedIdx[img] THEN Nameless(Part(img, i)) ELSE NoData]

Entry(s) == [id |-> dInfo[s].id, name |-> DataAt(s, 0).name, content |-> ContentAt(s)]

FullEntry(img) == [id |-> img, name |-> img, content |-> FullContent(img)]

catalogue == [s \in Slots |-> IF Committed(s) THEN {Entry(s)} ELSE {}]

(* Between an inode write and the header write at most one disc waits to    *)
(* appear or to vanish, and one that waits to appear is complete.           *)
PendingInv ==
  pc = "head" =>
    /\ \A s, t \in good : dHead[s] # head[s] /\ dHead[t] # head[t] => s = t
    /\ \A s \in good : head[s] /\ ~dHead[s] => Entry(s) = FullEntry(dInfo[s].id)

Store == INSTANCE DiscStore WITH
  Ids <- Images, ContentOf <- [img \in Images |-> FullContent(img)], cat <- catalogue

(* Every write sequence of ADD, REMOVE and RENAME, cut short by crashes,    *)
(* failed writes of RENAME or read errors of ADD anywhere, shows a reader   *)
(* of the medium only whole discs that appear, change one of their two      *)
(* names, and vanish.  RENAME after a failed ADD is excepted: the slot of   *)
(* the failed ADD may list an old inode with blocks of another disc.        *)
StoreSpec == Store!Spec
=============================================================================
