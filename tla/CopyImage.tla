----------------------------- MODULE CopyImage -----------------------------
(***************************************************************************)
(* CopyImage() of lib-sf.c with a .wbfs file as destination (wit COPY and  *)
(* CONVERT, wwt EXTRACT): a WBFS with one disc is created under a          *)
(* temporary name, filled by WriteWBFS(), closed, cut and renamed.  The    *)
(* d... variables and place are the file, written by one action per write  *)
(* call; the others are memory.                                            *)
(*                                                                         *)
(* A unit <<p, k>> is a piece of the image, the k-th one of the part p     *)
(* that fits a WBFS block; parts are numbered from 0, and <<0, 0>> begins  *)
(* with the disc header.  Writes that CloseHelperSF() makes fail without a *)
(* trace, when the disk is full or after a second Ctrl-C; lost remembers   *)
(* them.                                                                   *)
(***************************************************************************)
EXTENDS BlockChoice

CONSTANTS
  PerBlock,   \* units in a block
  PerDisc,    \* w->n_wbfs_sec_per_disc
  NBlocks,    \* w->n_wbfs_sec of the new WBFS, which has room for any disc
  Round,      \* blocks in the unit of the old rounding, 8 blocks of 2 MiB if
              \* sectors have 512 bytes
  FbtBits,    \* blocks that a sector of the free blocks table has bits for
  Group,      \* blocks that iobuf, or a block of the source, stretches over
  Images      \* sources and ways to copy them

InBlock == 0 .. PerBlock - 1
Units   == (0 .. PerDisc) \X InBlock   \* a source may be one part too long
Blocks  == 1 .. NBlocks - 1
Parts   == 0 .. PerDisc - 1
First   == <<0, 0>>

(* wbfs_calc_geometry() for a file of n blocks.  The old rounding decides   *)
(* how many sectors the free blocks table gets ...                          *)
TableBits(n) == FbtBits * (((n \div Round) * Round + FbtBits - 1) \div FbtBits)

HasTable(n) == TableBits(n) > 0

(* ... and a block without a bit gets no number.                            *)
Numbered(n) == IF n <= TableBits(n) + 1 THEN n ELSE TableBits(n) + 1

(* mode: "sectors" are copied one by one as far as they are used; "raw"     *)
(* copies all that there is; "blocks" the used blocks of another WBFS.      *)
(* data: the units that are not zero; size: number of parts; items: areas   *)
(* that RewriteModifiedSF() writes again with their final content;          *)
(* remove: remove_source.                                                   *)
ASSUME CopyAssumption ==
  /\ PerBlock \in Nat \ {0} /\ PerDisc \in Nat \ {0} /\ Group \in Nat \ {0}
  /\ Round \in Nat \ {0} /\ FbtBits \in Nat \ {0}
  /\ NBlocks \in Nat /\ NBlocks > PerDisc /\ Numbered(NBlocks) = NBlocks
  /\ \A img \in Images :
       /\ img.mode \in {"sectors", "raw", "blocks"}
       /\ img.size \in 1 .. PerDisc + 1 /\ img.remove \in BOOLEAN
       /\ img.data \subseteq (0 .. img.size - 1) \X InBlock
       /\ First \in img.data
       /\ \A it \in img.items : it # {} /\ it \subseteq img.data \ {First}

VARIABLES
  image,      \* the source, and how it is copied
  source,     \* does the source still exist?
  place,      \* name of the new file: "none", "temp", "final"
  dHead,      \* file: header sector, NoHead until it is written
  dInode,     \* file: disc info of slot 0, NoInode until it is written
  dFbt,       \* file: free blocks table, and for what size it is placed
  dData,      \* file: data blocks
  pc,         \* next step
  todo,       \* units that CopySF() has not copied yet
  items,      \* items that RewriteModifiedSF() has not written yet
  left,       \* units that the running WriteWBFS() has not written yet
  atHead,     \* did it begin at offset 0?
  map,        \* wlba_table of the open disc
  header,     \* dhead of the open disc
  used,       \* w->used_block
  size,       \* w->n_hd_sec, the size of the file, in blocks
  sigint,     \* SIGINT_level > 1
  lost,       \* history: what was last written without success, unnoticed
  result      \* of CopyImage()

file   == <<dHead, dInode, dFbt, dData>>
memory == <<todo, items, left, atHead, map, header, used, size>>
vars   == <<image, source, place, dHead, dInode, dFbt, dData, pc, todo, items, left,
            atHead, map, header, used, size, sigint, lost, result>>

Empty   == <<>>
NoHead  == [size |-> 0, table |-> FALSE]
NoInode == [map |-> [p \in Parts |-> 0], header |-> Empty]
Fresh   == [b \in Blocks |-> [k \in InBlock |-> Empty]]

(* What a unit of the source contains when CopySF() reads it, and in the    *)
(* end: signatures are only known after all other data has been read.       *)
Read(u)  == IF u \in image.data THEN <<u, "read">> ELSE Empty
Final(u) == IF u \in UNION image.items THEN <<u, "final">> ELSE Read(u)

SourceUnits == (0 .. image.size - 1) \X InBlock

(* The units that the buffer holds together with u. *)
Chunk(u) ==
  IF image.mode = "sectors" THEN {u}
  ELSE {v \in SourceUnits : v[1] \div Group = u[1] \div Group}

ToCopy == CASE image.mode = "sectors" -> image.data
            [] image.mode = "raw"     -> SourceUnits
            [] image.mode = "blocks"  -> UNION {Chunk(u) : u \in image.data}

Before(u, v) == u[1] < v[1] \/ (u[1] = v[1] /\ u[2] < v[2])
IsLowest(u, S) == u \in S /\ \A v \in S \ {u} : Before(u, v)

-----------------------------------------------------------------------------
Init ==
  /\ image \in Images /\ source = TRUE /\ place = "none"
  /\ dHead = NoHead /\ dInode = NoInode /\ dData = Fresh
  /\ dFbt = [size |-> 0, free |-> {}]
  /\ pc = "create" /\ todo = {} /\ items = {} /\ left = {} /\ atHead = FALSE
  /\ map = NoInode.map /\ header = Empty /\ used = {} /\ size = NBlocks
  /\ sigint = FALSE /\ lost = {} /\ result = "none"

(* "goto abort" of CopyImage(): RemoveSF() deletes the temporary file, err  *)
(* is returned as it is.                                                    *)
Abort(err) ==
  /\ place' = "none" /\ pc' = "done" /\ result' = err
  /\ UNCHANGED <<image, source, file, memory, sigint, lost>>

(* Writing the sectors that wbfs_sync() and wbfs_sync_disc_header() pass to *)
(* WrapperWriteSector(): it refuses after SIGINT, and nobody looks.         *)
Written(what, ok) ==
  /\ ok => ~sigint
  /\ lost' = IF ok THEN lost \ {what} ELSE lost \cup {what}

(* CreateWFile(), SetupWriteWBFS() with its format and wbfs_create_disc().  *)
(* What the format fails to write is written again at the end.              *)
Create(headOk, fbtOk) ==
  /\ pc = "create" /\ ~sigint
  /\ place' = "temp" /\ pc' = "copy" /\ todo' = ToCopy
  /\ dHead' = IF headOk THEN [size |-> size, table |-> FALSE] ELSE NoHead
  /\ dFbt' = IF fbtOk THEN [size |-> size, free |-> Blocks] ELSE dFbt
  /\ UNCHANGED <<image, source, dInode, dData, items, left, atHead, map, header, used,
                 size, sigint, lost, result>>

CreateFails == pc = "create" /\ Abort("error")

(* The loops of CopySF(), CopyRaw() and CopyWBFSDisc(): read into iobuf and *)
(* write it.  The last one does not ask for SIGINT.                         *)
CopyChunk ==
  /\ pc = "copy" /\ (sigint => image.mode = "blocks")
  /\ \E u \in todo : IsLowest(u, todo) /\ left' = Chunk(u)
  /\ atHead' = (First \in left') /\ todo' = todo \ left' /\ pc' = "write"
  /\ UNCHANGED <<image, source, place, file, items, map, header, used, size, sigint,
                 lost, result>>

CopyFails == pc = "copy" /\ todo # {} /\ Abort("error")   \* read error or SIGINT

CopyEnd ==
  /\ pc = "copy" /\ todo = {} /\ ~sigint
  /\ items' = image.items /\ pc' = "rewrite"
  /\ UNCHANGED <<image, source, place, file, todo, left, atHead, map, header, used, size,
                 sigint, lost, result>>

(* RewriteModifiedSF(), one item of the list. *)
RewriteItem ==
  /\ pc = "rewrite"
  /\ \E it \in items :
       /\ \E u \in it : IsLowest(u, UNION items)
       /\ left' = it /\ items' = items \ {it}
  /\ atHead' = FALSE /\ pc' = "patch"
  /\ UNCHANGED <<image, source, place, file, todo, map, header, used, size, sigint, lost,
                 result>>

RewriteFails == pc = "rewrite" /\ items # {} /\ Abort("error")

RemoveSourceEarly ==
  /\ pc = "rewrite" /\ ~sigint
  /\ source' = ~image.remove /\ pc' = "inode"
  /\ UNCHANGED <<image, place, file, memory, sigint, lost, result>>

(* RemoveSF() of the source, before the destination is closed. *)
RemoveSource ==
  /\ pc = "rewrite" /\ items = {} /\ ~sigint
  /\ source' = ~image.remove /\ pc' = "inode"
  /\ UNCHANGED <<image, place, file, memory, sigint, lost, result>>

(* The tests of SIGINT_level behind CreateWFile(), SetupWriteSF(), CopySF() *)
(* and RewriteModifiedSF(), when these have returned ERR_OK: so does the    *)
(* call, without the copy.                                                  *)
Interrupted ==
  /\ sigint
  /\ \/ pc = "create"
     \/ pc = "copy" /\ todo = {}
     \/ pc = "rewrite" /\ items = {}
  /\ Abort("ok")

-----------------------------------------------------------------------------
(* WriteWBFS() *)

(* What the running write has read from the source. *)
Content(u) == IF pc = "patch" THEN Final(u) ELSE Read(u)

(* The block of a part, a new one if it has none. *)
IsBlockOf(p, b) ==
  IF map[p] # 0 THEN b = map[p] ELSE IsNearest(NBlocks, Blocks \ used, map[0], b)

AnyHeader(u) == Content(u)

(* The header copy of a turn at u: its condition looks at off, which the    *)
(* loop does not advance, and it takes what buf points to by now.           *)
NewHeader(u) == IF atHead THEN Content(u) ELSE header

(* What block b contains after the units us of part p are written to it. *)
Stored(p, us, b) ==
  [k \in InBlock |-> IF <<p, k>> \in us THEN Content(<<p, k>>) ELSE dData[b][k]]

(* One turn of the loop, for the part of unit u. *)
WriteTurn ==
  /\ pc \in {"write", "patch"}
  /\ \E u \in left, b \in Blocks :
       LET p  == u[1]
           us == {v \in left : v[1] = p}
       IN  /\ IsLowest(u, left) /\ p < PerDisc /\ IsBlockOf(p, b)
           /\ map' = [map EXCEPT ![p] = b] /\ used' = used \cup {b}
           /\ dData' = [dData EXCEPT ![b] = Stored(p, us, b)]
           /\ left' = left \ us
           /\ header' = NewHeader(u)
  /\ pc' = CASE left' # {}   -> pc
             [] left' = {} /\ pc = "write" -> "copy"
             [] left' = {} /\ pc = "patch" -> "rewrite"
  /\ UNCHANGED <<image, source, place, dHead, dInode, dFbt, todo, items, atHead, size,
                 sigint, lost, result>>

(* A write error, or the source is too long for a disc. *)
WriteFails == pc \in {"write", "patch"} /\ Abort("error")

-----------------------------------------------------------------------------
(* CloseHelperSF() *)

(* CloseWDisc(): the inode. *)
CloseDisc(ok) ==
  /\ pc = "inode" /\ Written("inode", ok)
  /\ dInode' = IF ok THEN [map |-> map, header |-> header] ELSE dInode
  /\ pc' = "head"
  /\ UNCHANGED <<image, source, place, dHead, dFbt, dData, memory, sigint, result>>

(* SyncWBFS(): the disc table, in which wbfs_create_disc() has marked the   *)
(* slot, and the free blocks table.                                         *)
SyncHead(ok) ==
  /\ pc = "head" /\ Written("head", ok)
  /\ dHead' = IF ok THEN [size |-> size, table |-> TRUE] ELSE dHead
  /\ pc' = "fbt"
  /\ UNCHANGED <<image, source, place, dInode, dFbt, dData, memory, sigint, result>>

(* The table has as many sectors as the geometry gives it, maybe none.      *)
SyncFbt(ok) ==
  /\ pc \in {"fbt", "trimFbt"} /\ Written("fbt", ok)
  /\ dFbt' = IF ok /\ HasTable(size)
             THEN [size |-> size, free |-> (1 .. Numbered(size) - 1) \ used] ELSE dFbt
  /\ pc' = IF pc = "fbt" THEN "trim" ELSE "cut"
  /\ UNCHANGED <<image, source, place, dHead, dInode, dData, memory, sigint, result>>

TrimKeepsFbt(ok) ==
  /\ pc = "trim" /\ Written("head", ok)
  /\ \E b \in used : (\A c \in used : c <= b) /\ size' = b + 1
  /\ dHead' = IF ok THEN [size |-> size', table |-> TRUE] ELSE dHead
  /\ pc' = "cut"
  /\ UNCHANGED <<image, source, place, dInode, dFbt, dData, todo, items, left, atHead,
                 map, header, used, sigint, result>>

(* wbfs_trim(): the geometry for the blocks up to the last used one, which  *)
(* may have numbers for fewer blocks, and sync again.                       *)
Trim(ok) ==
  /\ pc = "trim" /\ Written("head", ok)
  /\ \E b \in used : (\A c \in used : c <= b) /\ size' = b + 1
  /\ dHead' = IF ok THEN [size |-> size', table |-> TRUE] ELSE dHead
  /\ pc' = "trimFbt"
  /\ UNCHANGED <<image, source, place, dInode, dFbt, dData, todo, items, left, atHead,
                 map, header, used, sigint, result>>

(* SetSizeF(), whose result is ignored, too; an uncut file does no harm. *)
Cut(ok) ==
  /\ pc = "cut" /\ pc' = "close"
  /\ dData' = [b \in Blocks |-> IF ok /\ b >= size THEN Fresh[b] ELSE dData[b]]
  /\ UNCHANGED <<image, source, place, dHead, dInode, dFbt, memory, sigint, lost, result>>

CloseKeepsTemp(closed, renamed) ==
  /\ pc = "close" /\ pc' = "done"
  /\ place' = IF renamed THEN "final" ELSE "temp"
  /\ result' = IF closed /\ renamed THEN "ok" ELSE "error"
  /\ lost' = IF closed THEN lost ELSE lost \cup {"close"}
  /\ UNCHANGED <<image, source, file, memory, sigint>>

(* XCloseWFile(): a close that fails does not keep the file from its name,  *)
(* a rename that fails deletes it.                                          *)
Close(closed, renamed) ==
  /\ pc = "close" /\ pc' = "done"
  /\ place' = IF renamed THEN "final" ELSE "none"
  /\ result' = IF closed /\ renamed THEN "ok" ELSE "error"
  /\ lost' = IF closed THEN lost ELSE lost \cup {"close"}
  /\ UNCHANGED <<image, source, file, memory, sigint>>

-----------------------------------------------------------------------------
Running == pc \notin {"done", "died"}

Interrupt == /\ Running /\ ~sigint /\ sigint' = TRUE
             /\ UNCHANGED <<image, source, place, file, memory, pc, lost, result>>

(* The process is killed, or leaves at the third Ctrl-C. *)
Die == /\ Running /\ pc' = "died"
       /\ UNCHANGED <<image, source, place, file, memory, sigint, lost, result>>

Step ==
  \/ \E head, fbt \in BOOLEAN : Create(head, fbt)
  \/ CreateFails
  \/ CopyChunk \/ CopyFails \/ CopyEnd
  \/ RewriteItem \/ RewriteFails \/ RemoveSource \/ Interrupted
  \/ WriteTurn \/ WriteFails
  \/ \E ok \in BOOLEAN : \/ CloseDisc(ok) \/ SyncHead(ok) \/ SyncFbt(ok)
                         \/ Trim(ok) \/ Cut(ok)
  \/ \E closed, renamed \in BOOLEAN : Close(closed, renamed)

Next == Step \/ Interrupt \/ Die

Spec == Init /\ [][Next]_vars

-----------------------------------------------------------------------------
(* Properties *)

Copying   == {"copy", "write"}
Rewriting == {"rewrite", "patch"}
Closing   == {"inode", "head", "fbt", "trim", "trimFbt", "cut", "close"}

Contents == {Empty} \cup (Units \X {"read", "final"})

(* The tables of the disc stay within its parts, and the blocks within the  *)
(* file, whatever the source is.                                            *)
TypeOK ==
  /\ image \in Images /\ source \in BOOLEAN /\ place \in {"none", "temp", "final"}
  /\ dHead \in [size : Nat, table : BOOLEAN]
  /\ dInode \in [map : [Parts -> 0 .. NBlocks - 1], header : Contents]
  /\ dFbt \in [size : Nat, free : SUBSET Nat]
  /\ dData \in [Blocks -> [InBlock -> Contents]]
  /\ pc \in {"create", "done", "died"} \cup Copying \cup Rewriting \cup Closing
  /\ todo \in SUBSET SourceUnits /\ items \in SUBSET image.items
  /\ left \in SUBSET SourceUnits /\ atHead \in BOOLEAN
  /\ map \in [Parts -> 0 .. NBlocks - 1] /\ header \in Contents
  /\ used \in SUBSET Blocks /\ size \in Nat
  /\ sigint \in BOOLEAN /\ lost \in SUBSET {"inode", "head", "fbt", "close"}
  /\ result \in {"none", "ok", "error"}

DiscUnits == Parts \X InBlock

(* ReadWBFS(), with the table of an open disc: what is not mapped is zero. *)
ReadWBFS(wlba, u) == IF wlba[u[1]] = 0 THEN Empty ELSE dData[wlba[u[1]]][u[2]]

(* The file bears its name only with everything in place: it reads back as  *)
(* the final source, zero where that is zero; the blocks of the disc are    *)
(* inside the file and all different; if the geometry of that size has a    *)
(* table of free blocks, it was written for that size and frees none of     *)
(* them.  Only writes that fail unnoticed make an exception.  Not said is   *)
(* that all blocks have a number: for some sizes the last ones have none.   *)
NamedFileIsWhole ==
  place = "final" /\ lost = {} =>
    /\ \A u \in DiscUnits : ReadWBFS(dInode.map, u) = Final(u)
    /\ dHead.table
    /\ HasTable(dHead.size) => dFbt.size = dHead.size
    /\ \A p, q \in Parts :
         dInode.map[p] # 0 =>
           /\ dInode.map[p] < dHead.size
           /\ HasTable(dHead.size) => dInode.map[p] \notin dFbt.free
           /\ dInode.map[p] = dInode.map[q] => p = q

(* The inode holds a copy of the disc header exactly if the write that      *)
(* brought the header ended in the same block.  Otherwise it holds a piece  *)
(* of a later block, and the disc cannot be found.                          *)
HeaderIsCopy ==
  place = "final" /\ lost \cap {"inode", "close"} = {} =>
    (dInode.header = Final(First) <=> \A u \in Chunk(First) : u[1] = 0)

(* The source is removed only when all of it can be read from the open      *)
(* disc; the new file then disappears only if it cannot get its name.       *)
SourceOrCopy ==
  ~source => /\ \A u \in DiscUnits : ReadWBFS(map, u) = Final(u)
             /\ place = "none" => pc = "done" /\ result = "error"

(* No failure leaves a temporary file or a part of the disc under the final *)
(* name.  Success means that the copy has its name, or that CopyImage() was *)
(* interrupted between two of its phases; then the source is still there.   *)
FailureCleansUp ==
  pc = "done" =>
    /\ place # "temp"
    /\ result = "error" => (place = "none" \/ "close" \in lost)
    /\ result = "ok" => place = "final" \/ (sigint /\ place = "none" /\ source)
=============================================================================
