---------------------------- MODULE WbfsGeometry ----------------------------
(***************************************************************************)
(* How many blocks and slots a WBFS has and where the free blocks table    *)
(* lies, computed by wbfs_calc_geometry() from the three numbers in the    *)
(* header on every open, and TRUNCATE, which changes one of them.          *)
(* The calculation keeps an old rounding bug because the position of the   *)
(* table depends on it.                                                    *)
(***************************************************************************)
EXTENDS Integers

CONSTANTS
  HdShifts,   \* hd sector sizes to format with, as powers of two
  Sizes(_),   \* Sizes(h): partition sizes in hd sectors of 2^h bytes
  WbfsShifts, \* explicit WBFS block sizes (option --wss), as powers of two
  Fills(_)    \* Fills(n): last used blocks to try if there are n blocks

WiiShift   == 15        \* WII_SECTOR_SIZE_SHIFT
WiiSize    == 2^WiiShift
MaxWii     == 2 * 143432   \* WII_MAX_SECTORS
MaxSectors == 65536     \* WBFS_MAX_SECTORS
MinShift   == 6         \* WBFS_MIN_SECTOR_SHIFT
MaxShift   == 11        \* WBFS_MAX_SECTOR_SHIFT
HeadSize   == 12        \* sizeof(wbfs_head_t)
InfoSize   == 256       \* sizeof(wbfs_disc_info_t)

ASSUME GeometryAssumption ==
  /\ HdShifts \subseteq 9 .. 12
  /\ WbfsShifts \subseteq (WiiShift + MinShift) .. (WiiShift + MaxShift)
  /\ \A h \in HdShifts : Sizes(h) \subseteq Nat

VARIABLES
  hdr,     \* medium: [n, h, w], n_hd_sec and the two sizes of the header
  fbtAt,   \* medium: hd sector where the last free blocks table was written
  top,     \* the last used block, 0 if there is none
  geo,     \* wbfs_t: the geometry in memory
  step     \* next write of a command, "idle" or "closed"

geoVars == <<hdr, fbtAt, top, geo, step>>

-----------------------------------------------------------------------------
Smaller(a, b) == IF a < b THEN a ELSE b

(* ALIGN_LBA *)
Aligned(x, h) == ((x + 2^h - 1) \div 2^h) * 2^h

(* wbfs_calc_size_shift(): the smallest block that needs only 16 bits to    *)
(* number the blocks.                                                       *)
SizeShift(n, h) ==
  LET nWii == n \div (WiiSize \div 2^h)
      fits == {s \in MinShift .. MaxShift : nWii \div 2^s < MaxSectors}
  IN  WiiShift + (IF fits = {} THEN MaxShift + 1
                  ELSE CHOOSE s \in fits : \A t \in fits : s <= t)

(* wbfs_calc_geometry() in parts.  n_wbfs_sec (u16) with the old rounding,  *)
(* which decides on size and place of the free blocks table ...             *)
OldBlocks(n, h, w) ==
  (((n \div WiiSize) * 2^h) \div 2^(w - WiiShift)) % MaxSectors

FbtBytes(n, h, w) == Aligned(OldBlocks(n, h, w) \div 8, h)

FbtLba(n, h, w) == (2^w - OldBlocks(n, h, w) \div 8) \div 2^h

(* ... the whole blocks of the partition that have a number ...             *)
WholeBlocks(n, h, w) ==
  Smaller((n \div (WiiSize \div 2^h)) \div 2^(w - WiiShift), MaxSectors - 1)

FbtWordsDown(n, h, w) ==
  Smaller(WholeBlocks(n, h, w) \div 32, FbtBytes(n, h, w) \div 4)

(* ... freeblks_size4 ...                                                   *)
FbtWords(n, h, w) ==
  Smaller((WholeBlocks(n, h, w) + 30) \div 32, FbtBytes(n, h, w) \div 4)

NumBlocksUnbounded(n, h, w) == WholeBlocks(n, h, w)

(* ... the blocks that have a bit in the table, which is 1 based ...        *)
NumBlocks(n, h, w) == Smaller(WholeBlocks(n, h, w), 32 * FbtWords(n, h, w) + 1)

(* ... and the inodes between header and table.                             *)
InfoLbas(h, w) == Aligned(InfoSize + 2 * (MaxWii \div 2^(w - WiiShift)), h) \div 2^h

MaxDiscNoHead(n, h, w) ==
  Smaller(FbtLba(n, h, w) \div InfoLbas(h, w), 2^h - HeadSize)

MaxDisc(n, h, w) ==
  Smaller((FbtLba(n, h, w) - 1) \div InfoLbas(h, w), 2^h - HeadSize)

Geometry(n, h, w) ==
  [fbtLba |-> FbtLba(n, h, w), fbtLbas |-> FbtBytes(n, h, w) \div 2^h,
   words |-> FbtWords(n, h, w), blocks |-> NumBlocks(n, h, w),
   infoLbas |-> InfoLbas(h, w), maxDisc |-> MaxDisc(n, h, w)]

GeoOf(x) == Geometry(x.n, x.h, x.w)

-----------------------------------------------------------------------------
(* FORMAT: wbfs_open_partition_param() with reset, header and table written.*)
Format ==
  /\ \E h \in HdShifts : \E n \in Sizes(h), w \in WbfsShifts \cup {0} :
       hdr = [n |-> n, h |-> h, w |-> IF w = 0 THEN SizeShift(n, h) ELSE w]
  /\ geo = GeoOf(hdr)
  /\ fbtAt = geo.fbtLba
  /\ top = 0
  /\ step = "idle"

(* Discs are added or removed; the sync writes the table. *)
Fill(b) ==
  /\ step = "idle" /\ b \in 0 .. geo.blocks - 1 /\ b # top
  /\ top' = b
  /\ fbtAt' = geo.fbtLba
  /\ UNCHANGED <<hdr, geo, step>>

(* wbfs_trim(): a new geometry for the blocks up to the last used one, and  *)
(* wbfs_sync() writes the header ...                                        *)
Trim ==
  /\ step = "idle"
  /\ geo' = Geometry((top + 1) * 2^(hdr.w - hdr.h), hdr.h, hdr.w)
  /\ hdr' = [hdr EXCEPT !.n = (top + 1) * 2^(hdr.w - hdr.h)]
  /\ step' = "fbt"
  /\ UNCHANGED <<fbtAt, top>>

TrimFbtClean ==
  /\ step = "fbt"
  /\ step' = "idle"
  /\ UNCHANGED <<hdr, fbtAt, top, geo>>

(* ... and the table, at its new place; the file is cut behind the blocks.  *)
TrimFbt ==
  /\ step = "fbt"
  /\ fbtAt' = geo.fbtLba
  /\ step' = "idle"
  /\ UNCHANGED <<hdr, top, geo>>

CloseHd == step = "idle" /\ step' = "closed" /\ UNCHANGED <<hdr, fbtAt, top, geo>>

(* The next open knows the header only. *)
Reopen ==
  /\ step = "closed"
  /\ geo' = GeoOf(hdr)
  /\ step' = "idle"
  /\ UNCHANGED <<hdr, fbtAt, top>>

GeoNext ==
  \/ \E b \in Fills(geo.blocks) : Fill(b)
  \/ Trim \/ TrimFbt \/ CloseHd \/ Reopen

GeoSpec == Format /\ [][GeoNext]_geoVars

-----------------------------------------------------------------------------
(* Block 0 holds the header, all inodes and the free blocks table, in that  *)
(* order and without overlap, and there is room for at least one disc.      *)
BlockZeroFits ==
  /\ geo.maxDisc >= 1
  /\ 1 + geo.maxDisc * geo.infoLbas <= geo.fbtLba
  /\ geo.fbtLba + geo.fbtLbas <= 2^(hdr.w - hdr.h)

(* The table has a bit for every data block and fits into its sectors, and  *)
(* every block lies inside the partition.                                   *)
EveryBlockHasBit ==
  /\ geo.blocks - 1 <= 32 * geo.words
  /\ 4 * geo.words <= geo.fbtLbas * 2^hdr.h
  /\ geo.blocks * 2^(hdr.w - hdr.h) <= hdr.n

(* Between commands the table lies where the next open will look for it,    *)
(* also after TRUNCATE has moved that place.                                *)
FbtWhereExpected == step # "fbt" => fbtAt = GeoOf(hdr).fbtLba

(* After TRUNCATE the next open has a number for the last used block,      *)
(* whatever the two roundings do, unless the old one ends exactly with a    *)
(* sector of the table: then there is no spare bit for the blocks that it   *)
(* has rounded away.                                                        *)
TrimKeepsBlocks ==
  step = "closed" /\ (OldBlocks(hdr.n, hdr.h, hdr.w) \div 8) % 2^hdr.h # 0
    => top < GeoOf(hdr).blocks
=============================================================================
