----------------------------- MODULE WbfsBlocks -----------------------------
(***************************************************************************)
(* The loops of libwbfs.c that look for free blocks, allocate them and     *)
(* pack them into the bits of the free blocks table, one step per turn of  *)
(* a loop.  BlockChoice says what they should return.                      *)
(*                                                                         *)
(* The table is an array of words of WordBits bits (32 in the code); a     *)
(* word is the set of its 1 bits.  MemWords words fill the whole hd        *)
(* sectors that the table occupies.                                        *)
(***************************************************************************)
EXTENDS BlockChoice, Sequences

CONSTANTS
  NBlocks,    \* p->n_wbfs_sec, also the end pointer of the scans
  WordBits,   \* bits of a word of p->freeblks
  MemWords    \* words of memory behind p->freeblks

Blocks == 1 .. NBlocks - 1
Bits   == 0 .. WordBits - 1
Words  == 0 .. MemWords - 1

(* p->freeblks_size4 *)
Size == (NBlocks - 1 + WordBits - 1) \div WordBits

ASSUME BlocksAssumption ==
  /\ NBlocks \in Nat \ {0, 1} /\ WordBits \in Nat \ {0}
  /\ MemWords \in Nat /\ Size <= MemWords

NoBlock == NBlocks     \* WBFS_NO_BLOCK, past every block

VARIABLES
  free,      \* the blocks b with p->used_block[b] = 0
  words,     \* p->freeblks
  pc,        \* position in the running call
  kind,      \* who allocates: "add", "phantom", "write", or "none"
  need,      \* blocks it needs
  p1, p2,    \* wbfs_find_free_blocks(): the window
  count,     \* ... and how many blocks it still lacks
  found, range,
  start,     \* wbfs_alloc_block(): start_block
  bl,        \* ... and the block looked at
  map,       \* blocks allocated so far
  idx, mask  \* wbfs_load_freeblocks(): word under construction

find  == <<p1, p2, count, found, range>>
store == <<idx, mask>>
vars  == <<free, words, pc, kind, need, p1, p2, count, found, range,
           start, bl, map, idx, mask>>

-----------------------------------------------------------------------------
(* The next free block after p, NBlocks if there is none. *)
NextFree(p) ==
  LET later == {b \in free : b > p}
  IN  IF later = {} THEN NBlocks ELSE CHOOSE b \in later : \A c \in later : b <= c

NoFind == p1' = 0 /\ p2' = 0 /\ count' = 0 /\ range' = 0

(* A partition has just been formatted and is about to be synced. *)
Init ==
  /\ free = Blocks
  /\ words = [w \in Words |-> {}]
  /\ pc = "sync" /\ kind = "none"
  /\ need = 0 /\ p1 = 0 /\ p2 = 0 /\ count = 0 /\ found = 0 /\ range = 0
  /\ start = 0 /\ bl = 0 /\ map = <<>>
  /\ idx = 0 /\ mask = {}

(* wbfs_add_disc_param() has counted the free blocks, wbfs_add_phantom()    *)
(* and WriteWBFS() have not.                                                *)
AddUnchecked(k, n) == k \in {"add", "phantom", "write"} /\ n \in 1 .. NBlocks

Add(k, n) ==
  \/ k = "add" /\ n \in 1 .. Cardinality(free)
  \/ k \in {"phantom", "write"} /\ n \in 1 .. NBlocks

(* They look for a range of n blocks first ... *)
AddAvoidFrag(k, n) ==
  /\ pc = "idle" /\ Add(k, n) /\ k # "write"
  /\ kind' = k /\ need' = n
  /\ p1' = NextFree(0) /\ p2' = NextFree(0) /\ count' = n
  /\ pc' = "window"
  /\ UNCHANGED <<free, words, found, range, start, bl, map, store>>

AddFirstUnclamped(k, n) ==
  /\ pc = "idle" /\ Add(k, n)
  /\ kind' = k /\ need' = n
  /\ start' = 0 /\ bl' = FirstProbe(NBlocks, 0)
  /\ pc' = "probe"
  /\ UNCHANGED <<free, words, find, map, store>>

(* ... or take the first free blocks. *)
AddFirst(k, n) ==
  /\ pc = "idle" /\ Add(k, n)
  /\ kind' = k /\ need' = n
  /\ start' = FirstProbe(NBlocks, 0) /\ bl' = FirstProbe(NBlocks, 0)
  /\ pc' = "probe"
  /\ UNCHANGED <<free, words, find, map, store>>

(* Grow the window to the right until it has enough free blocks. *)
Window ==
  /\ pc = "window" /\ p2 < NBlocks
  /\ IF p2 \in free /\ count = 1
     THEN /\ found' = p1 /\ range' = p2 - p1
          /\ pc' = "slide"
          /\ count' = 0 /\ UNCHANGED p2
     ELSE /\ count' = IF p2 \in free THEN count - 1 ELSE count
          /\ p2' = p2 + 1
          /\ UNCHANGED <<found, range, pc>>
  /\ UNCHANGED <<free, words, kind, need, p1, start, bl, map, store>>

(* The end is reached before. *)
NotEnough ==
  /\ pc = "window" /\ p2 >= NBlocks
  /\ found' = NoBlock
  /\ pc' = "found"
  /\ UNCHANGED <<free, words, kind, need, p1, p2, count, range, start, bl, map, store>>

SlideLast ==
  /\ pc = "slide" /\ range >= need
  /\ p1' = NextFree(p1) /\ p2' = NextFree(p2)
  /\ IF p2' < NBlocks
     THEN pc' = "slide" /\ IF p2' - p1' <= range
                           THEN found' = p1' /\ range' = p2' - p1'
                           ELSE UNCHANGED <<found, range>>
     ELSE pc' = "found" /\ UNCHANGED <<found, range>>
  /\ UNCHANGED <<free, words, kind, need, count, start, bl, map, store>>

(* Move both ends to the next free block and remember a shorter range. *)
Slide ==
  /\ pc = "slide" /\ range >= need
  /\ p1' = NextFree(p1) /\ p2' = NextFree(p2)
  /\ IF p2' < NBlocks
     THEN pc' = "slide" /\ IF p2' - p1' < range
                           THEN found' = p1' /\ range' = p2' - p1'
                           ELSE UNCHANGED <<found, range>>
     ELSE pc' = "found" /\ UNCHANGED <<found, range>>
  /\ UNCHANGED <<free, words, kind, need, count, start, bl, map, store>>

(* No range can be shorter than need - 1. *)
Tight ==
  /\ pc = "slide" /\ range < need
  /\ pc' = "found"
  /\ UNCHANGED <<free, words, kind, need, find, start, bl, map, store>>

(* The search is over; wbfs_alloc_block() begins at the range it found. *)
Found ==
  /\ pc = "found"
  /\ start' = FirstProbe(NBlocks, found) /\ bl' = FirstProbe(NBlocks, found)
  /\ NoFind
  /\ pc' = "probe"
  /\ UNCHANGED <<free, words, kind, need, found, map, store>>

(* wbfs_alloc_block(): take the block or go on, from the last to block 1.   *)
(* The next search starts at the block just taken, in WriteWBFS() at the    *)
(* first block of the disc.                                                 *)
Take ==
  /\ pc = "probe" /\ bl \in free
  /\ free' = free \ {bl}
  /\ map' = Append(map, bl)
  /\ start' = IF kind = "write" THEN map'[1] ELSE bl
  /\ bl' = start'
  /\ pc' = IF Len(map') = need THEN "sync" ELSE "probe"
  /\ UNCHANGED <<words, kind, need, find, store>>

PassBack ==
  /\ pc = "probe" /\ bl \notin free
  /\ bl' = IF bl = 1 THEN NBlocks - 1 ELSE bl - 1
  /\ pc' = IF bl' = start THEN "full" ELSE "probe"
  /\ UNCHANGED <<free, words, kind, need, find, start, map, store>>

Pass ==
  /\ pc = "probe" /\ bl \notin free
  /\ bl' = IF bl + 1 >= NBlocks THEN 1 ELSE bl + 1
  /\ pc' = IF bl' = start THEN "full" ELSE "probe"
  /\ UNCHANGED <<free, words, kind, need, find, start, map, store>>

(* All blocks were looked at.  An ADD gives its blocks back, a phantom is   *)
(* as large as it got, a write fails and the disc keeps what it has.        *)
Full ==
  /\ pc = "full"
  /\ free' = IF kind = "add" THEN free \cup {map[i] : i \in 1 .. Len(map)} ELSE free
  /\ pc' = "sync"
  /\ UNCHANGED <<words, kind, need, find, start, bl, map, store>>

(* wbfs_free_block() drops the last use of block b; wbfs_sync() follows. *)
Release(b) ==
  /\ pc = "idle" /\ b \notin free
  /\ free' = free \cup {b}
  /\ pc' = "sync"
  /\ UNCHANGED <<words, kind, need, find, start, bl, map, store>>

LoadKeepingWords ==
  /\ pc = "sync"
  /\ words' = words
  /\ idx' = 0 /\ mask' = {} /\ bl' = 1
  /\ kind' = "none" /\ need' = 0 /\ start' = 0 /\ map' = <<>> /\ found' = 0 /\ NoFind
  /\ pc' = "pack"
  /\ UNCHANGED free

(* wbfs_load_freeblocks(): all bits 0 means all blocks used.  The locals of *)
(* the ADD are gone.                                                        *)
Load ==
  /\ pc = "sync"
  /\ words' = [w \in Words |-> {}]
  /\ idx' = 0 /\ mask' = {} /\ bl' = 1
  /\ kind' = "none" /\ need' = 0 /\ start' = 0 /\ map' = <<>> /\ found' = 0 /\ NoFind
  /\ pc' = "pack"
  /\ UNCHANGED free

Word(b) == (b - 1) \div WordBits
Bit(b)  == (b - 1) % WordBits

(* One block; a word is stored when a free block of a later word comes up. *)
Pack ==
  /\ pc = "pack" /\ bl < NBlocks
  /\ IF bl \in free
     THEN /\ idx' = Word(bl)
          /\ mask' = IF idx = Word(bl) THEN mask \cup {Bit(bl)} ELSE {Bit(bl)}
          /\ words' = IF idx = Word(bl) THEN words ELSE [words EXCEPT ![idx] = mask]
     ELSE UNCHANGED <<idx, mask, words>>
  /\ bl' = bl + 1
  /\ UNCHANGED <<free, pc, kind, need, find, start, map>>

(* The last word. *)
PackEnd ==
  /\ pc = "pack" /\ bl >= NBlocks
  /\ words' = IF idx < Size THEN [words EXCEPT ![idx] = mask] ELSE words
  /\ idx' = 0 /\ mask' = {} /\ bl' = 0
  /\ pc' = "idle"
  /\ UNCHANGED <<free, kind, need, find, start, map>>

Call ==
  \/ \E k \in {"add", "phantom", "write"}, n \in 1 .. NBlocks :
       AddAvoidFrag(k, n) \/ AddFirst(k, n)
  \/ \E b \in Blocks : Release(b)

Step ==
  \/ Window \/ NotEnough \/ Slide \/ Tight \/ Found
  \/ Take \/ Pass \/ Full
  \/ Load \/ Pack \/ PackEnd

Next == Call \/ Step

(* A call that has begun goes on: the code is sequential and blocks on      *)
(* nothing.                                                                 *)
Spec == Init /\ [][Next]_vars /\ WF_vars(Step)

-----------------------------------------------------------------------------
(* AVOID_FRAG finds the first of the shortest ranges that hold the disc, if *)
(* there are enough free blocks at all.                                     *)
FindsFirstRange ==
  pc = "found" =>
    IF need <= Cardinality(free) THEN IsFirstRange(free, need, found)
                                 ELSE found = NoBlock

(* Every block that is taken is the free one nearest to where the search    *)
(* began, with wrap-around; the first one of a disc for which a range was   *)
(* found begins this range, so that the disc fills it in ascending order.   *)
TakesNearest ==
  [][map' # map /\ map' # <<>> =>
       IsNearest(NBlocks, free, IF map = <<>> /\ found \in Blocks THEN found ELSE start,
                 map'[Len(map')])]_vars

(* A search gives up only if there is no free block left, and an ADD that   *)
(* was told there are enough never gets there.                              *)
FullOnlyIfFull == pc = "full" => free = {} /\ kind # "add"

(* What wbfs_sync() stores is what an open of the partition decodes: bit    *)
(* b - 1 is set just for the free blocks, and no bit after the last block.  *)
PackedExactly ==
  pc = "idle" =>
    {p \in Words \X Bits : p[2] \in words[p[1]]} = {<<Word(b), Bit(b)>> : b \in free}

(* Every search and every store comes to its end. *)
CallsReturn == pc # "idle" ~> pc = "idle"
=============================================================================
