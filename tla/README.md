# Verification of Wiimms ISO and SZS tools

TLA+ models, TLC runs and TLAPS proofs for the parts of this repository that
keep state over time: the WBFS partition that `wwt` maintains and `wfuse`
serves, and the extracted trees that `wszst CREATE` packs again, with their
cache of content hashes. Module names, actions and variables follow the C code;
`PROJECT.json` maps every definition to its lines.

Contents: [1 Inventory](#1-inventory) · [2 Modules](#2-modules-and-the-code-they-model) ·
[3 Runs](#3-runs) · [4 Proofs](#4-proofs) · [5 Findings](#5-where-code-and-documents-disagree) ·
[6 Not modelled](#6-what-is-not-modelled-and-why) · [7 Plan](#7-plan) · [8 How to run](#8-how-to-run)

## 1 Inventory

The repository holds two tool sets that share their library code, and a front
end for both:

- `src/iso-tools/project/`: *Wiimms ISO Tools*: `wit`, `wwt`, `wdf`, `wfuse`
  and the library `libwbfs`;
- `src/project/`: *Wiimms SZS Tools*: codecs and editors for game assets, with
  an incremental `CREATE`;
- `src/nintoolbox.py`: a window that starts these tools.

Almost all of this is conversion of file formats in one sequential pass. State
that outlives a call, is shared by callers, or must survive an interruption is
kept in these places:

| component | code | state | operations | hard because |
|---|---|---|---|---|
| WBFS partition | `libwbfs/libwbfs.c` | on the medium: header with disc table, one inode per slot, free blocks table, data blocks; in memory: disc table, use counters, ID list, dirty flags | open, add, remove, rename, sync, close | a command is several writes and can be cut off between any two; memory and medium disagree in between; a source can fail in the middle of an ADD; counters saturate |
| block allocator, free blocks table | `libwbfs.c` | use counters, packed bits | find a range, allocate, release, pack | sliding window, wrap-around, words and boundaries |
| check, repair, recover | `wbfs-interface.c` | reference counts of a check, slot marks | CHECK, REPAIR (modes), RECOVER | works on media in *any* state; a result of a check is used after the discs have changed; several writes |
| geometry | `libwbfs.c` | three numbers in the header decide on the place of everything | format, open, truncate | two different roundings, 16-bit fields, a table that moves |
| disc creation, random write | `libwbfs.c`, `lib-sf.c` | slot and inode of a disc under construction; the name of its file | `CopyImage` into a .wbfs file, `wbfs_create_disc`, `WriteWBFS` | blocks are allocated write by write; the closing writes report no failure; the source may be deleted on the way |
| `wfuse` | `wfuse.c` | `dfile[]`: open discs with lock count and time stamp; one mutex | the FUSE callbacks | threads of libfuse; most of a callback runs without the mutex; the cache is limited |
| positioned reads | `lib-file.c` | position in the kernel, `file_off`, `cur_off` | seek, read | shared by the threads of `wfuse`; errors leave the position unknown |
| patching of copied discs | `patch.c`, `lib-sf.c` | list of modified areas | `RewriteModifiedSF` | a second pass over data that is already written; after ADD the disc is visible |
| image containers | ISO, CISO, WDF, WIA, GCZ | per-file encoder state | read, write | data layout |
| hash cache of `CREATE`, `ENCODE` | `lib-szs-create.c`, `create_update.inc` | members, editable forms, `.wszst-cache.txt`, the archive | CREATE, ENCODE, --test, --encode-all; the user edits in between | four kinds of files that must agree and are written one after the other; each write can fail or be the last |
| repacking of trees | `create_archive_dispatch.inc`, `lib-passthru.c` | nested directories `*.d`, containers, time stamps, markers | CREATE of a directory | decisions by time stamps that the run itself changes; directories are removed on the way; errors do not stop the walk |
| GUI | `nintoolbox.py` | a worker thread per started tool, the console | start a tool, show output, enable its button again | output and end arrive as callbacks from the thread |

How they interact: `wwt` opens a partition (`wbfs_open_partition_param`), which
recounts the use counters from the inodes; each command then calls
`wbfs_add_disc_param`, `wbfs_rm_disc`, `wbfs_rename_disc`, `CheckWBFS`,
`RepairWBFS`, `RecoverWBFS` or `wbfs_trim`; these change memory, write inodes
and data at once, and leave header and free blocks table to `wbfs_sync`. The
next process knows only what is on the medium. `wfuse` opens the same partition
for reading; its callbacks share `dfile[]` and, per disc, one `File_t`.

`wszst CREATE dir` is `cmd_create`: it calls `repack_tree_bottom_up`, which
packs every nested `foo.d` into the container `foo` beside it (by
`create_archive_from_dir`, for most formats through `CreateSZS`) and removes
the directory; then `cleanup_extracted_artifacts`; then `CreateSZS` for the
directory itself, and it writes the archive that `CreateSZS` has assembled.
Between two runs the user edits members or their editable forms. `CreateSZS`
compares content hashes with its cache, the walk compares time stamps.

What makes each of them correct:

- **Partition**: a block belongs to at most one disc; a disc that a listing
  shows is complete; an interruption loses the running command only; the table
  on the medium may be stale but never does harm.
- **Allocator**: it finds what exists, gives up only on a full partition, and
  the packed table says what the counters say.
- **Repair**: discs without a fault survive, faulty ones go, a second repair has
  nothing to do.
- **Geometry**: header, inodes, table and blocks fit; the next open computes the
  same places as the last writer.
- **wfuse**: a disc in use stays open; counts agree; a callback fails only if it
  must; the mutex is always released.
- **Positioned reads**: a read returns the data of its own offset.
- **Disc creation**: what bears the final name is a whole disc; the source goes
  only when there is a copy; a failure leaves no rubbish, and no copy is missing
  without a word but after an interruption (section 5).
- **Hash cache**: a rebuild is skipped only if the archive has what the
  directory has; a recorded hash stands for a binary that was made of this
  content; nothing is done twice.
- **Repacking**: an edit reaches the output through any number of archives, or
  an error is reported; archives without an edit are not rebuilt.

`PROJECT.json` lists every component with its status and every hazard with the
line where it bites and the properties that cover it.

## 2 Modules and the code they model

| module | models | built on |
|---|---|---|
| `BlockChoice` | what `wbfs_find_free_blocks()` and `wbfs_alloc_block()` return, as definitions without loops | |
| `WbfsBlocks` | these two functions, `wbfs_free_block()` and `wbfs_load_freeblocks()`, one step per turn of a loop | `BlockChoice`, which it is checked against |
| `DiscStore` | abstract: a catalogue in which discs appear, change one of their two names and vanish | |
| `Wbfs` | the partition under ADD, REMOVE, RENAME | `BlockChoice` (the allocator in one step); implements `DiscStore` |
| `WbfsRepair` | CHECK, REPAIR, RECOVER on damaged media | |
| `WbfsGeometry` | `wbfs_calc_geometry()`, FORMAT, TRUNCATE | |
| `Wfuse` | cache and mutex of `wfuse.c` | |
| `SharedFile` | `XReadAtF()` of several threads on one file | |
| `HashCache` | `CreateSZS()` with its cache, and the write of the archive in `cmd_create()` | |
| `RepackTree` | `repack_tree_bottom_up()` and what `cmd_create()` does after it | takes the cache of `CreateSZS()` as exact: `HashCache` says when it is |
| `CopyImage` | `CopyImage()` of `lib-sf.c` with a new .wbfs file as destination: `CopySF()`, `RewriteModifiedSF()`, `WriteWBFS()`, `CloseHelperSF()` | `BlockChoice` (the allocator in one step) |
| `MC...` | bounds for TLC | |
| `WbfsProofs`, `WbfsBlocksProofs`, `WfuseProofs`, `SharedFileProofs`, `HashCacheProofs`, `RepackTreeProofs`, `WbfsRepairProofs`, `CopyImageProofs` | theorems | the module in their name; `WbfsBlocksProofs` also on `WbfsGeometry`, whose table it follows from bits to sectors |

Operators that nothing refers to, each placed before the definition it
resembles (`IsAllocatedAnyway` before `IsAllocated`, say), are faulty variants.
`PROJECT.json` lists them under `mutants`: put in place of the real definition,
each breaks the property it is listed with, which shows that the property
depends on that line of the code.

### Wbfs

`dHead`, `dInfo`, `dFbt`, `dData` are the medium; `head`, `used`, `usedDirty`,
`dirty`, `idList` are the fields of `wbfs_t`; `pc` and `cur` are the locals of
the call that runs. Each write to the medium is one action, so `Crash`, which
forgets the memory, can fall between any two.

| code | actions |
|---|---|
| `wbfs_open_partition_param`, `wbfs_calc_used_blocks` | `Open` |
| `wbfs_add_disc_param` as `exec_add` calls it | `AddBegin` (reads the disc header, and does not look whether that worked: `cur.ok`), `AddBlock` (one per block), `AddReadError` (source unreadable: `goto error`), `AddInfo` (the inode), after the sync `OpenAdded` |
| `wbfs_sync` | `SyncHead`, then `SyncFbt` if a counter has become or ceased to be zero |
| `wbfs_rm_disc` | `RmSlot` (REMOVE, REMOVE --no-free), `RmId` (ADD --overwrite, --sync) |
| `wbfs_open_disc_by_info` of a bad inode | `DropInvalid` |
| `wbfs_rename_disc` | `RenameIso` (the first sector of the disc, with or without the inode's name to follow), then `RenameInfo` (the inode) or `RenameFails` (its write fails); `Rename` where only the inode changes |
| `wbfs_close` | `CloseSync`, `Close` |

An image is a model value that also stands for its ID6, together with the set
`UsedIdx[img]` of its block-sized parts that are not empty. The content of a
block is its image, its part and, in part 0, which begins with the ISO header,
the name that RENAME may change there. Inode and header writes are atomic; the
inode also carries the disc header, so one write makes both current, as in the
code. RENAME asks for both headers unless told otherwise, so it is two writes,
in two places, with a crash or a failure in between. Titles are left out. `good` is a history variable: the slots whose present inode an ADD that
ran to its end has written. A slot with `dHead` and `good` is a *committed*
disc. After a failed ADD the code can list other slots, see section 5.

`DiscStore` says what a listing may see: a disc has content and two names, one
in its entry and one in its ISO header. `Wbfs` implements it with `catalogue`
(read through the map of the inode, block by block) for `cat`: allocation,
copying, counters, crashes and errors are stuttering steps, the header write of
`SyncHead` is the moment at which an ADD or REMOVE happens, and each of the two
writes of RENAME changes one name and nothing else.

### WbfsBlocks

The bodies of the loops: `Window`, `NotEnough`, `Slide`, `Tight` are
`wbfs_find_free_blocks()`; `Take`, `Pass`, `Full` are `wbfs_alloc_block()`
driven by the three callers that differ (ADD has counted the free blocks,
`wbfs_add_phantom` and `WriteWBFS` have not, and `WriteWBFS` starts each search
at the first block of the disc); `Load`, `Pack`, `PackEnd` are
`wbfs_load_freeblocks()`. Words are sets of bits. `Release` drops the last use
of a block; counting itself belongs to `Wbfs`.

### WbfsRepair

`Init` admits every medium: any disc table, any inode magic (disc, deleted,
other), any map with entries from 0 to the first invalid block, any free blocks
table. `Checked` is the result of `CheckWBFS()`; `Drop`, `WriteFbt`, `Sync` are
`RepairWBFS()`; `Recover` ... `Undo` are `RecoverWBFS()` in the order of its
writes. Report texts are left out. `old` remembers the medium at the start of a
command, so properties can say what a command did to it.

### WbfsGeometry

The arithmetic is the code's, with its real constants, including the assignment
of the number of blocks to a 16-bit field. `Format` is the initial predicate:
`wwt FORMAT` of a size; `GeoNext` are the commands that follow. `Fill` stands for any change of the
last used block followed by a sync.

### Wfuse

`Lock` takes the mutex; the next step of that thread is the whole critical
section and releases it. This is sound because shared state is only written
under the mutex, and the one read outside it, the test of the FST pointer in
`get_fst()`, is the separate step `SeeFst`. `ReadFile`/`ReadEnd` are two steps,
since a file read holds the mutex for long. Time is the age of each entry,
capped at `Timeout2 + 1`, beyond which no comparison distinguishes ages. `fst`
counts how often a list of files was built for an open disc.

### SharedFile

One step per access to `file_off`, `cur_off` or the position in the kernel. A
read moves the file by one unit; `ReadSF()` of a range over several blocks is
several such reads. `spoiled` is a history variable: a read of `/disc.iso` has
overlapped another read, or an `lseek()` has failed.

### CopyImage

`wit COPY`, `wit CONVERT` and `wwt EXTRACT` write an image into a file that is a
WBFS with one disc. The file (`dHead`, `dInode`, `dFbt`, `dData`, and `place`,
its name) is changed by one action per write; `map`, `header`, `used`, `size` are
the open disc and `wbfs_t`; `todo`, `items` and `left` are the positions of the
loops. The unit of data is a piece of a WBFS block; a unit has no content but its
own name and whether it is what the first pass read or the final one, since
signatures are only known in the second pass.

| code | actions |
|---|---|
| `CreateWFile`, `SetupWriteWBFS`, `wbfs_create_disc` | `Create`, `CreateFails` |
| one turn of `CopySF` (sectors), `CopyRaw`, `CopyWBFSDisc` (blocks) | `CopyChunk`, `CopyFails`, `CopyEnd` |
| `RewriteModifiedSF` | `RewriteItem`, `RewriteFails` |
| `SIGINT_level > 1` found after a phase that has returned `ERR_OK` | `Interrupted` |
| the label `abort` | `Abort`, with the error of the phase, which may be none |
| one turn of the loop of `WriteWBFS` | `WriteTurn`, `WriteFails` |
| `RemoveSF(fi)` | `RemoveSource` |
| `CloseHelperSF`: `CloseWDisc`, `SyncWBFS`, `wbfs_trim`, `SetSizeF`, `XCloseWFile` | `CloseDisc`, `SyncHead`, `SyncFbt`, `Trim`, `Cut`, `Close` |
| the second Ctrl-C; a kill or the third | `Interrupt`; `Die` |

`Written` is `WrapperWriteSector()` as `wbfs_sync()` uses it: it may fail, it does
fail after the second Ctrl-C, and the caller goes on. `lost` is the history of
these failures. An old file under the final name is left out: it is replaced by
the rename or stays. `wbfs_trim()` computes the geometry again, so `Trim` sets the
size to the blocks up to the last used one, `HasTable` says whether the old
rounding leaves such a file a free blocks table, and `Numbered` how many of its
blocks have a number; `Round` and `FbtBits` stand for the 8 blocks and 4096 bits
of a partition with sectors of 512 bytes and blocks of 2 MiB.

### HashCache

`text` and `file` are the editable forms and the members on disk, `fcache` and
`tcache` the two kinds of lines in `.wszst-cache.txt`, `dest` and `archive` the
destination; `oldF`, `oldT`, `newF`, `newT` are `old_hash_cache` and
`new_hash_cache`. A hash stands for its content. `newer` is the one comparison
of time stamps that counts, the form against its binary. The directory's name
does not end in `.d`: `cmd_create()` removes one that does, which ends the life of
its cache; that removal is part of `RepackTree`.

| code | actions |
|---|---|
| the user, between two runs | `EditText`, `EditMember`, `LoseLines`, `RemoveArchive` |
| `LoadHashCache`, members of the destination instead of a missing cache | `Load` |
| the encode pass, one form at a time | `KeepBinary` (unchanged), `RejectText` (`Scan*` fails), `RecordOnly` ("Can't encode", --test), `RemoveBinary` then `SaveBinary` |
| hashing and comparing the members | `ScanMembers` |
| `szs->unchanged` | `KeepArchive` |
| `Create*`, then `SaveHashCache` | `BuildArchive` |
| `cmd_create`, `CreateFileOpt`, `fwrite` | `WriteArchive` |
| the process dies between two steps, in `SaveHashCache`, in `fwrite` | `CrashInRun`, `CrashInSave`, `CrashInWrite` |

Four history variables name the conditions of the properties: `gap` (a run has
saved the cache and left the archive as it was), `lost` (the cache may list
fewer members than the archive has), `doubt` (lines that were recorded without
an encode, or whose binary was changed since) and `dirty` (something was touched
since the last complete CREATE).

### RepackTree

An archive `d` stands for its directory, its container `box[d]`, one member
`asset[d]` and the editable form of that member; all have a version and a time.
A container holds a version of every asset below it, so a property can ask
whether an edit has arrived at the top. `setupT` and `marker` are
`wszst-setup.txt` and `.wszst-mtime-baseline`; `legacy` archives have no setup
file. One tick of the clock stands for more than the resolution of time stamps.

| code | actions |
|---|---|
| PNG files in `repack_tree_bottom_up` | `Image` |
| `normalize_legacy_tree_mtimes`, once for each tree | `Baseline` |
| `need_rebuild`, `create_archive_from_dir` | `UpToDate`, `Rebuilt`, `Unopened` (the result of `CreateFILE` is ignored), `RebuildFails` |
| `remove_dir_recursive` | `Remove` |
| `cleanup_extracted_artifacts` | `Cleanup` |
| `cmd_create` for the directory itself | `Pack`, `Drop` |
| the process dies between two steps, while an image, a container or the root is written, within a removal | `Crash`, `CrashInImage`, `CrashInWrite`, `CrashInRemoval` |

The walk takes the directories in any order that is bottom-up; the code's order
is that of `readdir()`. `want` is the version the user saved last, `lost` the
edits whose loss the code reports or that belong to one of the exceptions named
at `NoSilentLoss`, and `cut` says that a process has died within a write or a
removal. Reports are counted as follows: an error, or --test, stands for
everything that has not arrived at the root when the process ends; and the error
about a container that could not be written to its end stands for all that it
was to hold, from that moment on (section 5 says why that matters).

## 3 Runs

State counts and times are of one machine with two workers. Deadlock is checked
in every run but `RepackTree` and `CopyImage`, which means that no reachable
state stops the program or, in `Wfuse`, all its threads. `RepackTree` may stop:
its clock is bounded, and a tree that has been packed and removed is gone.
`CopyImage` ends with its one copy.

| run | instance | distinct states, time | shows |
|---|---|---|---|
| `Wbfs_clean` | 2 slots, 3 data blocks, images of 1, 2 and 1 blocks, saturation at 3, AVOID_FRAG, RENAME to one ID, no source errors | 341,371, 50 s | `NoBlockShared`, `UsedExact`, `NoGhostDisc`, `UniqueIds`, `StoreSpec` |
| `Wbfs_faults` | 2 slots, 3 data blocks, images of 1 and 2 blocks, saturation at 2, FIRST, no RENAME, source errors | 4.44 million, 2 min | `NoLiveBlockFree`, `FbtWriteSafe`, `OnlyRemovedVanish` |
| `WbfsRepair` | 2 slots, 2 data blocks, 2 references per disc, 36,864 initial media, modes FBT, all RM-*, all | 1.35 million, 30 s | `HealthyDiscsStay`, `FbtWriteSafe`, `RepairDropsFaulty`, `RepairConverges`, `RecoveredDiscsDisjoint`, `RecoverDropsInvalid` |
| `WbfsBlocks` | 9 data blocks, words of 4 bits | 366,000, 25 s | `FindsFirstRange`, `TakesNearest`, `FullOnlyIfFull`, `PackedExactly`, `CallsReturn` |
| `WbfsGeometry` | sectors of 512, 2048, 4096 bytes; default, 2, 4 and 64 MiB blocks; about 25 block counts with 4 offsets each | 14,991, 2 s | `BlockZeroFits`, `EveryBlockHasBit`, `TrimKeepsBlocks`, `FbtWhereExpected` |
| `Wfuse` | 3 threads, 3 discs, 2 entries, timeouts 0 and 1, symmetric threads and discs | 362,679, 25 s | `CacheConsistent`, `NoCloseInUse`, `RoomIfIdle`, `OneFst`, `FileReadsExclusive`, `MutexInside` |
| `SharedFile` | 2 threads, file of 3 units | 480,941, 6 s | `ReadsRight` |
| `HashCache` | a plain member and one with an editable form, two good texts, one that is rejected, one of no known format; all faults | 1.77 million, 50 s | `SkipMissesNoEdit`, `SkipMissesNoRemoval`, `RecordedIsEncoded`, `UnchangedIsSkipped` |
| `RepackTree` | root, an archive within an archive, a second archive; one edit of each asset, clock up to 4, all faults | 580,127, 80 s | `NoSilentLoss`, `UntouchedStay` |
| `CopyImage` | three ways to copy; three parts of two units (all contents), or one, or four, or a fifth that is too much; nothing, one unit, an area across two blocks or two areas written again; chunks of two blocks; six blocks, rounded to three, three bits in a sector of the table; all faults | 355,192, 9 s | `NamedFileIsWhole`, `HeaderIsCopy`, `SourceOrCopy`, `FailureCleansUp` |
| `Wbfs_shared`, `HashCache_encode` | as above; the last one without any fault | | a counterexample each, see section 5 |

Why these bounds are enough for the interesting cases:

- `Wbfs`: with three data blocks and images of one and two blocks, a partition
  gets full, an ADD reuses blocks of a removed disc, a fragmented choice of
  blocks exists, and two slots are enough for a disc that appears while another
  one's blocks are at stake. Saturation at 3 (clean) is above every exact
  count, so `UsedExact` is about real counting; at 2 (faults) a counter does
  saturate.
- `WbfsRepair`: two discs on two blocks share blocks with each other and within
  one disc, refer to the first invalid block and to none.
- `WbfsBlocks`: all 512 sets of free blocks occur; nine blocks fill two words
  and one bit of a third, so the last word is partial, and one word of spare
  memory shows a store behind the table.
- `WbfsGeometry`: real numbers around every boundary of the calculation.
- `Wfuse`: more discs than entries and as many threads as discs; an entry is
  idle, expired, in use or locked twice.

- `HashCache`: one item suffices, because items meet only in sums and in
  `todo`, which the plain member represents. It has one content and may be
  removed; the two good contents of the item make every comparison come out both
  ways, and the number of runs is not bounded. `x` and
  `y`, with `tx` and `ty`, are exchanged by symmetry.
- `RepackTree`: two levels below the root show how a rebuild climbs, `side` is
  the sibling; the forms are an image, an OBJ file, a text and none. A window of
  one tick and a clock of four allow an edit inside the window, one after it,
  and a second run after a failed or interrupted one. One more level, with a
  clock of five and without kills in the middle of a write, has 959,130 states
  and no violation; it is too long for a run, and section 4 has the proof.

- `CopyImage`: a chunk fits a block, ends in the next one, or starts behind a
  hole; an area is written again within a block, across two, before and after
  another one. A file is cut to 2 blocks (no free blocks table), 3 or 4 (a table
  that is complete) or 5 (one that has no bit for the last block). Blocks and
  slots of one file do not interact with anything else.

*Fairness.* Only `WbfsBlocks` has a liveness property, under `WF_vars(Step)`: a
call that has begun goes on, because the code is sequential and waits for
nothing. Nothing is assumed about new calls. The scheduler of threads in
`Wfuse` and `SharedFile` is left free; there, absence of deadlock is checked
instead.

`NoBlockShared`, `UsedExact` and `NoGhostDisc` need readable sources, and so does
`StoreSpec` if discs are renamed; `Wbfs_clean` has them. With a failed ADD
`NoBlockShared` fails (section 5) and what remains is stated in `Wbfs_faults`:
committed discs keep their blocks and their place in the table. `UniqueIds` is
about discs that appear; RENAME may give two discs the same ID.

## 4 Proofs

All proofs are checked by TLAPS with its SMT backend, Zenon and LS4, for every
value of the constants that satisfies the named assumption of the module. The
assumptions are weak: sizes are positive numbers, sets of threads and images are
finite where they are counted, marker values are no members of the sets.

**WbfsProofs** (`WbfsAssumption`): `TypeCorrect`, `LiveBlocksSafe`
(`NoLiveBlockFree`), `FbtSafe` (`FbtWriteSafe`). The inductive invariant `IInv`
of `Wbfs` has to survive a failed ADD, after which a slot is marked used over an
inode that ADD did not write and blocks are allocated that no inode refers to.
So exact counters cannot be part of it. What is inductive:

- `UsedCovers`: each counter is saturated or *at least* the number of
  references from slots that have a cached ID;
- `IdListInv`: which slots have a cached ID;
- `GoodInv`: committed discs are among them, whatever the command;
- `CopyInv`: the blocks an ADD has already filled are referred to by no counted
  inode, hold what they should, and are distinct.

The step from `UsedCovers` to `UsedCovers'` for `wbfs_rm_disc` is arithmetic on
cardinalities: the references of the other discs are those of all minus those
of the removed one. `FbtSafe` then follows since the table that `SyncFbt`
writes is the set of blocks with counter 0.

`OnlyRemoved` (`OnlyRemovedVanish`) is about slots that are freed in memory: a
committed disc has a valid inode and a cached ID until `wbfs_rm_disc()` takes the
ID away, so a header write can only take it out after that.

`ImplementsStore` is the refinement `Spec => StoreSpec`, if sources can be read
(`~SourceFaults`) or nothing is renamed (`NewIds = {}`). It needs `PendingInv` in
addition: between an inode write and the header write at most one disc waits to
appear or to vanish, and one that waits to appear is complete. Then every action
is a stutter of the catalogue except `SyncHead` (`Put`, `Drop` or stutter), the
write of the ISO header in `RenameIso` (`RenameHeader`) and the inode write of
`RenameInfo` or `Rename` (`RenameEntry`). That `RenameIso` changes one disc only
rests on `DisjointInv` below: this is where the assumption is used.

The exact statements need one more assumption each. If no source image fails
(`~SourceFaults`): `NoGhosts` (`NoGhostDisc`), `BlocksDisjoint`
(`NoBlockShared`), `CountersExact` (`UsedExact`), from `CleanInv`, three parts
on top of `IInv` that are kept one by one. `HeadInv`: a slot marked used in
memory or on the medium has a complete inode, but for the slot being filled;
so between two headers the medium lists nothing that memory does not count
(`UsedSlotsCounted`). `DisjointInv` speaks of *both* tables, because a crash
brings the one on the medium back; only the inode write of an ADD makes a slot
live (`LiveKept`). `CountInv`: every counter is 1 or 0 as the block is referred
to, or allocated by the running ADD, or not.

`IdsUnique` (`UniqueIds`) needs neither assumption: RENAME leaves the ID list as it
was, but no ADD follows in its session, and the next open fills the list from the
inodes, so that in an ADD the cached IDs are those of the inodes (`IdsInv`).

**WbfsBlocksProofs** (`BlocksAssumption`: at least one data block, and memory
for the words of the table): `TypeCorrect` (the loops stay inside their arrays),
`RangeFound` (`FindsFirstRange`), `NearestTaken` (`TakesNearest`), `FullIsFull`
(`FullOnlyIfFull`), `TableExact` (`PackedExactly`). The invariant has one part
per loop. `WindowInv` counts the free blocks before the right end of the window.
`SlideInv`: the window is a range and the one remembered is the best that begins
no later; what justifies moving both ends at once is that a range is determined
by its begin (`RangeUnique`), that the next one is obtained just so
(`RangeNext`), that behind the last one there is none (`RangeLast`), and what
justifies stopping early is that no range is shorter than its number of blocks
(`RangeLength`). `ProbeInv`: nothing free lies between the begin of the search
and the block looked at. `PackInv`: all words before the current one are
complete, the ones behind it are empty.

The second part of the module is about `WbfsGeometry` (`GeometryAssumption`:
sectors of 512 to 4096 bytes, the block sizes that option `--wss` accepts, any
number of sectors), whose run has only some sizes: `BlockZero` (`BlockZeroFits`),
`BitForEveryBlock` (`EveryBlockHasBit`), `TableIsFound` (`FbtWhereExpected`),
`UsedBlocksKept` (`TrimKeepsBlocks`). Sizes of sectors and blocks are powers of
two; `Powers` evaluates each of them, after which everything is integer division
by a constant (`CeilingFloor`, `NestedDivision`, `Rounded`). `TableFacts`,
`BlockFacts` and `InodeFacts` follow the three numbers of the header through the
two roundings. The key to TRUNCATE is `RoundingLoss`: for a partition of exactly
t blocks, what the old rounding takes away is less than what is left of the
table's last sector, if anything is left (`HasSpareBits`); then the partition
keeps its t blocks (`WholeBlocksStay`). `GeoTypeOK` says that memory carries the
geometry of the header, and the inductive invariant `GeoInv` that the table lies
where memory looks for it and that, where the table has spare bits, the highest
used block is one of the partition's, between any two commands.

**WfuseProofs** (`WfuseAssumption`): `TypeCorrect`, `CacheCorrect`
(`CacheConsistent`), `UsedStaysOpen` (`NoCloseInUse`), `RoomForIdle`
(`RoomIfIdle`), `MutexReleased` (`MutexInside`), `FileReadsSerial`
(`FileReadsExclusive`), `FstBuiltOnce` (`OneFst`). The core of `IInv` is that
the lock count of an entry *is* the number of callbacks that use it, so that an
entry with count 0, the only kind that `get_disc_file()` closes, is used by
nobody. `nFile <= MaxFiles` follows from counting used entries.

**SharedFileProofs** (`SharedFileAssumption`): `TypeCorrect`,
`SerialReadsRight` (`ReadsRight`). Unless `spoiled`, there is one reader, and
`PhaseInv` says at each of its steps how `file_off`, `cur_off` and the position
in the kernel relate; `Tracked` is what it leaves behind: `file_off` is -1 or
the position.

**HashCacheProofs** (`HashCacheAssumption`): `TypeCorrect`, `EditsReachArchive`
(`SkipMissesNoEdit`), `RemovalsReachArchive` (`SkipMissesNoRemoval`),
`RecordsHold` (`RecordedIsEncoded`), `CreateIsIdempotent` (`UnchangedIsSkipped`).
Each has an invariant of its own above `Inv` (types, and that the encode list
holds items with a form): `EditInv` says that without a gap every line of either
cache is in the archive; `RemovalInv` that, without a lost line, the cache has
as many lines as the archive has members; `RecordInv` follows an item from
`RemoveBinary` to the saved line; `DirtyInv` states what a complete CREATE
leaves and that nothing but a touch changes it. `SkipMissesNoRemoval` needs an
argument about finite sets: as many names on both sides, and the ones of the
directory among those of the cache, are the same names (`UsedSubset`).

**RepackTreeProofs** (`RepackAssumption`, which describes a tree of any shape and
depth): `TypeCorrect`, `SiblingsStay` (`UntouchedStay`), `NothingLostSilently`
(`NoSilentLoss`), `NoLastCopyDestroyed`. `Walk` says that whatever is finished is
finished as a whole, with everything below it.

`CalmInv` says of every directory without an edit that no file in it is later
than `Bound`: the time of its setup file, of its container, or, before its
baseline, of the container plus the window; so `is_dir_newer_than()` finds
nothing. It has to hold through failures and interrupted removals, which is why
it speaks of files that still exist.

`LossInv` follows an edit from the file that was saved up to the output. It has
two halves, because a run that has reported an error goes on:

- `Kept` holds in every run. Its core is `FromBelow`: a container that has the
  last version of an asset is not ahead of any container between the two, nor of
  the asset itself. `NewestWins` makes this survive images and texts: where the
  binary is up to date, no older form is newer than it. `Past` and `Forms` say
  that no file is from the future and which forms can be there.
- `Good` holds while nothing has been reported. `Local`: an edit is in the asset
  or in a form that will be seen to be newer. `Finished`: a container whose
  directory is gone has everything from below. `Rising` is the reason why time
  stamps suffice: a container that lacks something its directory has, is older
  than a file in it. It survives a rebuild of a child because the child is
  stamped within the run and all that waits above it is from before the run
  (`InRun`), and it survives the baseline because what the window hides there is
  counted as lost. `UpToDate` then removes nothing that is not in the container.

At the end of a failed run everything that is not at the root is reported; that
the rest is really everywhere in between, so that `Good` holds again when the
next run starts, is what `FromBelow` is for (`ThroughRoot`).
`NoLastCopyDestroyed` states the same invariant as a property of the files
between two runs.

**WbfsRepairProofs** (`RepairAssumption`: at least one slot, block and
reference): `TypeCorrect` and all six properties of the module. REPAIR and
RECOVER are sequences, so the invariant says for each position what is already
on the medium. Its parts: `OldInv`, what cannot have changed yet since the
command began; `CkInv`, the counts and faults in memory are those of the medium
as the table in memory describes it (`view`); `HealthyInv`, a disc without fault
keeps its inode, slot and blocks; `RepairInv` and `RecoverInv`, what each write
has done; `DoneInv`, the properties that speak of the end. They need the lemma
`CheckExact`: from reference counts alone, `CheckWBFS()` neither overlooks nor
invents a fault.

**CopyImageProofs** (`CopyAssumption`: what an image is, and that a new WBFS has
more blocks than a disc has parts): `TypeCorrect`, `WholeWhenNamed`
(`NamedFileIsWhole`), `HeaderCopied` (`HeaderIsCopy`), `SourceSafe`
(`SourceOrCopy`), `CleanedUp` (`FailureCleansUp`). One lemma about the disc,
`TurnReads`, carries the rest: a turn of `WriteWBFS()` makes its units readable
and changes nothing else that can be read. It needs `MapInv`: parts have blocks
of their own, and a block not in use is empty. `DataInv` then follows the two
passes: what is neither to be copied nor left is as the source was read, what is
not to be written again is final. `HeaderInv` compares the write that is running
with the chunk of the header; `CloseInv` says which tables are as in memory, up
to the failures in `lost`, and that the table of free blocks was written for
the size of the file if that size has one (`NumberedNat` and `HasTable` are all
that is used of the rounding). `CleanedUp` uses that nothing has been removed or
named before the closing writes begin, so that an interruption there keeps the
source.

The type invariants of `Wbfs`, `WbfsBlocks`, `Wfuse`, `SharedFile`, `HashCache`,
`RepackTree`, `WbfsRepair` and `CopyImage` are proved instead of being listed in
a run; so is the one of `WbfsGeometry` (`GeoTyping`).

**Only model-checked**: `CallsReturn`. Liveness and ENABLED are beyond the prover,
and so is induction over data; no module uses RECURSIVE operators. Every other
property of a passing run is the statement of a theorem.

## 5 Where code and documents disagree

Each is a run that ends with a counterexample; the quotes are in `PROJECT.json`.

- `Wbfs_shared` (`libwbfs.c:1734`): when the source of an ADD fails, the slot
  stays marked used over an older inode: that of a disc removed earlier, or of
  an ADD that was cut off before its header write. The next sync lists that
  disc, although its blocks have not been counted and go to other discs.
  Shortest trace: an ADD of B writes its inode and is interrupted; the next
  `wwt ADD` fails to read its first image, and its second image takes the
  blocks that the old inode refers to; the sync of the second lists both. Discs
  stored completely keep their blocks (`LiveBlocksSafe`).
- `HashCache_encode` (`lib-szs-create.c:1219`): ENCODE saves the cache of an
  archive that it never writes; the next CREATE sees no change and keeps the old
  archive. A failed write and a crash between cache and archive do the same
  (`gap`).

Other behaviour that differs from what documents or comments lead to expect.
The models contain it, and the properties are stated around it:

- `WriteWBFS()` (`lib-sf.c:1915`) advances its buffer, but not the offset that it
  compares with the size of the header copy. A first write over a block border
  (a raw copy writes 4 MiB into blocks of 2 MiB; a copy from a WBFS with larger
  blocks does it, too) leaves data of a later block where `templates/WBFS.txt:246`
  has a "Copy of the first 256 bytes of the ISO image". `HeaderIsCopy` says that
  it happens exactly then.
- "remove source on success" (`lib-sf.c:3099`): `RemoveSF(fi)` comes before the
  destination is closed. If the rename fails, the destination is deleted as well;
  if a closing write fails, nobody notices. `SourceOrCopy` says that up to then
  all data can be read from the open disc. A file also gets its final name if
  `close()` has reported an error.
- `wfuse_read_iso()` (`wfuse.c:1222`) reads `/disc.iso` without the mutex that it
  takes for the files of a partition. Two such reads share one file position, and
  one may skip its seek ("if we are already at off", `lib-file.c:1990`) although
  the other has moved the file. `ReadsRight` excludes them (`spoiled`).
- `RepairWBFS()` (`wbfs-interface.c:3170`) computes the free blocks table from
  counts that include the discs it has just dropped, although "Fixing the free
  blocks table is the last action" (`templates/wwt.txt:127`): their blocks stay
  marked used until a second repair. `RepairConverges` says just that.
- RECOVER (`wbfs-interface.c:1186`) clears the table in memory to make its check
  fail, but the sync does not write it. On a medium without faults the check
  passes, and all empty slots stay marked used. `RecoverDropsInvalid` is about
  the runs in which the check finds something.
- TRUNCATE (`libwbfs.c:1943`) keeps blocks up to the last used one by size. If
  the old rounding ends exactly with a sector of the table, for instance with
  2 to 7 or 4098 to 4103 blocks of 2 MiB, the next open has no number for
  the last ones. `TrimKeepsBlocks` shows that this is the only such case.
- The same rounding meets every .wbfs file that `CopyImage()` writes, since
  `CloseHelperSF()` trims it. A disc of 1 to 6 blocks gets a file without a free
  blocks table, in which no block has a number. The disc can be read all the same,
  because reads go through the table of the inode; that is what
  `NamedFileIsWhole` promises, and it demands a table only where the size has one.
- `CopyImage()` goes to `abort` if `err || SIGINT_level > 1` (`lib-sf.c:3117-3134`),
  removes the destination and returns `err`, which is `ERR_OK` if Ctrl-C came
  between two phases or during a copy from a WBFS, which does not ask. The callers
  take such a copy for done; only `main()` makes the exit status `ERR_INTERRUPT`
  (`wit.c:5084`, `wwt.c:4541`). `FailureCleansUp` names this as the one success
  without a copy, and says that the source is still there.
- RENAME writes the ISO header, then the inode (`libwbfs.c:823`, `837`). A crash or a
  failure between the two leaves different IDs in them. Neither is compared with
  the IDs of other discs, so RENAME may store an ID twice, after which ADD
  --overwrite removes the first of the two only.
- After an ADD has failed (`Wbfs_shared`), the slot it left behind may list an
  inode whose blocks belong to other discs by now; RENAME of that slot changes
  their first sector. `StoreSpec` fails then, which is why it is stated for
  readable sources or without RENAME.
- ENCODE of a directory `foo.d` removes it at the end, although no archive was
  written (`create_update.inc:1168`), and so does a CREATE that had nothing to do.
- A "real encode failure" should keep "getting retried"
  (`lib-szs-create.c:957`), but a form of no known format is recorded as up to
  date (`RecordOnly`), and a binary that a failed save has torn counts as
  unchanged when the form is not newer.
- "`--test` prints planned operations without writing output"
  (`docs/WORKFLOWS.md:95`): images are saved, previews unlinked, and leftover
  directories removed with --test as well.
- At the root of a CREATE, `cleanup_extracted_artifacts()` unlinks `foo.kmp.txt`
  before `CreateSZS()` would encode it. An edited `*.kcl.obj` in a nested
  archive, with nothing else changed, is removed with its directory. A
  container that cannot be created is no error to `create_archive_from_dir()`,
  which tests only whether the file is open: the directory goes all the same.
  These are the exceptions of `NoSilentLoss`, with edits inside the window of a
  legacy tree.
- A container that could not be written to its end stays, with the time stamp of
  the failure (`create_archive_dispatch.inc:1396`). If the run dies before the
  cleanup, the next one finds it newer than its directory, takes it for up to
  date, removes the directory and packs the torn file into the archive above,
  without an error. The error of the first run is all that is ever said, so
  `NoSilentLoss` takes it as the report of everything the container was to hold.

## 6 What is not modelled, and why

- **Disc creation, random writes, patching**: `wbfs_create_disc` with a header or
  an ID, `WriteWBFS` into a partition with other discs, `RewriteModifiedSF` for
  other containers; how patched bytes come about. `AddWDisc()` calls
  `RewriteModifiedSF()` after the inode and the disc table are written
  (`wbfs-interface.c:4171`): in `Wbfs` a block is written in its final form, so a
  listed disc that lacks its patches after a crash does not occur there.
- **wfuse**: mounting, path analysis, the texts of info files, and the mode that
  serves a single image, whose entry is permanent.
- **lib-file**: writing, split files, the cache area, pre-allocation.
- **Containers, codecs, vendored code**: sequential conversions; their
  correctness is about byte layout.
- **Front ends, partition search, dclib**: no state of their own, or no change
  of it.
- **Hash cache**: directories `*.d`, --no-encode, the nested pass over `create-list` (time stamps
  only), `AddMissingFiles` and `PatchSZS` while the archive is assembled, one
  directory with several destinations, edits during a run.
- **Repacking**: models, XML, YAML, media and banner files (each has a rule of
  its own in the walk), the search for the name of a container, plain
  subdirectories, the depth limit of 32, SKIP STAGING of disc images.
- **GUI**: planned.
- Media errors on writes, and writes that are torn within a sector or reordered
  by the medium: the code does not handle them; a write is atomic here.

## 7 Plan

Done first, because everything else rests on it: the partition, its allocator,
repair, geometry; then the concurrent part; then the incremental CREATE and the
creation of .wbfs files. Next,
in this order:

1. `FstRead`: `ReadFileFST()` (`iso-interface.c`), arithmetic of unaligned reads
   against the definition "the bytes of the file from that offset". Both callers
   (`wfuse.c:1245`, `lib-sf.c:4792`) pass offsets that are multiples of 4 in
   practice.
2. ADD followed by `RewriteModifiedSF()` (`wbfs-interface.c:4171`): a crash in
   between leaves a listed disc without its patches.
3. The worker of the GUI.

## 8 How to run

    tlc -workers 2 -config Wbfs_clean.cfg MCWbfs.tla
    tlapm WbfsProofs.tla

`PROJECT.json` gives module and configuration of every run.
