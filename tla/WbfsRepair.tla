----------------------------- MODULE WbfsRepair -----------------------------
(***************************************************************************)
(* The wwt commands CHECK --repair (REPAIR) and RECOVER on a medium in any *)
(* state of damage: CheckWBFS(), RepairWBFS() and RecoverWBFS() of         *)
(* wbfs-interface.c.  As in Wbfs, one action per write to the medium.      *)
(*                                                                         *)
(* REPAIR_INODES rewrites time stamps only and the table version is always *)
(* current once a partition is open; neither is told apart here.           *)
(***************************************************************************)
EXTENDS Integers, FiniteSets

CONSTANTS
  MaxDisc,    \* w->max_disc
  NBlocks,    \* w->n_wbfs_sec; a reference to block NBlocks is invalid
  PerDisc,    \* w->n_wbfs_sec_per_disc
  Commands,   \* the commands to run, of "repair" and "recover"
  Modes       \* the --repair modes to run, sets of Flags

Slots  == 0 .. MaxDisc - 1
Blocks == 1 .. NBlocks - 1
Idx    == 0 .. PerDisc - 1

RmAll == {"RM_INVALID", "RM_OVERLAP", "RM_FREE", "RM_EMPTY"}
Flags == RmAll \cup {"FBT"}

(* The disc header at the start of an inode: a disc, one whose magic says   *)
(* deleted, or anything else.                                               *)
Magics == {"disc", "deleted", "bad"}

ASSUME RepairAssumption ==
  /\ MaxDisc \in Nat \ {0} /\ NBlocks \in Nat \ {0} /\ PerDisc \in Nat \ {0}
  /\ Commands \subseteq {"repair", "recover"}
  /\ Modes \subseteq SUBSET Flags

VARIABLES
  dTable,   \* medium: disc table, TRUE = used
  dMagic,   \* medium: magic of each inode
  dMap,     \* medium: wlba table of each inode
  dFbt,     \* medium: the blocks marked free
  table,    \* w->head->disc_table, "user" = WBFS_SLOT__USER
  ck,       \* the CheckWBFS_t of the running command
  cmd,      \* running command or "none"
  test,     \* option --test
  rm,       \* repair mode
  pc,       \* next step of the command
  old       \* history: the medium when the command started

vars == <<dTable, dMagic, dMap, dFbt, table, ck, cmd, test, rm, pc, old>>

Medium == [table : [Slots -> BOOLEAN], magic : [Slots -> Magics],
           map : [Slots -> [Idx -> 0 .. NBlocks]], fbt : SUBSET Blocks]

medium == [table |-> dTable, magic |-> dMagic, map |-> dMap, fbt |-> dFbt]

NoCk  == [blc |-> [b \in Blocks |-> 0], invalid |-> {}, overlap |-> {},
          free |-> {}, empty |-> {}, err |-> FALSE]
NoOld == [table |-> [s \in Slots |-> FALSE], magic |-> [s \in Slots |-> "bad"],
          map |-> [s \in Slots |-> [i \in Idx |-> 0]], fbt |-> {}]
AllFree == [s \in Slots |-> "free"]

-----------------------------------------------------------------------------
(* How often the inodes of slot set S refer to block b. *)
RefCount(S, b) == Cardinality({p \in S \X Idx : dMap[p[1]][p[2]] = b})

RefsOf(s) == {dMap[s][i] : i \in Idx} \ {0}

(* wbfs_open_disc_by_slot() without force succeeds. *)
Opened == {s \in Slots : table[s] # "free" /\ dMagic[s] = "disc"}

(* Operators that nothing uses, placed before the one they are a faulty     *)
(* variant of, are mutants: see the list in PROJECT.json.                   *)

(* What CheckWBFS() computes: reference counts, and the discs that refer to *)
(* an invalid block, share a block, use a block marked free or have none.   *)
(* The cap of a count at 255 is left out, it is compared with 0 and 1 only. *)
Blc == [b \in Blocks |-> RefCount(Opened, b)]

InvalidDiscsPast == {s \in Opened : \E b \in RefsOf(s) : b > NBlocks}

InvalidDiscs == {s \in Opened : \E b \in RefsOf(s) : b >= NBlocks}

OverlapDiscsAny == {s \in Opened : \E b \in RefsOf(s) \cap Blocks : Blc[b] >= 1}

OverlapDiscs == {s \in Opened : \E b \in RefsOf(s) \cap Blocks : Blc[b] > 1}

FreeDiscs == {s \in Opened : RefsOf(s) \cap dFbt # {}}

EmptyDiscs == {s \in Opened : RefsOf(s) \cap Blocks = {}}

FbtErrorsUsed == {b \in dFbt : Blc[b] > 0}

(* Used blocks marked free and free blocks marked used. *)
FbtErrors == {b \in Blocks : b \in dFbt <=> Blc[b] > 0}

Checked ==
  [blc |-> Blc, invalid |-> InvalidDiscs, overlap |-> OverlapDiscs,
   free |-> FreeDiscs, empty |-> EmptyDiscs,
   err |-> FbtErrors \cup InvalidDiscs \cup OverlapDiscs \cup EmptyDiscs # {}]

CheckedTableKept == table

(* ... and each slot it cannot open is freed, in memory only. *)
CheckedTable == [s \in Slots |-> IF s \in Opened THEN table[s] ELSE "free"]

GoodFbtKept == {b \in Blocks : RefCount(Opened, b) = 0}

(* CalcFBT(): the blocks that CheckWBFS() found unused. *)
GoodFbt == {b \in Blocks : ck.blc[b] = 0}

-----------------------------------------------------------------------------
Init ==
  /\ \E m \in Medium :
       dTable = m.table /\ dMagic = m.magic /\ dMap = m.map /\ dFbt = m.fbt
  /\ table = AllFree /\ ck = NoCk
  /\ cmd = "none" /\ test = FALSE /\ rm = {}
  /\ pc = "idle" /\ old = NoOld

(* GetFirstWBFS() opens the partition: every used slot is valid. *)
Start(c, t, m) ==
  /\ cmd = "none"
  /\ cmd' = c /\ test' = t /\ rm' = m
  /\ table' = [s \in Slots |-> IF dTable[s] THEN "used" ELSE "free"]
  /\ pc' = IF c = "repair" THEN "check" ELSE "recover"
  /\ old' = medium
  /\ UNCHANGED <<dTable, dMagic, dMap, dFbt, ck>>

(* cmd_check(): RepairWBFS() is called if CheckWBFS() reports an error. *)
Check ==
  /\ pc = "check"
  /\ ck' = Checked /\ table' = CheckedTable
  /\ pc' = IF Checked.err THEN "drop" ELSE "done"
  /\ UNCHANGED <<dTable, dMagic, dMap, dFbt, cmd, test, rm, old>>

(* The discs that the repair mode removes. *)
Faulty ==
  UNION {IF "RM_INVALID" \in rm THEN ck.invalid ELSE {},
         IF "RM_OVERLAP" \in rm THEN ck.overlap ELSE {},
         IF "RM_FREE"    \in rm THEN ck.free    ELSE {},
         IF "RM_EMPTY"   \in rm THEN ck.empty   ELSE {}}

Dropped == {s \in Faulty : table[s] # "free"}

(* After RepairWBFS(): REPAIR is through, RECOVER syncs in any case. *)
AfterRepair == IF cmd = "repair" THEN "done" ELSE "final"

(* RepairWBFS() in memory.  The counts in ck still include the references   *)
(* of the discs it removes.                                                 *)
Drop ==
  /\ pc = "drop"
  /\ table' = IF test THEN table
              ELSE [s \in Slots |-> IF s \in Faulty THEN "free" ELSE table[s]]
  /\ pc' = IF test THEN "done"
           ELSE IF "FBT" \in rm /\ dFbt # GoodFbt THEN "fbt"
           ELSE IF Dropped # {} THEN "sync" ELSE AfterRepair
  /\ UNCHANGED <<dTable, dMagic, dMap, dFbt, ck, cmd, test, rm, old>>

(* WriteAtF() of the free blocks table. *)
WriteFbt ==
  /\ pc = "fbt"
  /\ dFbt' = GoodFbt
  /\ pc' = "sync"
  /\ UNCHANGED <<dTable, dMagic, dMap, table, ck, cmd, test, rm, old>>

WriteTable == dTable' = [s \in Slots |-> table[s] # "free"]

(* wbfs_sync() of RepairWBFS(): nobody marked the counters dirty, the disc  *)
(* table is all it writes.                                                  *)
Sync ==
  /\ pc = "sync"
  /\ WriteTable
  /\ pc' = AfterRepair
  /\ UNCHANGED <<dMagic, dMap, dFbt, table, ck, cmd, test, rm, old>>

(* RecoverWBFS(): empty slots become used in memory. *)
Recover ==
  /\ pc = "recover"
  /\ table' = [s \in Slots |-> IF table[s] = "free" THEN "user" ELSE "used"]
  /\ pc' = IF \E s \in Slots : table[s] = "free" /\ dMagic[s] = "deleted"
           THEN "magic" ELSE "expose"
  /\ UNCHANGED <<dTable, dMagic, dMap, dFbt, ck, cmd, test, rm, old>>

(* The inodes are written with the magic of deleted discs restored. *)
RestoreMagic ==
  /\ pc = "magic"
  /\ dMagic' = [s \in Slots |-> IF table[s] = "user" /\ dMagic[s] = "deleted"
                                THEN "disc" ELSE dMagic[s]]
  /\ pc' = "expose"
  /\ UNCHANGED <<dTable, dMap, dFbt, table, ck, cmd, test, rm, old>>

(* The forced sync writes the disc table.  p->freeblks has been cleared,    *)
(* but without used_block_dirty the table on the medium stays as it is.     *)
Expose ==
  /\ pc = "expose"
  /\ WriteTable
  /\ pc' = "silent"
  /\ UNCHANGED <<dMagic, dMap, dFbt, table, ck, cmd, test, rm, old>>

(* The silent check; without an error nothing else happens. *)
SilentCheck ==
  /\ pc = "silent"
  /\ ck' = Checked /\ table' = CheckedTable
  /\ pc' = IF Checked.err THEN "select" ELSE IF test THEN "undo" ELSE "done"
  /\ UNCHANGED <<dTable, dMagic, dMap, dFbt, cmd, test, rm, old>>

CollidedAlone == {s \in Slots : table[s] = "user" /\ s \in ck.empty \cup ck.invalid}

Collided == {s \in Slots : table[s] = "user" /\ s \in ck.empty \cup ck.overlap \cup ck.invalid}

(* Faulty recovered discs are dropped, the others become ordinary discs;    *)
(* RepairWBFS() follows, after a sync and a second check if any was dropped.*)
Select ==
  /\ pc = "select"
  /\ table' = [s \in Slots |-> IF s \in Collided \/ table[s] = "free"
                                THEN "free" ELSE "used"]
  /\ rm' = {"FBT", "RM_INVALID", "RM_EMPTY"}
  /\ pc' = IF test THEN "undo" ELSE IF Collided # {} THEN "resync" ELSE "drop"
  /\ UNCHANGED <<dTable, dMagic, dMap, dFbt, ck, cmd, test, old>>

Resync ==
  /\ pc = "resync"
  /\ WriteTable
  /\ pc' = "recheck"
  /\ UNCHANGED <<dMagic, dMap, dFbt, table, ck, cmd, test, rm, old>>

Recheck ==
  /\ pc = "recheck"
  /\ ck' = Checked /\ table' = CheckedTable
  /\ pc' = "drop"
  /\ UNCHANGED <<dTable, dMagic, dMap, dFbt, cmd, test, rm, old>>

(* The forced sync at the end of RECOVER; the check after it only reports. *)
FinalSync ==
  /\ pc = "final"
  /\ WriteTable
  /\ pc' = "done"
  /\ UNCHANGED <<dMagic, dMap, dFbt, table, ck, cmd, test, rm, old>>

(* RECOVER --test writes the first WBFS sector back.  The inodes in that    *)
(* buffer are those with the restored magic.  ReloadWBFS() follows.         *)
Undo ==
  /\ pc = "undo"
  /\ dTable' = old.table
  /\ table' = [s \in Slots |-> IF old.table[s] THEN "used" ELSE "free"]
  /\ pc' = "done"
  /\ UNCHANGED <<dMagic, dMap, dFbt, ck, cmd, test, rm, old>>

Forget ==
  /\ table' = AllFree /\ ck' = NoCk
  /\ cmd' = "none" /\ test' = FALSE /\ rm' = {}
  /\ pc' = "idle" /\ old' = NoOld
  /\ UNCHANGED <<dTable, dMagic, dMap, dFbt>>

Finish == pc = "done" /\ Forget

(* The process is killed or the power fails. *)
Crash == cmd # "none" /\ pc # "done" /\ Forget

Next ==
  \/ \E t \in BOOLEAN : \/ "recover" \in Commands /\ Start("recover", t, {})
                        \/ "repair" \in Commands /\ \E m \in Modes : Start("repair", t, m)
  \/ Check \/ Drop \/ WriteFbt \/ Sync
  \/ Recover \/ RestoreMagic \/ Expose \/ SilentCheck \/ Select
  \/ Resync \/ Recheck \/ FinalSync \/ Undo
  \/ Finish \/ Crash

Spec == Init /\ [][Next]_vars

-----------------------------------------------------------------------------
(* What a reader of medium m sees, in terms of m alone. *)
ListedOn(m) == {s \in Slots : m.table[s] /\ m.magic[s] = "disc"}

RefsOn(m, s) == {m.map[s][i] : i \in Idx} \ {0}

SharedOn(m, s) ==
  \/ \E i, j \in Idx : i # j /\ m.map[s][i] \in Blocks /\ m.map[s][i] = m.map[s][j]
  \/ \E t \in ListedOn(m) \ {s} : RefsOn(m, s) \cap RefsOn(m, t) \cap Blocks # {}

Sound(m, s) == RefsOn(m, s) # {} /\ RefsOn(m, s) \subseteq Blocks

Healthy(m, s) ==
  /\ s \in ListedOn(m)
  /\ Sound(m, s) /\ ~SharedOn(m, s) /\ RefsOn(m, s) \cap m.fbt = {}

UnusedOn(m) == Blocks \ UNION {RefsOn(m, s) : s \in ListedOn(m)}

(* A disc without any fault is there whatever REPAIR or RECOVER does to the *)
(* others, at every step, so also if the command is interrupted.            *)
HealthyDiscsStay ==
  cmd # "none" => \A s \in Slots : Healthy(old, s) => s \in ListedOn(medium)

(* The free blocks table that RepairWBFS() writes before it writes the disc *)
(* table frees no block of a disc that the medium lists at that moment.     *)
FbtWriteSafe ==
  [][dFbt' # dFbt =>
       \A s \in ListedOn(medium) : RefsOn(medium, s) \cap dFbt' = {}]_vars

(* REPAIR with all RM modes leaves no disc with a fault.                    *)
RepairDropsFaulty ==
  pc = "done" /\ cmd = "repair" /\ ~test /\ RmAll \subseteq rm =>
    \A s \in ListedOn(medium) : Healthy(medium, s)

(* After a REPAIR of the free blocks table the blocks marked used are those *)
(* of the discs that were listed before: exact, but for the blocks of discs *)
(* that this very repair has removed.  So a second full repair finds nothing*)
(* to remove and leaves an exact table.                                     *)
RepairConverges ==
  pc = "done" /\ cmd = "repair" /\ ~test /\ "FBT" \in rm => dFbt = UnusedOn(old)

(* A disc that RECOVER brought back has blocks, all of them valid and none  *)
(* of them shared with any other disc.                                      *)
RecoveredDiscsDisjoint ==
  pc = "done" /\ cmd = "recover" =>
    \A s \in ListedOn(medium) \ ListedOn(old) :
      Sound(medium, s) /\ ~SharedOn(medium, s)

(* Once its silent check has found an error (only then Select gives it a    *)
(* repair mode), RECOVER leaves no slot marked used that was free before    *)
(* and holds no disc.                                                       *)
RecoverDropsInvalid ==
  pc = "done" /\ cmd = "recover" /\ ~test /\ rm # {} =>
    \A s \in Slots : dTable[s] /\ ~old.table[s] => dMagic[s] = "disc"
=============================================================================
