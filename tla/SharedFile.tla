----------------------------- MODULE SharedFile -----------------------------
(***************************************************************************)
(* Threads of wfuse that read one open disc: XReadAtF() of lib-file.c, on a *)
(* file that is open for reading only, not split and not cached.  The       *)
(* position of the file exists in the kernel, in f->file_off and in         *)
(* f->cur_off, and all threads share the three.  ReadFileFST() is called    *)
(* under the mutex of wfuse, ReadSF() for /disc.iso is not.                 *)
(***************************************************************************)
EXTENDS Integers

CONSTANTS
  Threads,
  NoThread,   \* the mutex is not held
  FileSize    \* in units that a read moves the file by

ASSUME SharedFileAssumption == NoThread \notin Threads /\ FileSize \in Nat

Offsets == 0 .. FileSize - 1

VARIABLES
  mutex,     \* the thread that holds the mutex
  pos,       \* position of the file in the kernel
  fileOff,   \* f->file_off: where lib-file.c believes it to be
  curOff,    \* f->cur_off
  pc,        \* what thread t does next
  off,       \* the offset thread t is asked for
  isDisc,    \* is it asked for /disc.iso?
  aim,       \* the offset XSeekF() is called with
  got,       \* the data thread t has read: the offset they came from
  spoiled    \* history: reads have overlapped, one of them of /disc.iso,
             \* or a seek has failed

file == <<pos, fileOff, curOff>>
vars == <<mutex, pos, fileOff, curOff, pc, off, isDisc, aim, got, spoiled>>

NoData == -1

Reading(t) == pc[t] \notin {"idle", "lock"}

Goto(t, label) == pc' = [pc EXCEPT ![t] = label]

(* History: thread t begins to read. *)
Overlap(t) ==
  spoiled' = (spoiled \/ \E u \in Threads \ {t} : Reading(u) /\ (isDisc'[t] \/ isDisc[u]))

Init ==
  /\ mutex = NoThread
  /\ pos = 0 /\ fileOff = 0 /\ curOff = 0
  /\ pc = [t \in Threads |-> "idle"]
  /\ off = [t \in Threads |-> 0]
  /\ isDisc = [t \in Threads |-> FALSE]
  /\ aim = [t \in Threads |-> 0]
  /\ got = [t \in Threads |-> NoData]
  /\ spoiled = FALSE

(* wfuse_read_iso(), AP_ISO_DISC: ReadSF() without the mutex. *)
ReadDisc(t) ==
  /\ pc[t] = "idle"
  /\ \E o \in Offsets : off' = [off EXCEPT ![t] = o] /\ aim' = [aim EXCEPT ![t] = o]
  /\ isDisc' = [isDisc EXCEPT ![t] = TRUE]
  /\ Overlap(t)
  /\ Goto(t, "seek")
  /\ UNCHANGED <<mutex, file, got>>

(* wfuse_read_iso(), AP_ISO_PART: ReadFileFST() under the mutex. *)
ReadFile(t) ==
  /\ pc[t] = "idle"
  /\ \E o \in Offsets : off' = [off EXCEPT ![t] = o] /\ aim' = [aim EXCEPT ![t] = o]
  /\ Goto(t, "lock")
  /\ UNCHANGED <<mutex, file, isDisc, got, spoiled>>

Lock(t) ==
  /\ pc[t] = "lock"
  /\ mutex = NoThread /\ mutex' = t
  /\ UNCHANGED isDisc /\ Overlap(t)
  /\ Goto(t, "seek")
  /\ UNCHANGED <<file, off, aim, got>>

(* XSeekF(): no system call "if we are already at off".  "reseek" and its   *)
(* successors belong to the call in XReadF().                               *)
Seek(t) ==
  /\ pc[t] \in {"seek", "reseek"}
  /\ curOff' = fileOff
  /\ \/ aim[t] = fileOff /\ Goto(t, IF pc[t] = "seek" THEN "check" ELSE "read")
     \/ aim[t] # fileOff /\ Goto(t, IF pc[t] = "seek" THEN "lseek" ELSE "relseek")
  /\ UNCHANGED <<mutex, pos, fileOff, off, isDisc, aim, got, spoiled>>

Lseek(t) ==
  /\ pc[t] \in {"lseek", "relseek"} /\ aim[t] \in 0 .. FileSize
  /\ pos' = aim[t]
  /\ Goto(t, IF pc[t] = "lseek" THEN "tell" ELSE "retell")
  /\ UNCHANGED <<mutex, fileOff, curOff, off, isDisc, aim, got, spoiled>>

(* lseek() fails: file_off becomes -1, which the assignment after it, see   *)
(* Tell, replaces by off again.                                             *)
LseekError(t) ==
  /\ pc[t] \in {"lseek", "relseek"}
  /\ fileOff' = aim[t] /\ curOff' = aim[t]
  /\ spoiled' = TRUE
  /\ Goto(t, "done")
  /\ UNCHANGED <<mutex, pos, off, isDisc, aim, got>>

(* "f->cur_off = f->file_off = off" *)
Tell(t) ==
  /\ pc[t] \in {"tell", "retell"}
  /\ fileOff' = aim[t] /\ curOff' = aim[t]
  /\ Goto(t, IF pc[t] = "tell" THEN "check" ELSE "read")
  /\ UNCHANGED <<mutex, pos, off, isDisc, aim, got, spoiled>>

(* XReadF() seeks again if cur_off and file_off differ. *)
Check(t) ==
  /\ pc[t] = "check"
  /\ aim' = [aim EXCEPT ![t] = curOff]
  /\ Goto(t, IF curOff # fileOff THEN "reseek" ELSE "read")
  /\ UNCHANGED <<mutex, file, off, isDisc, got, spoiled>>

(* read() *)
Read(t) ==
  /\ pc[t] = "read" /\ pos < FileSize
  /\ got' = [got EXCEPT ![t] = pos]
  /\ pos' = pos + 1
  /\ Goto(t, "count")
  /\ UNCHANGED <<mutex, fileOff, curOff, off, isDisc, aim, spoiled>>

ReadErrorKept(t) ==
  /\ pc[t] = "read"
  /\ pos' \in {pos, pos + 1} \cap (0 .. FileSize)
  /\ Goto(t, "done")
  /\ UNCHANGED <<mutex, fileOff, curOff, off, isDisc, aim, got, spoiled>>

(* read() fails or meets the end of the file, perhaps after a part of the   *)
(* data: both offsets become -1.                                            *)
ReadError(t) ==
  /\ pc[t] = "read"
  /\ pos' \in {pos, pos + 1} \cap (0 .. FileSize)
  /\ fileOff' = -1 /\ curOff' = -1
  /\ Goto(t, "done")
  /\ UNCHANGED <<mutex, off, isDisc, aim, got, spoiled>>

(* XReadF() adds what was read to file_off ... *)
Count(t) ==
  /\ pc[t] = "count"
  /\ fileOff' = fileOff + 1
  /\ Goto(t, "settle")
  /\ UNCHANGED <<mutex, pos, curOff, off, isDisc, aim, got, spoiled>>

(* ... and copies file_off to cur_off. *)
Settle(t) ==
  /\ pc[t] = "settle"
  /\ curOff' = fileOff
  /\ Goto(t, "done")
  /\ UNCHANGED <<mutex, pos, fileOff, off, isDisc, aim, got, spoiled>>

(* The callback returns what it has read. *)
Return(t) ==
  /\ pc[t] = "done"
  /\ mutex' = IF isDisc[t] THEN mutex ELSE NoThread
  /\ Goto(t, "idle")
  /\ off' = [off EXCEPT ![t] = 0] /\ aim' = [aim EXCEPT ![t] = 0]
  /\ isDisc' = [isDisc EXCEPT ![t] = FALSE]
  /\ got' = [got EXCEPT ![t] = NoData]
  /\ UNCHANGED <<file, spoiled>>

Next ==
  \E t \in Threads :
    \/ ReadDisc(t) \/ ReadFile(t) \/ Lock(t)
    \/ Seek(t) \/ Lseek(t) \/ LseekError(t) \/ Tell(t)
    \/ Check(t) \/ Read(t) \/ ReadError(t) \/ Count(t) \/ Settle(t)
    \/ Return(t)

Spec == Init /\ [][Next]_vars

-----------------------------------------------------------------------------
(* Nobody reads behind the end of the file; offsets are -1 after an error.  *)
TypeOK ==
  /\ mutex \in Threads \cup {NoThread}
  /\ pos \in 0 .. FileSize
  /\ fileOff \in Nat \cup {-1} /\ curOff \in Nat \cup {-1}
  /\ pc \in [Threads -> {"idle", "lock", "seek", "lseek", "tell", "check", "reseek",
                         "relseek", "retell", "read", "count", "settle", "done"}]
  /\ off \in [Threads -> Nat]
  /\ isDisc \in [Threads -> BOOLEAN]
  /\ aim \in [Threads -> Nat \cup {-1}]
  /\ got \in [Threads -> Nat \cup {NoData}]
  /\ spoiled \in BOOLEAN

(* Whatever order callbacks come in and whichever reads fail, a read gets   *)
(* the data of its offset, as long as no read of /disc.iso has overlapped   *)
(* another read of the disc and no seek has failed.                         *)
ReadsRight ==
  ~spoiled => \A t \in Threads : got[t] \in {NoData, off[t]}

-----------------------------------------------------------------------------
(* The inductive invariant behind ReadsRight: readers of partition files    *)
(* hold the mutex, hence nobody overlaps anybody unless spoiled says so, and*)
(* then a single reader keeps file_off equal to the position of the kernel. *)
LockInv ==
  /\ \A t \in Threads : ~Reading(t) => ~isDisc[t]
  /\ \A t \in Threads : Reading(t) /\ ~isDisc[t] => mutex = t

OneReader == \A t, u \in Threads : Reading(t) /\ Reading(u) => t = u

(* What the single reader knows at each of its steps. *)
PhaseInv(t) ==
  /\ pc[t] \in {"idle", "lock", "seek", "lseek", "tell", "check", "read"} => got[t] = NoData
  /\ pc[t] \in {"lock", "seek", "lseek", "tell", "check"} => aim[t] = off[t]
  /\ pc[t] = "tell" => pos = off[t]
  /\ pc[t] \in {"check", "read"} => pos = off[t] /\ fileOff = off[t] /\ curOff = off[t]
  /\ pc[t] = "count" => pos = fileOff + 1 /\ fileOff = off[t]
  /\ pc[t] \in {"count", "settle", "done"} => got[t] \in {NoData, off[t]}
  /\ pc[t] \notin {"reseek", "relseek", "retell"}

Tracked ==
  (\A t \in Threads : pc[t] \notin {"tell", "count"}) => fileOff \in {-1, pos}

IInv ==
  /\ TypeOK
  /\ LockInv
  /\ ~spoiled => OneReader /\ Tracked /\ \A t \in Threads : PhaseInv(t)
=============================================================================
