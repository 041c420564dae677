-------------------------------- MODULE Wfuse --------------------------------
(***************************************************************************)
(* wfuse.c: a FUSE server that shows the discs of a WBFS.  libfuse runs the *)
(* callbacks in several threads; they share one mutex and dfile[], a cache  *)
(* of open discs.  A step is one access to shared state; what a thread does *)
(* while it holds the mutex is one step, reading apart.  What the reads of  *)
(* one disc do to its file is the subject of SharedFile.                    *)
(***************************************************************************)
EXTENDS Integers, FiniteSets

CONSTANTS
  Threads,
  Slots,         \* slots of the WBFS with a disc
  NoSlot,
  NoThread,      \* the mutex is not held
  MaxFiles,      \* MAX_DISC_FILES
  GoodFiles,     \* GOOD_DISC_FILES
  Timeout1,      \* DISC_FILES_TIMEOUT1, in seconds
  Timeout2       \* DISC_FILES_TIMEOUT2

Entries == 0 .. MaxFiles - 1

ASSUME WfuseAssumption ==
  /\ IsFiniteSet(Threads) /\ NoThread \notin Threads
  /\ NoSlot \notin Slots
  /\ MaxFiles \in Nat \ {0} /\ GoodFiles \in Nat
  /\ Timeout1 \in Nat /\ Timeout2 \in Nat /\ Timeout1 <= Timeout2

VARIABLES
  mutex,     \* the thread that holds the mutex
  nFile,     \* n_dfile
  slot,      \* dfile[e].slot, NoSlot if the entry is not used
  locks,     \* dfile[e].lock_count
  age,       \* time(0) - dfile[e].timestamp, up to what no timeout reaches
  fst,       \* how often dfile[e].fst was set since the disc was opened
  pc,        \* what thread t does next
  want,      \* the disc thread t is asked for
  kind,      \* what it is asked for, see Request
  ent        \* the entry it works with

cache == <<nFile, slot, locks, age, fst>>
vars  == <<mutex, nFile, slot, locks, age, fst, pc, want, kind, ent>>

MaxAge == Timeout2 + 1

-----------------------------------------------------------------------------
Used(e) == slot[e] # NoSlot

IsFirst(e, S) == e \in S /\ \A x \in S : e <= x

Idle == {e \in Entries : Used(e) /\ locks[e] = 0}

ToCloseAny ==
  {e \in Entries : Used(e) /\ age[e] > Timeout1}

ToCloseOld ==
  LET timeout == IF nFile < GoodFiles THEN Timeout1 ELSE Timeout2
  IN  {e \in Idle : age[e] > timeout}

(* The idle discs that get_disc_file() closes: those not used for a while,  *)
(* and the first one if all entries are taken.                              *)
ToClose ==
  LET timeout == IF nFile < GoodFiles THEN Timeout1 ELSE Timeout2
  IN  {e \in Idle : age[e] > timeout \/ (nFile = MaxFiles /\ IsFirst(e, Idle))}

(* f after memset(): the entries of ToClose are zero. *)
Cleared(f, zero) == [e \in Entries |-> IF e \in ToClose THEN zero ELSE f[e]]

(* Entries that are free once the idle ones are closed. *)
Free == {e \in Entries : ~Used(e)} \cup ToClose

Missing(t) == \A e \in Entries : slot[e] # want[t]

Goto(t, label) == pc' = [pc EXCEPT ![t] = label]

Unlock(t) == mutex = t /\ mutex' = NoThread

(* What follows when the disc is found or opened, and when its FST is there.*)
AfterGet(t) == IF kind[t] = "disc" THEN "read" ELSE "fst"
AfterFst(t) == IF kind[t] = "file" THEN "file" ELSE "free"

-----------------------------------------------------------------------------
Init ==
  /\ mutex = NoThread /\ nFile = 0
  /\ slot = [e \in Entries |-> NoSlot]
  /\ locks = [e \in Entries |-> 0]
  /\ age = [e \in Entries |-> 0]
  /\ fst = [e \in Entries |-> 0]
  /\ pc = [t \in Threads |-> "idle"]
  /\ want = [t \in Threads |-> NoSlot]
  /\ kind = [t \in Threads |-> "none"]
  /\ ent = [t \in Threads |-> 0]

(* One second passes. *)
Tick ==
  /\ \E e \in Entries : Used(e) /\ age[e] < MaxAge
  /\ age' = [e \in Entries |-> IF Used(e) /\ age[e] < MaxAge THEN age[e] + 1 ELSE age[e]]
  /\ UNCHANGED <<mutex, nFile, slot, locks, fst, pc, want, kind, ent>>

(* A callback for a path below /wbfs/slot: attributes or a directory of a   *)
(* partition ("list"), a file of a partition ("file") or the image itself   *)
(* ("disc").                                                                *)
Request(t) ==
  /\ pc[t] = "idle"
  /\ \E s \in Slots, k \in {"list", "file", "disc"} :
       want' = [want EXCEPT ![t] = s] /\ kind' = [kind EXCEPT ![t] = k]
  /\ Goto(t, "get")
  /\ UNCHANGED <<mutex, cache, ent>>

(* lock_mutex(), in each of the four functions that call it. *)
Lock(t) ==
  /\ pc[t] \in {"get", "build", "file", "free"}
  /\ mutex = NoThread /\ mutex' = t
  /\ UNCHANGED <<cache, pc, want, kind, ent>>

FindDiscUnlocked(t) ==
  /\ pc[t] = "get" /\ Unlock(t)
  /\ \E e \in Entries : slot[e] = want[t] /\ ent' = [ent EXCEPT ![t] = e]
  /\ Goto(t, AfterGet(t))
  /\ UNCHANGED <<cache, want, kind>>

(* get_disc_file() finds the disc open. *)
FindDisc(t) ==
  /\ pc[t] = "get" /\ Unlock(t)
  /\ \E e \in Entries :
       /\ slot[e] = want[t]
       /\ locks' = [locks EXCEPT ![e] = @ + 1]
       /\ ent' = [ent EXCEPT ![t] = e]
  /\ Goto(t, AfterGet(t))
  /\ UNCHANGED <<nFile, slot, age, fst, want, kind>>

(* get_disc_file() closes idle discs and opens the missing one, whose entry *)
(* has no time stamp yet.                                                   *)
OpenDisc(t) ==
  /\ pc[t] = "get" /\ Unlock(t) /\ Missing(t)
  /\ \E e \in Entries :
       /\ IsFirst(e, Free)
       /\ slot' = [Cleared(slot, NoSlot) EXCEPT ![e] = want[t]]
       /\ locks' = [locks EXCEPT ![e] = 1]
       /\ age' = [Cleared(age, 0) EXCEPT ![e] = MaxAge]
       /\ ent' = [ent EXCEPT ![t] = e]
  /\ fst' = Cleared(fst, 0)
  /\ nFile' = nFile - Cardinality(ToClose) + 1
  /\ Goto(t, AfterGet(t))
  /\ UNCHANGED <<want, kind>>

RefuseLocked(t) ==
  /\ pc[t] = "get" /\ mutex = t /\ Missing(t)
  /\ slot' = Cleared(slot, NoSlot) /\ age' = Cleared(age, 0) /\ fst' = Cleared(fst, 0)
  /\ nFile' = nFile - Cardinality(ToClose)
  /\ want' = [want EXCEPT ![t] = NoSlot] /\ kind' = [kind EXCEPT ![t] = "none"]
  /\ Goto(t, "idle")
  /\ UNCHANGED <<mutex, locks, ent>>

(* No entry is free, or the disc cannot be opened: the callback fails. *)
Refuse(t) ==
  /\ pc[t] = "get" /\ Unlock(t) /\ Missing(t)
  /\ slot' = Cleared(slot, NoSlot) /\ age' = Cleared(age, 0) /\ fst' = Cleared(fst, 0)
  /\ nFile' = nFile - Cardinality(ToClose)
  /\ want' = [want EXCEPT ![t] = NoSlot] /\ kind' = [kind EXCEPT ![t] = "none"]
  /\ Goto(t, "idle")
  /\ UNCHANGED <<locks, ent>>

(* get_fst() looks at the pointer without the mutex. *)
SeeFst(t) ==
  /\ pc[t] = "fst"
  /\ Goto(t, IF fst[ent[t]] > 0 THEN AfterFst(t) ELSE "build")
  /\ UNCHANGED <<mutex, cache, want, kind, ent>>

BuildFstBlindly(t) ==
  /\ pc[t] = "build" /\ Unlock(t)
  /\ fst' = [fst EXCEPT ![ent[t]] = @ + 1]
  /\ Goto(t, AfterFst(t))
  /\ UNCHANGED <<nFile, slot, locks, age, want, kind, ent>>

(* get_fst() looks again under the mutex and builds the FST if it must. *)
BuildFst(t) ==
  /\ pc[t] = "build" /\ Unlock(t)
  /\ fst' = IF fst[ent[t]] > 0 THEN fst ELSE [fst EXCEPT ![ent[t]] = @ + 1]
  /\ Goto(t, AfterFst(t))
  /\ UNCHANGED <<nFile, slot, locks, age, want, kind, ent>>

ReadFileUnlocked(t) ==
  /\ pc[t] = "file" /\ Unlock(t)
  /\ Goto(t, "read")
  /\ UNCHANGED <<cache, want, kind, ent>>

(* wfuse_read_iso() calls ReadFileFST() and keeps the mutex meanwhile. *)
ReadFile(t) ==
  /\ pc[t] = "file" /\ mutex = t
  /\ Goto(t, "read")
  /\ UNCHANGED <<mutex, cache, want, kind, ent>>

(* The data is there, or the read has failed. *)
ReadEnd(t) ==
  /\ pc[t] = "read"
  /\ IF kind[t] = "file" THEN Unlock(t) ELSE UNCHANGED mutex
  /\ Goto(t, "free")
  /\ UNCHANGED <<cache, want, kind, ent>>

(* free_disc_file(), and the callback returns. *)
FreeDisc(t) ==
  /\ pc[t] = "free" /\ Unlock(t)
  /\ locks' = [locks EXCEPT ![ent[t]] = @ - 1]
  /\ age' = [age EXCEPT ![ent[t]] = 0]
  /\ want' = [want EXCEPT ![t] = NoSlot] /\ kind' = [kind EXCEPT ![t] = "none"]
  /\ ent' = [ent EXCEPT ![t] = 0]
  /\ Goto(t, "idle")
  /\ UNCHANGED <<nFile, slot, fst>>

Callback(t) ==
  \/ Lock(t) \/ FindDisc(t) \/ OpenDisc(t) \/ Refuse(t)
  \/ SeeFst(t) \/ BuildFst(t) \/ ReadFile(t) \/ ReadEnd(t)
  \/ FreeDisc(t)

Next == Tick \/ \E t \in Threads : Request(t) \/ Callback(t)

Spec == Init /\ [][Next]_vars

-----------------------------------------------------------------------------
(* nFile never exceeds the array, ages and labels stay in their ranges. *)
TypeOK ==
  /\ mutex \in Threads \cup {NoThread}
  /\ nFile \in 0 .. MaxFiles
  /\ slot \in [Entries -> Slots \cup {NoSlot}]
  /\ locks \in [Entries -> Nat]
  /\ age \in [Entries -> 0 .. MaxAge]
  /\ fst \in [Entries -> Nat]
  /\ pc \in [Threads -> {"idle", "get", "fst", "build", "file", "read", "free"}]
  /\ want \in [Threads -> Slots \cup {NoSlot}]
  /\ kind \in [Threads -> {"none", "list", "file", "disc"}]
  /\ ent \in [Threads -> Entries]

(* Thread t is between get_disc_file() and free_disc_file() of entry e. *)
Uses(t, e) == pc[t] \notin {"idle", "get"} /\ ent[t] = e

(* Nobody closes a disc, or gives its entry to another one, while a callback*)
(* works with it, although most of the work is done without the mutex.      *)
NoCloseInUse ==
  [][\A t \in Threads, e \in Entries : Uses(t, e) => slot'[e] = slot[e]]_vars

(* One lock per callback, n_dfile counts the open discs, and no disc is     *)
(* open twice, however many callbacks ask for it at the same time.          *)
CacheConsistent ==
  /\ \A e \in Entries : locks[e] = Cardinality({t \in Threads : Uses(t, e)})
  /\ nFile = Cardinality({e \in Entries : Used(e)})
  /\ \A e, f \in Entries : Used(e) /\ slot[e] = slot[f] => e = f

(* The files of an open disc are collected once, whoever asks first: later  *)
(* callbacks keep pointers into that list without any lock.                 *)
OneFst == \A e \in Entries : fst[e] <= 1

(* Reads of partition files exclude each other: they share the decryption   *)
(* buffer of the disc.                                                      *)
FileReadsExclusive ==
  \A t, u \in Threads :
    /\ pc[t] = "read" /\ kind[t] = "file"
    /\ pc[u] = "read" /\ kind[u] = "file"
    => t = u

(* get_disc_file() makes room by closing an idle disc: if it gives up while *)
(* all entries are taken, other callbacks hold every one of them.           *)
RoomIfIdle ==
  [][\A t \in Threads :
       pc[t] = "get" /\ pc'[t] = "idle" /\ (\A e \in Entries : slot'[e] # NoSlot)
         => \A e \in Entries : \E u \in Threads \ {t} : Uses(u, e)]_vars

(* The mutex is held by a callback that is about to release it, never by    *)
(* one that has returned: every path out of a critical section unlocks.     *)
MutexInside ==
  \A t \in Threads : mutex = t =>
    \/ pc[t] \in {"get", "build", "file", "free"}
    \/ pc[t] = "read" /\ kind[t] = "file"

-----------------------------------------------------------------------------
(* The inductive invariant behind NoCloseInUse and CacheConsistent.         *)
Users(e) == {t \in Threads : Uses(t, e)}

(* Every callback works with the disc it was asked for. *)
RightDisc == \A t \in Threads, e \in Entries : Uses(t, e) => slot[e] = want[t]

WantInv == \A t \in Threads : pc[t] # "idle" => want[t] \in Slots

(* Entries that are not used have no lock. *)
FreeInv == \A e \in Entries : ~Used(e) => locks[e] = 0

IInv == TypeOK /\ WantInv /\ RightDisc /\ FreeInv /\ CacheConsistent
=============================================================================
