----------------------------- MODULE WfuseProofs -----------------------------
(***************************************************************************)
(* Theorems about Wfuse, for any number of threads, discs and entries.      *)
(***************************************************************************)
EXTENDS Wfuse, FiniteSetTheorems, WellFoundedInduction, TLAPS

Labels == {"idle", "get", "fst", "build", "file", "read", "free"}
Kinds == {"none", "list", "file", "disc"}

-----------------------------------------------------------------------------
(* Counting *)

LEMMA SomeThreads ==
  ASSUME NEW S \in SUBSET Threads
  PROVE  IsFiniteSet(S) /\ Cardinality(S) \in Nat
BY FS_Subset, FS_CardinalityType, WfuseAssumption

LEMMA AllEntries == IsFiniteSet(Entries) /\ Cardinality(Entries) = MaxFiles
BY FS_Interval, WfuseAssumption DEF Entries

LEMMA SomeEntries ==
  ASSUME NEW S \in SUBSET Entries
  PROVE  IsFiniteSet(S) /\ Cardinality(S) \in 0 .. MaxFiles
<1>1. IsFiniteSet(S) /\ Cardinality(S) <= MaxFiles
  BY AllEntries, FS_Subset
<1> QED
  BY <1>1, FS_CardinalityType, WfuseAssumption

(* An entry without locks has no users, and one that is used has a lock. *)
LEMMA LockMeansUser ==
  ASSUME CacheConsistent, NEW e \in Entries
  PROVE  /\ locks[e] = 0 => \A t \in Threads : ~Uses(t, e)
         /\ (\A t \in Threads : ~Uses(t, e)) => locks[e] = 0
         /\ locks[e] \in Nat
<1> DEFINE U == {t \in Threads : Uses(t, e)}
<1>1. locks[e] = Cardinality(U) /\ IsFiniteSet(U) /\ Cardinality(U) \in Nat
  BY SomeThreads DEF CacheConsistent
<1>2. Cardinality(U) = 0 <=> U = {}
  BY <1>1, FS_EmptySet
<1> QED
  BY <1>1, <1>2

(* What get_disc_file() closes is used by nobody. *)
LEMMA ClosedUnused ==
  ASSUME CacheConsistent, NEW e \in ToClose
  PROVE  /\ e \in Entries /\ Used(e) /\ locks[e] = 0
         /\ \A t \in Threads : ~Uses(t, e)
<1>1. e \in Entries /\ Used(e) /\ locks[e] = 0
  BY DEF ToClose, Idle
<1> QED
  BY <1>1, LockMeansUser

(* The same holds for every entry that is given to a disc. *)
LEMMA FreeUnused ==
  ASSUME CacheConsistent, FreeInv, NEW e \in Free
  PROVE  e \in Entries /\ \A t \in Threads : ~Uses(t, e)
<1>1. CASE e \in ToClose
  BY <1>1, ClosedUnused
<1>2. CASE e \notin ToClose
  <2>1. e \in Entries /\ ~Used(e)
    BY <1>2 DEF Free
  <2>2. locks[e] = 0
    BY <2>1 DEF FreeInv
  <2> QED
    BY <2>1, <2>2, LockMeansUser
<1> QED
  BY <1>1, <1>2

-----------------------------------------------------------------------------
(* Types *)

LEMMA InitInv == Init => IInv
<1> SUFFICES ASSUME Init
             PROVE  IInv
  OBVIOUS
<1> USE DEF Init
<1>1. 0 \in Entries /\ 0 \in 0 .. MaxAge /\ 0 \in 0 .. MaxFiles
  BY WfuseAssumption DEF Entries, MaxAge
<1>2. TypeOK
  BY <1>1 DEF TypeOK
<1>3. WantInv /\ RightDisc /\ FreeInv
  BY DEF WantInv, RightDisc, FreeInv, Uses
<1>4. \A e \in Entries : {t \in Threads : Uses(t, e)} = {}
  BY DEF Uses
<1>5. {e \in Entries : Used(e)} = {}
  BY DEF Used
<1>6. CacheConsistent
  BY <1>4, <1>5, FS_EmptySet DEF CacheConsistent, Used
<1> QED
  BY <1>2, <1>3, <1>6 DEF IInv

(* Every action keeps the types, if it keeps the count of open discs. *)
LEMMA Typing ==
  ASSUME IInv, [Next]_vars, nFile' \in 0 .. MaxFiles
  PROVE  TypeOK'
<1> USE DEF IInv, TypeOK, Goto, cache
<1>1. CASE UNCHANGED vars
  BY <1>1 DEF vars
<1>2. CASE Tick
  BY <1>2, WfuseAssumption DEF Tick, MaxAge
<1>3. ASSUME NEW t \in Threads, Request(t)
      PROVE  TypeOK'
  BY <1>3 DEF Request
<1>4. ASSUME NEW t \in Threads, Lock(t)
      PROVE  TypeOK'
  BY <1>4 DEF Lock
<1>5. ASSUME NEW t \in Threads, FindDisc(t)
      PROVE  TypeOK'
  BY <1>5 DEF FindDisc, Unlock, AfterGet
<1>6. ASSUME NEW t \in Threads, OpenDisc(t)
      PROVE  TypeOK'
  <2>1. PICK e \in Entries :
          /\ slot' = [Cleared(slot, NoSlot) EXCEPT ![e] = want[t]]
          /\ locks' = [locks EXCEPT ![e] = 1]
          /\ age' = [Cleared(age, 0) EXCEPT ![e] = MaxAge]
          /\ ent' = [ent EXCEPT ![t] = e]
    BY <1>6 DEF OpenDisc, IsFirst, Free
  <2>2. slot' \in [Entries -> Slots \cup {NoSlot}]
    BY <2>1 DEF Cleared
  <2>3. age' \in [Entries -> 0 .. MaxAge]
    BY <2>1, WfuseAssumption DEF Cleared, MaxAge
  <2>4. fst' \in [Entries -> Nat]
    BY <1>6 DEF OpenDisc, Cleared
  <2> QED
    BY <1>6, <2>1, <2>2, <2>3, <2>4 DEF OpenDisc, Unlock, AfterGet
<1>7. ASSUME NEW t \in Threads, Refuse(t)
      PROVE  TypeOK'
  <2>1. slot' \in [Entries -> Slots \cup {NoSlot}] /\ fst' \in [Entries -> Nat]
    BY <1>7 DEF Refuse, Cleared
  <2>2. age' \in [Entries -> 0 .. MaxAge]
    BY <1>7, WfuseAssumption DEF Refuse, Cleared, MaxAge
  <2> QED
    BY <1>7, <2>1, <2>2 DEF Refuse, Unlock
<1>8. ASSUME NEW t \in Threads, SeeFst(t) \/ BuildFst(t)
      PROVE  TypeOK'
  BY <1>8 DEF SeeFst, BuildFst, Unlock, AfterFst
<1>9. ASSUME NEW t \in Threads, ReadFile(t) \/ ReadEnd(t)
      PROVE  TypeOK'
  BY <1>9 DEF ReadFile, ReadEnd, Unlock
<1>10. ASSUME NEW t \in Threads, FreeDisc(t)
       PROVE  TypeOK'
  <2>1. Uses(t, ent[t]) /\ ent[t] \in Entries
    BY <1>10 DEF FreeDisc, Uses
  <2>2. locks[ent[t]] - 1 \in Nat
    BY <2>1, LockMeansUser
  <2>3. 0 \in Entries /\ 0 \in 0 .. MaxAge
    BY WfuseAssumption DEF Entries, MaxAge
  <2> QED
    BY <1>10, <2>2, <2>3 DEF FreeDisc, Unlock
<1> QED
  BY <1>1, <1>2, <1>3, <1>4, <1>5, <1>6, <1>7, <1>8, <1>9, <1>10 DEF Next, Callback

-----------------------------------------------------------------------------
(* The cache *)

Core == WantInv /\ RightDisc /\ FreeInv /\ CacheConsistent

(* A step that opens and closes no disc, and after which the same callbacks *)
(* use the same entries, cannot disturb the cache.                          *)
LEMMA QuietStep ==
  ASSUME IInv, UNCHANGED <<nFile, slot, locks>>,
         \A u \in Threads, e \in Entries : Uses(u, e)' <=> Uses(u, e),
         \A u \in Threads, e \in Entries : Uses(u, e) => want'[u] = want[u],
         WantInv'
  PROVE  Core'
<1> USE DEF IInv
<1>1. RightDisc'
  BY DEF RightDisc
<1>2. FreeInv'
  BY DEF FreeInv, Used
<1>3. \A e \in Entries : {u \in Threads : Uses(u, e)}' = {u \in Threads : Uses(u, e)}
  OBVIOUS
<1>4. \A e \in Entries : Used(e)' <=> Used(e)
  BY DEF Used
<1>5. {e \in Entries : Used(e)}' = {e \in Entries : Used(e)}
  BY <1>4
<1>6. CacheConsistent'
  BY <1>3, <1>4, <1>5 DEF CacheConsistent
<1> QED
  BY <1>1, <1>2, <1>6 DEF Core

(* get_disc_file() adds one user to the entry it finds. *)
LEMMA FindStep ==
  ASSUME IInv, NEW t \in Threads, FindDisc(t)
  PROVE  Core'
<1> USE DEF IInv, TypeOK
<1>1. PICK e \in Entries :
        /\ slot[e] = want[t]
        /\ locks' = [locks EXCEPT ![e] = @ + 1]
        /\ ent' = [ent EXCEPT ![t] = e]
  BY DEF FindDisc
<1>2. /\ pc[t] = "get" /\ pc'[t] \notin {"idle", "get"}
      /\ \A u \in Threads \ {t} : pc'[u] = pc[u]
      /\ UNCHANGED <<nFile, slot, want>>
  BY DEF FindDisc, Goto, AfterGet
<1>3. \A u \in Threads, f \in Entries :
        Uses(u, f)' <=> Uses(u, f) \/ (u = t /\ f = e)
  BY <1>1, <1>2 DEF Uses
<1>4. WantInv' /\ RightDisc'
  BY <1>1, <1>2, <1>3 DEF WantInv, RightDisc
<1>5. Used(e)
  BY <1>1, <1>2, WfuseAssumption DEF WantInv, Used
<1>6. FreeInv'
  BY <1>1, <1>2, <1>5 DEF FreeInv, Used
<1>7. \A f \in Entries : locks'[f] = Cardinality({u \in Threads : Uses(u, f)'})
  <2> SUFFICES ASSUME NEW f \in Entries
               PROVE  locks'[f] = Cardinality({u \in Threads : Uses(u, f)'})
    OBVIOUS
  <2> DEFINE U == {u \in Threads : Uses(u, f)}
  <2>1. IsFiniteSet(U) /\ locks[f] = Cardinality(U)
    BY SomeThreads DEF CacheConsistent
  <2>2. CASE f = e
    <3>1. {u \in Threads : Uses(u, f)'} = U \cup {t}
      BY <1>3, <2>2
    <3>2. t \notin U
      BY <1>2 DEF Uses
    <3>3. Cardinality(U \cup {t}) = Cardinality(U) + 1
      BY <2>1, <3>2, FS_AddElement
    <3>4. locks'[f] = locks[f] + 1
      BY <1>1, <2>2
    <3> QED
      BY <2>1, <3>1, <3>3, <3>4
  <2>3. CASE f # e
    <3>1. {u \in Threads : Uses(u, f)'} = U
      BY <1>3, <2>3
    <3> QED
      BY <1>1, <2>1, <2>3, <3>1
  <2> QED
    BY <2>2, <2>3
<1>8. {f \in Entries : Used(f)'} = {f \in Entries : Used(f)}
  BY <1>2 DEF Used
<1>9. CacheConsistent'
  BY <1>2, <1>7, <1>8 DEF CacheConsistent, Used
<1> QED
  BY <1>4, <1>6, <1>9 DEF Core

(* free_disc_file() takes it away again. *)
LEMMA FreeStep ==
  ASSUME IInv, NEW t \in Threads, FreeDisc(t)
  PROVE  Core'
<1> USE DEF IInv, TypeOK
<1> DEFINE e == ent[t]
<1>1. /\ pc[t] = "free" /\ pc'[t] = "idle" /\ e \in Entries
      /\ locks' = [locks EXCEPT ![e] = @ - 1]
      /\ \A u \in Threads \ {t} : pc'[u] = pc[u] /\ ent'[u] = ent[u] /\ want'[u] = want[u]
      /\ UNCHANGED <<nFile, slot>>
  BY DEF FreeDisc, Goto
<1>2. Uses(t, e)
  BY <1>1 DEF Uses
<1>3. \A u \in Threads, f \in Entries :
        Uses(u, f)' <=> Uses(u, f) /\ u # t
  BY <1>1 DEF Uses
<1>4. WantInv' /\ RightDisc'
  BY <1>1, <1>3 DEF WantInv, RightDisc
<1>5. Used(e)
  BY <1>1, <1>2, WfuseAssumption DEF RightDisc, WantInv, Used
<1>6. FreeInv'
  BY <1>1, <1>5 DEF FreeInv, Used
<1>7. \A f \in Entries : locks'[f] = Cardinality({u \in Threads : Uses(u, f)'})
  <2> SUFFICES ASSUME NEW f \in Entries
               PROVE  locks'[f] = Cardinality({u \in Threads : Uses(u, f)'})
    OBVIOUS
  <2> DEFINE U == {u \in Threads : Uses(u, f)}
  <2>1. IsFiniteSet(U) /\ locks[f] = Cardinality(U)
    BY SomeThreads DEF CacheConsistent
  <2>2. {u \in Threads : Uses(u, f)'} = U \ {t}
    BY <1>3
  <2>3. Cardinality(U \ {t}) = IF t \in U THEN Cardinality(U) - 1 ELSE Cardinality(U)
    BY <2>1, FS_RemoveElement
  <2>4. t \in U <=> f = e
    BY <1>1, <1>2 DEF Uses
  <2> QED
    BY <1>1, <2>1, <2>2, <2>3, <2>4
<1>8. {f \in Entries : Used(f)'} = {f \in Entries : Used(f)}
  BY <1>1 DEF Used
<1>9. CacheConsistent'
  BY <1>1, <1>7, <1>8 DEF CacheConsistent, Used
<1> QED
  BY <1>4, <1>6, <1>9 DEF Core

(* get_disc_file() gives a free entry to the disc, once it has closed idle  *)
(* ones.                                                                    *)
LEMMA OpenStep ==
  ASSUME IInv, NEW t \in Threads, OpenDisc(t)
  PROVE  Core'
<1> USE DEF IInv, TypeOK
<1> DEFINE Open == {f \in Entries : Used(f)}
<1>1. PICK e \in Entries :
        /\ IsFirst(e, Free)
        /\ slot' = [Cleared(slot, NoSlot) EXCEPT ![e] = want[t]]
        /\ locks' = [locks EXCEPT ![e] = 1]
        /\ ent' = [ent EXCEPT ![t] = e]
  BY DEF OpenDisc, IsFirst, Free
<1>2. /\ pc[t] = "get" /\ pc'[t] \notin {"idle", "get"}
      /\ \A u \in Threads \ {t} : pc'[u] = pc[u]
      /\ nFile' = nFile - Cardinality(ToClose) + 1
      /\ UNCHANGED want
      /\ Missing(t)
  BY DEF OpenDisc, Goto, AfterGet
<1>3. want[t] \in Slots
  BY <1>2 DEF WantInv
<1>4. \A u \in Threads : ~Uses(u, e)
  BY <1>1, FreeUnused DEF IsFirst
<1>5. ToClose \subseteq Entries /\ \A f \in ToClose : Used(f) /\ locks[f] = 0
  BY DEF ToClose, Idle
<1>6. \A f \in ToClose, u \in Threads : ~Uses(u, f)
  BY ClosedUnused
<1>7. slot'[e] = want[t]
      /\ \A f \in Entries \ {e} : slot'[f] = IF f \in ToClose THEN NoSlot ELSE slot[f]
  BY <1>1 DEF Cleared
<1>8. \A u \in Threads, f \in Entries :
        Uses(u, f)' <=> Uses(u, f) \/ (u = t /\ f = e)
  BY <1>1, <1>2 DEF Uses
<1>9. WantInv'
  BY <1>2 DEF WantInv
<1>10. RightDisc'
  <2> SUFFICES ASSUME NEW u \in Threads, NEW f \in Entries, Uses(u, f)'
               PROVE  slot'[f] = want'[u]
    BY DEF RightDisc
  <2>1. CASE Uses(u, f)
    BY <2>1, <1>2, <1>4, <1>6, <1>7 DEF RightDisc
  <2>2. CASE u = t /\ f = e
    BY <2>2, <1>2, <1>7
  <2> QED
    BY <1>8, <2>1, <2>2
<1>11. \A f \in Entries : Used(f)' <=> f = e \/ (Used(f) /\ f \notin ToClose)
  BY <1>3, <1>7, WfuseAssumption DEF Used
<1>12. FreeInv'
  <2> SUFFICES ASSUME NEW f \in Entries, ~Used(f)'
               PROVE  locks'[f] = 0
    BY DEF FreeInv
  <2>1. f # e /\ locks'[f] = locks[f]
    BY <1>1, <1>11
  <2> QED
    BY <2>1, <1>5, <1>11 DEF FreeInv
<1>13. \A f \in Entries : locks'[f] = Cardinality({u \in Threads : Uses(u, f)'})
  <2> SUFFICES ASSUME NEW f \in Entries
               PROVE  locks'[f] = Cardinality({u \in Threads : Uses(u, f)'})
    OBVIOUS
  <2>1. CASE f = e
    <3>1. {u \in Threads : Uses(u, f)'} = {t}
      BY <2>1, <1>4, <1>8
    <3> QED
      BY <3>1, <2>1, <1>1, FS_Singleton
  <2>2. CASE f # e
    <3>1. {u \in Threads : Uses(u, f)'} = {u \in Threads : Uses(u, f)}
      BY <2>2, <1>8
    <3> QED
      BY <3>1, <2>2, <1>1 DEF CacheConsistent
  <2> QED
    BY <2>1, <2>2
<1>14. nFile' = Cardinality({f \in Entries : Used(f)'})
  <2>1. e \notin Open \ ToClose
    BY <1>1 DEF IsFirst, Free
  <2>2. {f \in Entries : Used(f)'} = (Open \ ToClose) \cup {e}
    BY <1>11
  <2>3. Open \cap ToClose = ToClose
    BY <1>5
  <2>4. /\ IsFiniteSet(Open) /\ nFile = Cardinality(Open)
        /\ Cardinality(Open) \in Nat /\ Cardinality(ToClose) \in Nat
    BY SomeEntries, <1>5, WfuseAssumption DEF CacheConsistent
  <2>5. /\ IsFiniteSet(Open \ ToClose)
        /\ Cardinality(Open \ ToClose) = Cardinality(Open) - Cardinality(ToClose)
    BY <2>3, <2>4, FS_Difference
  <2>6. Cardinality((Open \ ToClose) \cup {e}) = Cardinality(Open \ ToClose) + 1
    BY <2>1, <2>5, FS_AddElement
  <2> QED
    BY <2>2, <2>4, <2>5, <2>6, <1>2
<1>15. \A f, g \in Entries : Used(f)' /\ slot'[f] = slot'[g] => f = g
  <2> SUFFICES ASSUME NEW f \in Entries, NEW g \in Entries,
                      Used(f)', slot'[f] = slot'[g]
               PROVE  f = g
    OBVIOUS
  <2>1. Used(g)'
    BY DEF Used
  <2>2. CASE f # e /\ g # e
    BY <2>1, <2>2, <1>7, <1>11 DEF CacheConsistent
  <2>3. CASE f = e /\ g # e
    BY <2>1, <2>3, <1>2, <1>7, <1>11 DEF Missing
  <2>4. CASE f # e /\ g = e
    BY <2>4, <1>2, <1>7, <1>11 DEF Missing
  <2> QED
    BY <2>2, <2>3, <2>4
<1>16. CacheConsistent'
  BY <1>13, <1>14, <1>15 DEF CacheConsistent
<1> QED
  BY <1>9, <1>10, <1>12, <1>16 DEF Core

(* A callback that is refused has closed idle discs, and nothing else.      *)
LEMMA RefuseStep ==
  ASSUME IInv, NEW t \in Threads, Refuse(t)
  PROVE  Core'
<1> USE DEF IInv, TypeOK
<1> DEFINE Open == {f \in Entries : Used(f)}
<1>1. /\ pc[t] = "get" /\ pc'[t] = "idle"
      /\ \A u \in Threads \ {t} : pc'[u] = pc[u] /\ want'[u] = want[u]
      /\ slot' = Cleared(slot, NoSlot)
      /\ nFile' = nFile - Cardinality(ToClose)
      /\ UNCHANGED <<locks, ent>>
  BY DEF Refuse, Goto
<1>2. ToClose \subseteq Entries /\ \A f \in ToClose : Used(f) /\ locks[f] = 0
  BY DEF ToClose, Idle
<1>3. \A f \in ToClose, u \in Threads : ~Uses(u, f)
  BY ClosedUnused
<1>4. \A f \in Entries : slot'[f] = IF f \in ToClose THEN NoSlot ELSE slot[f]
  BY <1>1 DEF Cleared
<1>5. \A u \in Threads, f \in Entries : Uses(u, f)' <=> Uses(u, f)
  BY <1>1 DEF Uses
<1>6. WantInv' /\ RightDisc'
  <2>1. WantInv'
    BY <1>1 DEF WantInv
  <2>2. \A u \in Threads, f \in Entries : Uses(u, f) => u # t
    BY <1>1 DEF Uses
  <2>3. RightDisc'
    BY <2>2, <1>1, <1>3, <1>4, <1>5 DEF RightDisc
  <2> QED
    BY <2>1, <2>3
<1>7. \A f \in Entries : Used(f)' <=> Used(f) /\ f \notin ToClose
  BY <1>4 DEF Used
<1>8. FreeInv'
  BY <1>1, <1>2, <1>7 DEF FreeInv
<1>9. \A f \in Entries : locks'[f] = Cardinality({u \in Threads : Uses(u, f)'})
  <2>1. \A f \in Entries : {u \in Threads : Uses(u, f)'} = {u \in Threads : Uses(u, f)}
    BY <1>5
  <2> QED
    BY <2>1, <1>1 DEF CacheConsistent
<1>10. nFile' = Cardinality({f \in Entries : Used(f)'})
  <2>1. {f \in Entries : Used(f)'} = Open \ ToClose
    BY <1>7
  <2>2. Open \cap ToClose = ToClose
    BY <1>2
  <2>3. IsFiniteSet(Open) /\ nFile = Cardinality(Open)
    BY SomeEntries DEF CacheConsistent
  <2>4. Cardinality(Open \ ToClose) = Cardinality(Open) - Cardinality(ToClose)
    BY <2>2, <2>3, FS_Difference
  <2> QED
    BY <2>1, <2>3, <2>4, <1>1
<1>11. \A f, g \in Entries : Used(f)' /\ slot'[f] = slot'[g] => f = g
  BY <1>4, <1>7 DEF CacheConsistent, Used
<1>12. CacheConsistent'
  BY <1>9, <1>10, <1>11 DEF CacheConsistent
<1> QED
  BY <1>6, <1>8, <1>12 DEF Core

LEMMA CoreStep ==
  ASSUME IInv, [Next]_vars
  PROVE  Core'
<1> USE DEF IInv, TypeOK, Goto, cache, Uses, WantInv
<1>1. CASE UNCHANGED vars
  BY <1>1, QuietStep DEF vars
<1>2. CASE Tick
  BY <1>2, QuietStep DEF Tick
<1>3. ASSUME NEW t \in Threads, Request(t)
      PROVE  Core'
  BY <1>3, QuietStep DEF Request
<1>4. ASSUME NEW t \in Threads, Lock(t)
      PROVE  Core'
  BY <1>4, QuietStep DEF Lock
<1>5. ASSUME NEW t \in Threads, SeeFst(t) \/ BuildFst(t)
      PROVE  Core'
  BY <1>5, QuietStep DEF SeeFst, BuildFst, AfterFst
<1>6. ASSUME NEW t \in Threads, ReadFile(t) \/ ReadEnd(t)
      PROVE  Core'
  BY <1>6, QuietStep DEF ReadFile, ReadEnd
<1> QED
  BY <1>1, <1>2, <1>3, <1>4, <1>5, <1>6, FindStep, OpenStep, RefuseStep, FreeStep
     DEF Next, Callback

LEMMA StepInv == IInv /\ [Next]_vars => IInv'
<1> SUFFICES ASSUME IInv, [Next]_vars
             PROVE  IInv'
  OBVIOUS
<1>1. Core'
  BY CoreStep
<1>2. nFile' = Cardinality({e \in Entries : Used(e)'})
  BY <1>1 DEF Core, CacheConsistent
<1>3. nFile' \in 0 .. MaxFiles
  BY <1>2, SomeEntries
<1>4. TypeOK'
  BY <1>3, Typing
<1> QED
  BY <1>1, <1>4 DEF IInv, Core

-----------------------------------------------------------------------------
(* Every variable of the server keeps its type; in particular n_dfile never *)
(* exceeds dfile[], however many callbacks run.                             *)
THEOREM TypeCorrect == Spec => []TypeOK
<1>1. IInv => TypeOK
  BY DEF IInv
<1> QED
  BY <1>1, InitInv, StepInv, PTL DEF Spec

(* Locks count callbacks, n_dfile counts open discs, and no disc is open    *)
(* twice, for any number of threads, discs and entries.                     *)
THEOREM CacheCorrect == Spec => []CacheConsistent
<1>1. IInv => CacheConsistent
  BY DEF IInv
<1> QED
  BY <1>1, InitInv, StepInv, PTL DEF Spec

(* get_disc_file() never closes a disc that a callback works with.          *)
THEOREM UsedStaysOpen == Spec => NoCloseInUse
<1> DEFINE Kept == \A t \in Threads, e \in Entries : Uses(t, e) => slot'[e] = slot[e]
<1>1. ASSUME IInv, [Next]_vars
      PROVE  [Kept]_vars
  <2> USE <1>1 DEF IInv, cache
  <2>1. ASSUME NEW t \in Threads, OpenDisc(t)
        PROVE  Kept
    <3>1. PICK e \in Free : slot' = [Cleared(slot, NoSlot) EXCEPT ![e] = want[t]]
      BY <2>1 DEF OpenDisc, IsFirst
    <3>2. \A u \in Threads : ~Uses(u, e)
      BY <3>1, FreeUnused
    <3> QED
      BY <3>1, <3>2, ClosedUnused DEF Cleared, TypeOK
  <2>2. ASSUME NEW t \in Threads, Refuse(t)
        PROVE  Kept
    BY <2>2, ClosedUnused DEF Refuse, Cleared
  <2>3. CASE UNCHANGED slot
    BY <2>3
  <2> QED
    BY <1>1, <2>1, <2>2, <2>3
       DEF Next, Callback, vars, Tick, Request, Lock, FindDisc, SeeFst, BuildFst,
           ReadFile, ReadEnd, FreeDisc
<1> QED
  BY <1>1, InitInv, StepInv, PTL DEF Spec, NoCloseInUse

-----------------------------------------------------------------------------
(* Room *)

LEMMA FirstEntry ==
  ASSUME NEW S \in SUBSET Entries, S # {}
  PROVE  \E e \in S : IsFirst(e, S)
<1>1. S \subseteq Nat
  BY DEF Entries
<1>2. PICK e \in S : \A x \in S : <<x, e>> \notin OpToRel(<, Nat)
  BY <1>1, NatLessThanWellFounded, WFMin
<1>3. \A x \in S : ~(x < e)
  BY <1>1, <1>2 DEF OpToRel
<1> QED
  BY <1>1, <1>3 DEF IsFirst

(* If get_disc_file() gives up although dfile[] has no free entry left,     *)
(* other callbacks use every disc in it: no idle disc is ever in the way.   *)
THEOREM RoomForIdle == Spec => RoomIfIdle
<1> DEFINE Room ==
      \A t \in Threads :
        pc[t] = "get" /\ pc'[t] = "idle" /\ (\A e \in Entries : slot'[e] # NoSlot)
          => \A e \in Entries : \E u \in Threads \ {t} : Uses(u, e)
<1>1. ASSUME IInv, [Next]_vars
      PROVE  [Room]_vars
  <2> USE <1>1 DEF IInv, TypeOK
  <2> SUFFICES ASSUME NEW t \in Threads, pc[t] = "get", pc'[t] = "idle",
                      \A e \in Entries : slot'[e] # NoSlot,
                      NEW e \in Entries
               PROVE  \E u \in Threads \ {t} : Uses(u, e)
    OBVIOUS
  <2>1. Refuse(t)
    <3> SUFFICES ASSUME ~Refuse(t)
                 PROVE  pc'[t] # "idle"
      OBVIOUS
    <3>1. ASSUME NEW u \in Threads, Request(u) \/ Lock(u) \/ SeeFst(u) \/ BuildFst(u)
                   \/ ReadFile(u) \/ ReadEnd(u) \/ FreeDisc(u)
          PROVE  pc'[t] = "get"
      BY <3>1 DEF Request, Lock, SeeFst, BuildFst, ReadFile, ReadEnd, FreeDisc, Goto
    <3>2. ASSUME NEW u \in Threads, FindDisc(u) \/ OpenDisc(u) \/ Refuse(u)
          PROVE  pc'[t] # "idle"
      BY <3>2 DEF FindDisc, OpenDisc, Refuse, Goto, AfterGet
    <3>3. CASE Tick \/ UNCHANGED vars
      BY <3>3 DEF Tick, vars
    <3> QED
      BY <3>1, <3>2, <3>3 DEF Next, Callback
  <2>2. \A f \in Entries : f \notin ToClose /\ Used(f)
    BY <2>1 DEF Refuse, Cleared, Used
  <2>3. nFile = MaxFiles
    <3>1. {f \in Entries : Used(f)} = Entries
      BY <2>2
    <3> QED
      BY <3>1, AllEntries DEF CacheConsistent
  <2>4. Idle = {}
    <3> SUFFICES ASSUME Idle # {}
                 PROVE  FALSE
      OBVIOUS
    <3>1. PICK f \in Idle : IsFirst(f, Idle)
      BY FirstEntry DEF Idle
    <3>2. f \in ToClose /\ f \in Entries
      BY <2>3, <3>1 DEF ToClose, Idle
    <3> QED
      BY <2>2, <3>2
  <2>5. locks[e] # 0
    BY <2>2, <2>4 DEF Idle
  <2>6. PICK u \in Threads : Uses(u, e)
    BY <2>5, LockMeansUser
  <2>7. u # t
    BY <2>6 DEF Uses
  <2> QED
    BY <2>6, <2>7
<1> QED
  BY <1>1, InitInv, StepInv, PTL DEF Spec, RoomIfIdle

-----------------------------------------------------------------------------
(* The mutex *)

(* The mutex is held at these steps only, and always by a reader of a file. *)
MutexInv ==
  /\ MutexInside
  /\ \A t \in Threads :
       /\ pc[t] = "file" => kind[t] = "file"
       /\ pc[t] = "read" /\ kind[t] = "file" => mutex = t

LEMMA MutexStep == TypeOK /\ MutexInv /\ [Next]_vars => MutexInv'
<1> SUFFICES ASSUME TypeOK, MutexInv, [Next]_vars
             PROVE  MutexInv'
  OBVIOUS
<1> USE WfuseAssumption DEF TypeOK, MutexInv, MutexInside, Goto
<1>1. CASE UNCHANGED vars
  BY <1>1 DEF vars
<1>2. CASE Tick
  BY <1>2 DEF Tick
<1>3. ASSUME NEW t \in Threads, Request(t) \/ Lock(t)
      PROVE  MutexInv'
  BY <1>3 DEF Request, Lock
<1>4. ASSUME NEW t \in Threads, FindDisc(t) \/ OpenDisc(t)
      PROVE  MutexInv'
  BY <1>4 DEF FindDisc, OpenDisc, Unlock, AfterGet
<1>5. ASSUME NEW t \in Threads, Refuse(t) \/ FreeDisc(t)
      PROVE  MutexInv'
  BY <1>5 DEF Refuse, FreeDisc, Unlock
<1>6. ASSUME NEW t \in Threads, SeeFst(t) \/ BuildFst(t)
      PROVE  MutexInv'
  BY <1>6 DEF SeeFst, BuildFst, Unlock, AfterFst
<1>7. ASSUME NEW t \in Threads, ReadFile(t) \/ ReadEnd(t)
      PROVE  MutexInv'
  BY <1>7 DEF ReadFile, ReadEnd, Unlock
<1> QED
  BY <1>1, <1>2, <1>3, <1>4, <1>5, <1>6, <1>7 DEF Next, Callback

LEMMA MutexInit == Init => MutexInv
BY WfuseAssumption DEF Init, MutexInv, MutexInside

(* Every path out of a critical section unlocks the mutex.                  *)
THEOREM MutexReleased == Spec => []MutexInside
<1>1. MutexInv => MutexInside
  BY DEF MutexInv
<1> QED
  BY <1>1, TypeCorrect, MutexInit, MutexStep, PTL DEF Spec

(* Reads of partition files exclude each other.                             *)
THEOREM FileReadsSerial == Spec => []FileReadsExclusive
<1>1. MutexInv => FileReadsExclusive
  BY DEF MutexInv, FileReadsExclusive
<1> QED
  BY <1>1, TypeCorrect, MutexInit, MutexStep, PTL DEF Spec

-----------------------------------------------------------------------------
(* The list of files *)

LEMMA FstStep == TypeOK /\ OneFst /\ [Next]_vars => OneFst'
<1> SUFFICES ASSUME TypeOK, OneFst, [Next]_vars
             PROVE  OneFst'
  OBVIOUS
<1> USE DEF TypeOK, OneFst, cache
<1>1. CASE UNCHANGED fst
  BY <1>1
<1>2. ASSUME NEW t \in Threads, BuildFst(t)
      PROVE  OneFst'
  BY <1>2 DEF BuildFst
<1>3. ASSUME NEW t \in Threads, OpenDisc(t) \/ Refuse(t)
      PROVE  OneFst'
  BY <1>3 DEF OpenDisc, Refuse, Cleared
<1> QED
  BY <1>1, <1>2, <1>3
     DEF Next, Callback, vars, Tick, Request, Lock, FindDisc, SeeFst, ReadFile,
         ReadEnd, FreeDisc

(* The double-checked pointer of get_fst() builds one list per open disc.   *)
THEOREM FstBuiltOnce == Spec => []OneFst
<1>1. Init => OneFst
  BY DEF Init, OneFst
<1> QED
  BY <1>1, TypeCorrect, FstStep, PTL DEF Spec
=============================================================================
