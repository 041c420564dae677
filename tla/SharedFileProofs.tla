-------------------------- MODULE SharedFileProofs --------------------------
(* Proofs about SharedFile, for any number of threads and any file size.    *)
EXTENDS SharedFile, TLAPS

USE SharedFileAssumption

LEMMA InitInv == Init => IInv
<1> SUFFICES ASSUME Init
             PROVE  IInv
  OBVIOUS
<1> USE DEF Init
<1>1. TypeOK
  <2>1. 0 \in 0 .. FileSize /\ 0 \in Nat /\ -1 \in Nat \cup {-1}
    OBVIOUS
  <2>2. aim \in [Threads -> Nat \cup {-1}] /\ got \in [Threads -> Nat \cup {NoData}]
    BY DEF NoData
  <2> QED
    BY <2>1, <2>2 DEF TypeOK
<1>2. LockInv /\ OneReader
  BY DEF LockInv, OneReader, Reading
<1>3. Tracked
  BY DEF Tracked
<1>4. \A t \in Threads : PhaseInv(t)
  BY DEF PhaseInv
<1> QED
  BY <1>1, <1>2, <1>3, <1>4 DEF IInv

(* Every action keeps the types. *)
LEMMA Typing == TypeOK /\ [Next]_vars => TypeOK'
<1> SUFFICES ASSUME TypeOK, [Next]_vars
             PROVE  TypeOK'
  OBVIOUS
<1> USE DEF TypeOK, Goto
<1>1. CASE UNCHANGED vars
  BY <1>1 DEF vars
<1>2. ASSUME NEW t \in Threads, ReadDisc(t) \/ ReadFile(t)
      PROVE  TypeOK'
  <2>1. PICK o \in Offsets : off' = [off EXCEPT ![t] = o] /\ aim' = [aim EXCEPT ![t] = o]
    BY <1>2 DEF ReadDisc, ReadFile
  <2>2. o \in Nat
    BY DEF Offsets
  <2>3. off' \in [Threads -> Nat] /\ aim' \in [Threads -> Nat \cup {-1}]
    BY <2>1, <2>2
  <2>4. isDisc' \in [Threads -> BOOLEAN] /\ spoiled' \in BOOLEAN
    BY <1>2 DEF ReadDisc, ReadFile, Overlap
  <2>5. UNCHANGED <<mutex, file, got>> /\ pc' \in [Threads -> {"idle", "lock", "seek",
          "lseek", "tell", "check", "reseek", "relseek", "retell", "read", "count",
          "settle", "done"}]
    BY <1>2 DEF ReadDisc, ReadFile
  <2> QED
    BY <2>3, <2>4, <2>5 DEF file
<1>6. ASSUME NEW t \in Threads, Lock(t)
      PROVE  TypeOK'
  BY <1>6 DEF Lock, Overlap, file
<1>3. ASSUME NEW t \in Threads, Seek(t) \/ Lseek(t) \/ LseekError(t) \/ Tell(t)
      PROVE  TypeOK'
  BY <1>3 DEF Seek, Lseek, LseekError, Tell
<1>4. ASSUME NEW t \in Threads, Check(t) \/ Read(t) \/ ReadError(t)
      PROVE  TypeOK'
  BY <1>4 DEF Check, Read, ReadError, file
<1>5. ASSUME NEW t \in Threads, Count(t) \/ Settle(t)
      PROVE  TypeOK'
  BY <1>5 DEF Count, Settle
<1>7. ASSUME NEW t \in Threads, Return(t)
      PROVE  TypeOK'
  <2>1. off' \in [Threads -> Nat] /\ aim' \in [Threads -> Nat \cup {-1}]
    BY <1>7 DEF Return
  <2>2. got' \in [Threads -> Nat \cup {NoData}] /\ isDisc' \in [Threads -> BOOLEAN]
    BY <1>7 DEF Return
  <2> QED
    BY <1>7, <2>1, <2>2 DEF Return, file
<1> QED
  BY <1>1, <1>2, <1>3, <1>4, <1>5, <1>6, <1>7 DEF Next

(* Who reads a partition file holds the mutex. *)
LEMMA Locking == TypeOK /\ LockInv /\ [Next]_vars => LockInv'
<1> SUFFICES ASSUME TypeOK, LockInv, [Next]_vars
             PROVE  LockInv'
  OBVIOUS
<1> USE DEF TypeOK, LockInv, Reading, Goto
<1>1. CASE UNCHANGED vars
  BY <1>1 DEF vars
<1>2. ASSUME NEW t \in Threads, ReadDisc(t) \/ ReadFile(t) \/ Lock(t)
      PROVE  LockInv'
  BY <1>2 DEF ReadDisc, ReadFile, Lock
<1>3. ASSUME NEW t \in Threads, Seek(t) \/ Lseek(t) \/ LseekError(t) \/ Tell(t)
      PROVE  LockInv'
  BY <1>3 DEF Seek, Lseek, LseekError, Tell
<1>4. ASSUME NEW t \in Threads,
             Check(t) \/ Read(t) \/ ReadError(t) \/ Count(t) \/ Settle(t)
      PROVE  LockInv'
  BY <1>4 DEF Check, Read, ReadError, Count, Settle
<1>5. ASSUME NEW t \in Threads, Return(t)
      PROVE  LockInv'
  BY <1>5 DEF Return
<1> QED
  BY <1>1, <1>2, <1>3, <1>4, <1>5 DEF Next

(* As long as nothing is spoiled, one thread reads at a time. *)
LEMMA Exclusion ==
  TypeOK /\ LockInv /\ (~spoiled => OneReader) /\ [Next]_vars /\ ~spoiled' => OneReader'
<1> SUFFICES ASSUME TypeOK, LockInv, ~spoiled => OneReader, [Next]_vars, ~spoiled'
             PROVE  OneReader'
  OBVIOUS
<1> USE DEF TypeOK, LockInv, OneReader, Reading, Goto
<1>1. CASE UNCHANGED vars
  BY <1>1 DEF vars
<1>2. ASSUME NEW t \in Threads, ReadDisc(t)
      PROVE  OneReader'
  <2>1. isDisc'[t] /\ pc' = [pc EXCEPT ![t] = "seek"]
    BY <1>2 DEF ReadDisc
  <2>2. \A u \in Threads \ {t} : ~Reading(u)
    BY <1>2, <2>1 DEF ReadDisc, Overlap
  <2> QED
    BY <2>1, <2>2
<1>3. ASSUME NEW t \in Threads, Lock(t)
      PROVE  OneReader'
  <2>1. pc' = [pc EXCEPT ![t] = "seek"] /\ mutex = NoThread
    BY <1>3 DEF Lock
  <2>2. \A u \in Threads \ {t} : ~Reading(u)
    <3> SUFFICES ASSUME NEW u \in Threads \ {t}, Reading(u)
                 PROVE  FALSE
      OBVIOUS
    <3>1. isDisc[u]
      BY <2>1
    <3> QED
      BY <1>3, <3>1 DEF Lock, Overlap
  <2> QED
    BY <2>1, <2>2
<1>4. ASSUME NEW t \in Threads, ReadFile(t) \/ Return(t) \/ LseekError(t)
      PROVE  OneReader'
  BY <1>4 DEF ReadFile, Return, LseekError
<1>5. ASSUME NEW t \in Threads, Seek(t) \/ Lseek(t) \/ Tell(t)
      PROVE  OneReader'
  BY <1>5 DEF Seek, Lseek, Tell
<1>6. ASSUME NEW t \in Threads,
             Check(t) \/ Read(t) \/ ReadError(t) \/ Count(t) \/ Settle(t)
      PROVE  OneReader'
  BY <1>6 DEF Check, Read, ReadError, Count, Settle
<1> QED
  BY <1>1, <1>2, <1>3, <1>4, <1>5, <1>6 DEF Next

(* The single reader knows where the file stands. *)
Serial == Tracked /\ \A t \in Threads : PhaseInv(t)

LEMMA Positions ==
  TypeOK /\ ~spoiled /\ OneReader /\ Serial /\ [Next]_vars /\ ~spoiled' => Serial'
<1> SUFFICES ASSUME TypeOK, ~spoiled, OneReader, Serial, [Next]_vars, ~spoiled'
             PROVE  Serial'
  OBVIOUS
<1> USE DEF TypeOK, OneReader, Serial, Tracked, PhaseInv, Reading, Goto, NoData, file
<1>1. CASE UNCHANGED vars
  BY <1>1 DEF vars
<1>2. ASSUME NEW t \in Threads, ReadDisc(t)
      PROVE  Serial'
  BY <1>2 DEF ReadDisc, Offsets
<1>3. ASSUME NEW t \in Threads, ReadFile(t)
      PROVE  Serial'
  BY <1>3 DEF ReadFile, Offsets
<1>4. ASSUME NEW t \in Threads, Lock(t)
      PROVE  Serial'
  BY <1>4 DEF Lock
<1>5. ASSUME NEW t \in Threads, Seek(t)
      PROVE  Serial'
  BY <1>5 DEF Seek
<1>6. ASSUME NEW t \in Threads, Lseek(t)
      PROVE  Serial'
  BY <1>6 DEF Lseek
<1>7. ASSUME NEW t \in Threads, Tell(t)
      PROVE  Serial'
  BY <1>7 DEF Tell
<1>8. ASSUME NEW t \in Threads, Check(t)
      PROVE  Serial'
  BY <1>8 DEF Check
<1>9. ASSUME NEW t \in Threads, Read(t)
      PROVE  Serial'
  BY <1>9 DEF Read
<1>10. ASSUME NEW t \in Threads, ReadError(t)
       PROVE  Serial'
  BY <1>10 DEF ReadError
<1>11. ASSUME NEW t \in Threads, Count(t)
       PROVE  Serial'
  BY <1>11 DEF Count
<1>12. ASSUME NEW t \in Threads, Settle(t)
       PROVE  Serial'
  BY <1>12 DEF Settle
<1>13. ASSUME NEW t \in Threads, Return(t)
       PROVE  Serial'
  BY <1>13 DEF Return
<1>14. ASSUME NEW t \in Threads, LseekError(t)
       PROVE  Serial'
  BY <1>14 DEF LseekError
<1> QED
  BY <1>1, <1>2, <1>3, <1>4, <1>5, <1>6, <1>7, <1>8, <1>9, <1>10, <1>11, <1>12,
     <1>13, <1>14 DEF Next

(* What is spoiled stays spoiled. *)
LEMMA SpoiledStays == [Next]_vars /\ spoiled => spoiled'
  BY DEF Next, vars, ReadDisc, ReadFile, Lock, Overlap, Seek, Lseek, LseekError, Tell,
         Check, Read, ReadError, Count, Settle, Return

LEMMA StepInv == IInv /\ [Next]_vars => IInv'
  BY Typing, Locking, Exclusion, Positions, SpoiledStays DEF IInv, Serial, TypeOK

(* Every variable of the shared file keeps its type. *)
THEOREM TypeCorrect == Spec => []TypeOK
<1>1. IInv => TypeOK
  BY DEF IInv
<1> QED
  BY <1>1, InitInv, StepInv, PTL DEF Spec

(* Reads are right for every number of threads and every size, until reads  *)
(* of /disc.iso overlap others or a seek fails.                             *)
THEOREM SerialReadsRight == Spec => []ReadsRight
<1>1. IInv => ReadsRight
  BY DEF IInv, PhaseInv, ReadsRight, TypeOK
<1> QED
  BY <1>1, InitInv, StepInv, PTL DEF Spec
=============================================================================
