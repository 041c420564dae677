-------------------------- MODULE HashCacheProofs --------------------------
(***************************************************************************)
(* Proofs about HashCache: what a skipped rebuild, a recorded hash and a    *)
(* complete run promise, for every directory and every number of runs.      *)
(***************************************************************************)
EXTENDS HashCache, FiniteSetTheorems, TLAPS

USE DEF disk, run, history

(* Between Load() and the end of a run.                                     *)
Reading == pc \in {"encode", "save", "keep", "build"}

(* The encode list holds items with an editable form only.                  *)
Work ==
  /\ pc # "idle" => \A i \in todo : text[i] # None
  /\ pc = "save" => cur \in todo
  /\ pc \in {"keep", "build", "write"} => todo = {}

Inv == TypeOK /\ Work

(* Types and the work list survive every step.                              *)
LEMMA InvNext ==
  ASSUME Inv, [Next]_vars
  PROVE  Inv'
<1> USE HashCacheAssumption DEF Inv, TypeOK, Work, File, Text
<1>1. ASSUME NEW i \in Items, NEW t \in Text,
            EditText(i, t)
     PROVE  Inv'
  BY <1>1 DEF EditText, Change
<1>2. ASSUME NEW m \in Members, NEW c \in Versions[m] \cup {None},
            EditMember(m, c)
     PROVE  Inv'
  <2>1. c \in File
    OBVIOUS
  <2> QED
    BY <1>2, <2>1 DEF EditMember, Change, Recorded
<1>3. ASSUME NEW F \in SUBSET Members, NEW T \in SUBSET Items,
            LoseLines(F, T)
     PROVE  Inv'
  BY <1>3 DEF LoseLines, Change
<1>4. CASE RemoveArchive
  BY <1>4 DEF RemoveArchive, Change, NoFiles
<1>5. ASSUME NEW c \in {"CREATE", "ENCODE"}, NEW te \in BOOLEAN, NEW al \in BOOLEAN,
            Load(c, te, al)
     PROVE  Inv'
  BY <1>5 DEF Load, NoFiles, NoTexts
<1>6. ASSUME NEW i \in Items,
            KeepBinary(i)
     PROVE  Inv'
  BY <1>6 DEF KeepBinary, Next1, Unchanged, EncodingNeeded
<1>7. ASSUME NEW i \in Items,
            RejectText(i)
     PROVE  Inv'
  BY <1>7 DEF RejectText, Next1, Unchanged, EncodingNeeded
<1>8. ASSUME NEW i \in Items,
            RecordOnly(i)
     PROVE  Inv'
  BY <1>8 DEF RecordOnly, Next1, Unchanged, EncodingNeeded
<1>9. ASSUME NEW i \in Items,
            RemoveBinary(i)
     PROVE  Inv'
  BY <1>9 DEF RemoveBinary, Next1, Unchanged, EncodingNeeded, Recorded
<1>10. CASE SaveBinary
  BY <1>10 DEF SaveBinary
<1>11. CASE ScanMembers
  BY <1>11 DEF ScanMembers, Hashed, NoFiles, SkipRebuild, Different
<1>12. CASE KeepArchive
  BY <1>12 DEF KeepArchive, Leave, SaveHashCache, NoFiles, NoTexts
<1>13. CASE BuildArchive
  <2>1. CASE pc' = "write"
    BY <1>13, <2>1 DEF BuildArchive, Leave, SaveHashCache, NoFiles, NoTexts
  <2>2. CASE pc' # "write"
    <3>1. Leave /\ UNCHANGED <<disk, history>>
      BY <1>13, <2>2 DEF BuildArchive
    <3> QED
      BY <3>1 DEF Leave, NoFiles, NoTexts
  <2> QED
    BY <2>1, <2>2
<1>14. CASE WriteArchive
  <2>1. dest' \in [Members -> File] /\ archive' \in {"ok", "torn", "absent"}
    BY <1>14 DEF WriteArchive, Writes, NoFiles
  <2>2. gap' \in BOOLEAN /\ lost' \in BOOLEAN /\ dirty' \in BOOLEAN
    BY <1>14 DEF WriteArchive
  <2> QED
    BY <1>14, <2>1, <2>2 DEF WriteArchive, Leave, NoFiles, NoTexts
<1>15. CASE CrashInRun
  <2>1. file' \in [Members -> File]
    BY <1>15 DEF CrashInRun
  <2> QED
    BY <1>15, <2>1 DEF CrashInRun, Die, Leave, NoFiles, NoTexts
<1>16. CASE CrashInSave
  BY <1>16 DEF CrashInSave, Die, Leave, NoFiles, NoTexts
<1>17. CASE CrashInWrite
  BY <1>17 DEF CrashInWrite, Writes, Die, Leave, NoFiles, NoTexts
<1>18. CASE UNCHANGED vars
  BY <1>18 DEF vars
<1> QED
  BY <1>1, <1>2, <1>3, <1>4, <1>5, <1>6, <1>7, <1>8, <1>9, <1>10,
     <1>11, <1>12, <1>13, <1>14, <1>15, <1>16, <1>17, <1>18 DEF Next, User, Run

-----------------------------------------------------------------------------
(* Edited members.  Before anything else, a run that has saved its cache    *)
(* holds gap until the archive is written.                                  *)

Lines(f) == \A m \in Members : f[m] # None => f[m] = dest[m]

EditInv ==
  /\ pc = "write" => gap
  /\ ~gap => archive # "torn"
  /\ ~gap /\ archive = "ok" => Lines(fcache)
  /\ ~gap /\ archive = "ok" /\ Reading => Lines(oldF)
  /\ pc = "keep" => /\ newF = file /\ archive # "absent"
                    /\ \A m \in Members : file[m] # None => oldF[m] = file[m]
  /\ pc = "build" /\ ~errs => newF = file
  /\ pc = "write" /\ ~errs => fcache = file

(* What the cache and the archive say about each other survives.            *)
LEMMA EditNext ==
  ASSUME Inv, EditInv, [Next]_vars
  PROVE  EditInv'
<1> USE HashCacheAssumption DEF EditInv, Lines, Reading, Inv, TypeOK, File, Text
<1>1. ASSUME NEW i \in Items, NEW t \in Text,
            EditText(i, t)
     PROVE  EditInv'
  BY <1>1 DEF EditText, Change
<1>2. ASSUME NEW m \in Members, NEW c \in Versions[m] \cup {None},
            EditMember(m, c)
     PROVE  EditInv'
  BY <1>2 DEF EditMember, Change, Recorded
<1>3. ASSUME NEW F \in SUBSET Members, NEW T \in SUBSET Items,
            LoseLines(F, T)
     PROVE  EditInv'
  BY <1>3 DEF LoseLines, Change
<1>4. CASE RemoveArchive
  BY <1>4 DEF RemoveArchive, Change, NoFiles
<1>5. ASSUME NEW c \in {"CREATE", "ENCODE"}, NEW te \in BOOLEAN, NEW al \in BOOLEAN,
            Load(c, te, al)
     PROVE  EditInv'
  BY <1>5 DEF Load, NoFiles, NoTexts
<1>6. ASSUME NEW i \in Items,
            KeepBinary(i)
     PROVE  EditInv'
  BY <1>6 DEF KeepBinary, Next1, Unchanged, EncodingNeeded
<1>7. ASSUME NEW i \in Items,
            RejectText(i)
     PROVE  EditInv'
  BY <1>7 DEF RejectText, Next1, Unchanged, EncodingNeeded
<1>8. ASSUME NEW i \in Items,
            RecordOnly(i)
     PROVE  EditInv'
  BY <1>8 DEF RecordOnly, Next1, Unchanged, EncodingNeeded
<1>9. ASSUME NEW i \in Items,
            RemoveBinary(i)
     PROVE  EditInv'
  BY <1>9 DEF RemoveBinary, Next1, Unchanged, EncodingNeeded, Recorded
<1>10. CASE SaveBinary
  BY <1>10 DEF SaveBinary
<1>11. CASE ScanMembers
  BY <1>11 DEF ScanMembers, Hashed, NoFiles, SkipRebuild, Different
<1>12. CASE KeepArchive
  BY <1>12 DEF KeepArchive, Leave, SaveHashCache, NoFiles, NoTexts
<1>13. CASE BuildArchive
  BY <1>13 DEF BuildArchive, Leave, SaveHashCache, NoFiles, NoTexts
<1>14. CASE WriteArchive
  BY <1>14 DEF WriteArchive, Writes, Leave, NoFiles, NoTexts
<1>15. CASE CrashInRun
  BY <1>15 DEF CrashInRun, Die, Leave, NoFiles, NoTexts
<1>16. CASE CrashInSave
  <2>1. CASE pc = "keep"
    <3>1. gap' = gap /\ UNCHANGED <<dest, archive>> /\ pc' = "idle"
      BY <1>16, <2>1 DEF CrashInSave, Die, Leave
    <3>2. \A m \in Members : fcache'[m] # None => fcache'[m] = file[m]
      BY <1>16, <2>1 DEF CrashInSave
    <3> QED
      BY <2>1, <3>1, <3>2
  <2>2. CASE pc = "build"
    BY <1>16, <2>2 DEF CrashInSave, Die, Leave
  <2> QED
    BY <1>16, <2>1, <2>2 DEF CrashInSave
<1>17. CASE CrashInWrite
  BY <1>17 DEF CrashInWrite, Writes, Die, Leave, NoFiles, NoTexts
<1>18. CASE UNCHANGED vars
  BY <1>18 DEF vars
<1> QED
  BY <1>1, <1>2, <1>3, <1>4, <1>5, <1>6, <1>7, <1>8, <1>9, <1>10,
     <1>11, <1>12, <1>13, <1>14, <1>15, <1>16, <1>17, <1>18 DEF Next, User, Run

(* Removed members: what is known of the cache as long as no line is lost.  *)
RemovalInv ==
  /\ ~gap /\ ~lost /\ archive = "ok" =>
       fcache = dest \/ (fcache = NoFiles /\ tcache = NoTexts)
  /\ ~gap /\ ~lost /\ archive = "ok" /\ Reading => oldF = dest
  /\ pc = "keep" => Used(oldF) + Used(oldT) = Used(newF) + Used(newT)

(* So do the numbers of lines and the names behind them.                    *)
LEMMA RemovalNext ==
  ASSUME Inv, EditInv, RemovalInv, [Next]_vars
  PROVE  RemovalInv'
<1> USE HashCacheAssumption DEF RemovalInv, EditInv, Reading, Inv, TypeOK, File, Text
<1>1. ASSUME NEW i \in Items, NEW t \in Text,
            EditText(i, t)
     PROVE  RemovalInv'
  BY <1>1 DEF EditText, Change
<1>2. ASSUME NEW m \in Members, NEW c \in Versions[m] \cup {None},
            EditMember(m, c)
     PROVE  RemovalInv'
  BY <1>2 DEF EditMember, Change, Recorded
<1>3. ASSUME NEW F \in SUBSET Members, NEW T \in SUBSET Items,
            LoseLines(F, T)
     PROVE  RemovalInv'
  BY <1>3 DEF LoseLines, Change
<1>4. CASE RemoveArchive
  BY <1>4 DEF RemoveArchive, Change, NoFiles
<1>5. ASSUME NEW c \in {"CREATE", "ENCODE"}, NEW te \in BOOLEAN, NEW al \in BOOLEAN,
            Load(c, te, al)
     PROVE  RemovalInv'
  BY <1>5 DEF Load, NoFiles, NoTexts
<1>6. ASSUME NEW i \in Items,
            KeepBinary(i)
     PROVE  RemovalInv'
  BY <1>6 DEF KeepBinary, Next1, Unchanged, EncodingNeeded
<1>7. ASSUME NEW i \in Items,
            RejectText(i)
     PROVE  RemovalInv'
  BY <1>7 DEF RejectText, Next1, Unchanged, EncodingNeeded
<1>8. ASSUME NEW i \in Items,
            RecordOnly(i)
     PROVE  RemovalInv'
  BY <1>8 DEF RecordOnly, Next1, Unchanged, EncodingNeeded
<1>9. ASSUME NEW i \in Items,
            RemoveBinary(i)
     PROVE  RemovalInv'
  BY <1>9 DEF RemoveBinary, Next1, Unchanged, EncodingNeeded, Recorded
<1>10. CASE SaveBinary
  BY <1>10 DEF SaveBinary
<1>11. CASE ScanMembers
  BY <1>11 DEF ScanMembers, Hashed, NoFiles, SkipRebuild, Different
<1>12. CASE KeepArchive
  BY <1>12 DEF KeepArchive, Leave, SaveHashCache, NoFiles, NoTexts
<1>13. CASE BuildArchive
  BY <1>13 DEF BuildArchive, Leave, SaveHashCache, NoFiles, NoTexts
<1>14. CASE WriteArchive
  BY <1>14 DEF WriteArchive, Writes, Leave, NoFiles, NoTexts
<1>15. CASE CrashInRun
  BY <1>15 DEF CrashInRun, Die, Leave, NoFiles, NoTexts
<1>16. CASE CrashInSave
  BY <1>16 DEF CrashInSave, Die, Leave, NoFiles, NoTexts
<1>17. CASE CrashInWrite
  BY <1>17 DEF CrashInWrite, Writes, Die, Leave, NoFiles, NoTexts
<1>18. CASE UNCHANGED vars
  BY <1>18 DEF vars
<1> QED
  BY <1>1, <1>2, <1>3, <1>4, <1>5, <1>6, <1>7, <1>8, <1>9, <1>10,
     <1>11, <1>12, <1>13, <1>14, <1>15, <1>16, <1>17, <1>18 DEF Next, User, Run

(* Recorded hashes: a run carries the old cache along until it saves the new *)
(* one, and what it has encoded stays encoded.                              *)
RecordInv ==
  /\ \A i \in Items : tcache[i] # None /\ i \notin doubt => file[i] = Encode[tcache[i]]
  /\ Reading => oldT = tcache
  /\ pc # "idle" =>
       \A i \in encoded : newT[i] = text[i] /\ file[i] = Encode[newT[i]] /\ i \notin todo
  /\ pc = "save" => tcache[cur] = None \/ cur \in doubt

(* Lines without a doubt stand for the binary on disk.                      *)
LEMMA RecordNext ==
  ASSUME Inv, RecordInv, [Next]_vars
  PROVE  RecordInv'
<1> USE HashCacheAssumption DEF RecordInv, Reading, Inv, TypeOK, Work, File, Text
<1>1. ASSUME NEW i \in Items, NEW t \in Text,
            EditText(i, t)
     PROVE  RecordInv'
  BY <1>1 DEF EditText, Change
<1>2. ASSUME NEW m \in Members, NEW c \in Versions[m] \cup {None},
            EditMember(m, c)
     PROVE  RecordInv'
  BY <1>2 DEF EditMember, Change, Recorded
<1>3. ASSUME NEW F \in SUBSET Members, NEW T \in SUBSET Items,
            LoseLines(F, T)
     PROVE  RecordInv'
  BY <1>3 DEF LoseLines, Change
<1>4. CASE RemoveArchive
  BY <1>4 DEF RemoveArchive, Change, NoFiles
<1>5. ASSUME NEW c \in {"CREATE", "ENCODE"}, NEW te \in BOOLEAN, NEW al \in BOOLEAN,
            Load(c, te, al)
     PROVE  RecordInv'
  BY <1>5 DEF Load, NoFiles, NoTexts
<1>6. ASSUME NEW i \in Items,
            KeepBinary(i)
     PROVE  RecordInv'
  BY <1>6 DEF KeepBinary, Next1, Unchanged, EncodingNeeded
<1>7. ASSUME NEW i \in Items,
            RejectText(i)
     PROVE  RecordInv'
  BY <1>7 DEF RejectText, Next1, Unchanged, EncodingNeeded
<1>8. ASSUME NEW i \in Items,
            RecordOnly(i)
     PROVE  RecordInv'
  BY <1>8 DEF RecordOnly, Next1, Unchanged, EncodingNeeded
<1>9. ASSUME NEW i \in Items,
            RemoveBinary(i)
     PROVE  RecordInv'
  BY <1>9 DEF RemoveBinary, Next1, Unchanged, EncodingNeeded, Recorded
<1>10. CASE SaveBinary
  BY <1>10 DEF SaveBinary
<1>11. CASE ScanMembers
  BY <1>11 DEF ScanMembers, Hashed, NoFiles, SkipRebuild, Different
<1>12. CASE KeepArchive
  BY <1>12 DEF KeepArchive, Leave, SaveHashCache, NoFiles, NoTexts
<1>13. CASE BuildArchive
  BY <1>13 DEF BuildArchive, Leave, SaveHashCache, NoFiles, NoTexts
<1>14. CASE WriteArchive
  BY <1>14 DEF WriteArchive, Writes, Leave, NoFiles, NoTexts
<1>15. CASE CrashInRun
  BY <1>15 DEF CrashInRun, Die, Leave, NoFiles, NoTexts
<1>16. CASE CrashInSave
  BY <1>16 DEF CrashInSave, Die, Leave, NoFiles, NoTexts
<1>17. CASE CrashInWrite
  BY <1>17 DEF CrashInWrite, Writes, Die, Leave, NoFiles, NoTexts
<1>18. CASE UNCHANGED vars
  BY <1>18 DEF vars
<1> QED
  BY <1>1, <1>2, <1>3, <1>4, <1>5, <1>6, <1>7, <1>8, <1>9, <1>10,
     <1>11, <1>12, <1>13, <1>14, <1>15, <1>16, <1>17, <1>18 DEF Next, User, Run

(* A complete CREATE leaves tree, cache and archive in step, and the next    *)
(* run finds them so.                                                       *)
InStep ==
  /\ archive = "ok" /\ dest = file /\ fcache = file /\ tcache = text
  /\ \A i \in Items : text[i] \notin Unknown \cup {None} => file[i] # None

DirtyInv ==
  /\ ~dirty => InStep
  /\ ~dirty /\ pc # "idle" =>
       /\ pc \in {"encode", "keep"} /\ ~all /\ ~errs /\ oldF = file /\ oldT = text
       /\ \A i \in Items : newT[i] = IF i \in todo THEN None ELSE text[i]
       /\ pc = "keep" => newF = file
  /\ Reading /\ ~errs =>
       \A i \in Items \ todo :
         newT[i] = text[i] /\ (text[i] \notin Unknown \cup {None} => file[i] # None \/ test)
  /\ pc = "write" => ~test
  /\ pc = "write" /\ ~errs =>
       \A i \in Items :
         tcache[i] = text[i] /\ (text[i] \notin Unknown \cup {None} => file[i] # None)

(* Between a complete CREATE and the next change nothing is out of date.    *)
LEMMA DirtyNext ==
  ASSUME Inv, EditInv, DirtyInv, [Next]_vars
  PROVE  DirtyInv'
<1> USE HashCacheAssumption DEF DirtyInv, EditInv, InStep, Inv, TypeOK, Work, File, Text, Reading
<1>1. ASSUME NEW i \in Items, NEW t \in Text,
            EditText(i, t)
     PROVE  DirtyInv'
  BY <1>1 DEF EditText, Change
<1>2. ASSUME NEW m \in Members, NEW c \in Versions[m] \cup {None},
            EditMember(m, c)
     PROVE  DirtyInv'
  BY <1>2 DEF EditMember, Change, Recorded
<1>3. ASSUME NEW F \in SUBSET Members, NEW T \in SUBSET Items,
            LoseLines(F, T)
     PROVE  DirtyInv'
  BY <1>3 DEF LoseLines, Change
<1>4. CASE RemoveArchive
  BY <1>4 DEF RemoveArchive, Change, NoFiles
<1>5. ASSUME NEW c \in {"CREATE", "ENCODE"}, NEW te \in BOOLEAN, NEW al \in BOOLEAN,
            Load(c, te, al)
     PROVE  DirtyInv'
  BY <1>5 DEF Load, NoFiles, NoTexts
<1>6. ASSUME NEW i \in Items,
            KeepBinary(i)
     PROVE  DirtyInv'
  BY <1>6 DEF KeepBinary, Next1, Unchanged, EncodingNeeded
<1>7. ASSUME NEW i \in Items,
            RejectText(i)
     PROVE  DirtyInv'
  BY <1>7 DEF RejectText, Next1, Unchanged, EncodingNeeded
<1>8. ASSUME NEW i \in Items,
            RecordOnly(i)
     PROVE  DirtyInv'
  BY <1>8 DEF RecordOnly, Next1, Unchanged, EncodingNeeded
<1>9. ASSUME NEW i \in Items,
            RemoveBinary(i)
     PROVE  DirtyInv'
  BY <1>9 DEF RemoveBinary, Next1, Unchanged, EncodingNeeded, Recorded
<1>10. CASE SaveBinary
  BY <1>10 DEF SaveBinary
<1>11. CASE ScanMembers
  BY <1>11 DEF ScanMembers, Hashed, NoFiles, SkipRebuild, Different
<1>12. CASE KeepArchive
  BY <1>12 DEF KeepArchive, Leave, SaveHashCache, NoFiles, NoTexts
<1>13. CASE BuildArchive
  BY <1>13 DEF BuildArchive, Leave, SaveHashCache, NoFiles, NoTexts
<1>14. CASE WriteArchive
  <2>1. pc' = "idle" /\ UNCHANGED <<text, file, fcache, tcache>>
    BY <1>14 DEF WriteArchive, Leave
  <2>2. CASE dirty'
    BY <2>1, <2>2
  <2>3. CASE ~dirty'
    <3>1. dirty
      BY <1>14 DEF WriteArchive
    <3>2. Writes /\ archive' = "ok" /\ dest' = file
      BY <1>14, <2>3, <3>1 DEF WriteArchive
    <3>3. ~errs /\ fcache = file
      BY <1>14, <3>2 DEF WriteArchive, Writes
    <3>4. \A i \in Items : tcache[i] = text[i] /\ (text[i] \notin Unknown \cup {None} => file[i] # None)
      BY <1>14, <3>3 DEF WriteArchive
    <3>5. tcache = text
      BY <3>4
    <3> QED
      BY <2>1, <3>2, <3>3, <3>4, <3>5
  <2> QED
    BY <2>2, <2>3
<1>15. CASE CrashInRun
  BY <1>15 DEF CrashInRun, Die, Leave, NoFiles, NoTexts
<1>16. CASE CrashInSave
  BY <1>16 DEF CrashInSave, Die, Leave, NoFiles, NoTexts
<1>17. CASE CrashInWrite
  BY <1>17 DEF CrashInWrite, Writes, Die, Leave, NoFiles, NoTexts
<1>18. CASE UNCHANGED vars
  BY <1>18 DEF vars
<1> QED
  BY <1>1, <1>2, <1>3, <1>4, <1>5, <1>6, <1>7, <1>8, <1>9, <1>10,
     <1>11, <1>12, <1>13, <1>14, <1>15, <1>16, <1>17, <1>18 DEF Next, User, Run

-----------------------------------------------------------------------------
(* A freshly extracted tree satisfies all of it.                            *)
LEMMA InitOK == Init => Inv /\ EditInv /\ RemovalInv /\ RecordInv /\ DirtyInv
<1> SUFFICES ASSUME Init
             PROVE  Inv /\ EditInv /\ RemovalInv /\ RecordInv /\ DirtyInv
  OBVIOUS
<1> USE HashCacheAssumption DEF Init, NoFiles, NoTexts, File, Text, Reading
<1>1. Inv
  <2>1. file \in [Members -> File] /\ fcache \in [Members -> File]
    OBVIOUS
  <2> QED
    BY <2>1 DEF Inv, TypeOK, Work
<1>2. EditInv
  BY DEF EditInv, Lines
<1>3. RemovalInv /\ RecordInv
  BY DEF RemovalInv, RecordInv
<1>4. DirtyInv
  BY DEF DirtyInv
<1> QED
  BY <1>1, <1>2, <1>3, <1>4

(* Every variable keeps its type.                                           *)
THEOREM TypeCorrect == Spec => []TypeOK
<1>1. Inv => TypeOK
  BY DEF Inv
<1> QED
  BY InitOK, InvNext, <1>1, PTL DEF Spec

(* No edited or added member is missed by a run that keeps the archive,      *)
(* unless an earlier run saved its cache without writing the archive.       *)
THEOREM EditsReachArchive == Spec => []SkipMissesNoEdit
<1>1. ASSUME Inv, EditInv PROVE SkipMissesNoEdit
  BY <1>1 DEF Inv, TypeOK, EditInv, Lines, Reading, SkipMissesNoEdit
<1> QED
  BY InitOK, InvNext, EditNext, <1>1, PTL DEF Spec

(* As many names on both sides, and the new ones among the old ones.        *)
LEMMA UsedSubset ==
  ASSUME NEW D, IsFiniteSet(D), NEW f, DOMAIN f = D, NEW g, DOMAIN g = D,
         \A k \in D : f[k] # None => g[k] # None
  PROVE  /\ Used(f) \in Nat /\ Used(g) \in Nat /\ Used(f) <= Used(g)
         /\ Used(f) = Used(g) => \A k \in D : g[k] # None => f[k] # None
<1> DEFINE S == {k \in D : f[k] # None}
           T == {k \in D : g[k] # None}
<1>1. S \subseteq T /\ T \subseteq D
  OBVIOUS
<1>2. IsFiniteSet(T)
  BY <1>1, FS_Subset
<1>3. /\ IsFiniteSet(S) /\ Cardinality(S) <= Cardinality(T)
      /\ Cardinality(S) = Cardinality(T) => S = T
  BY <1>1, <1>2, FS_Subset
<1>4. Cardinality(S) \in Nat /\ Cardinality(T) \in Nat
  BY <1>2, <1>3, FS_CardinalityType
<1>5. Used(f) = Cardinality(S) /\ Used(g) = Cardinality(T)
  BY DEF Used
<1> QED
  BY <1>3, <1>4, <1>5

(* No removed member is missed either, as long as no line of the cache was  *)
(* lost and no editable form is new: then the numbers of lines agree only   *)
(* if the names do.                                                         *)
THEOREM RemovalsReachArchive == Spec => []SkipMissesNoRemoval
<1>1. ASSUME Inv, EditInv, RemovalInv PROVE SkipMissesNoRemoval
  <2> SUFFICES ASSUME pc = "keep", ~gap, ~lost,
                      \A i \in Items : newT[i] # None => oldT[i] # None
               PROVE  \A m \in Members : dest[m] # None => file[m] # None
    BY DEF SkipMissesNoRemoval
  <2>1. IsFiniteSet(Members) /\ IsFiniteSet(Items)
    BY HashCacheAssumption, FS_Subset
  <2>2. newF = file /\ oldF = dest
    BY <1>1 DEF EditInv, RemovalInv, Reading, Inv, TypeOK
  <2>3. \A m \in Members : newF[m] # None => oldF[m] # None
    BY <1>1, <2>2 DEF EditInv
  <2>4. /\ DOMAIN newF = Members /\ DOMAIN oldF = Members
        /\ DOMAIN newT = Items /\ DOMAIN oldT = Items
    BY <1>1 DEF Inv, TypeOK
  <2>5. Used(newT) \in Nat /\ Used(oldT) \in Nat /\ Used(newT) <= Used(oldT)
    BY <2>1, <2>4, UsedSubset
  <2>6. /\ Used(newF) \in Nat /\ Used(oldF) \in Nat /\ Used(newF) <= Used(oldF)
        /\ Used(newF) = Used(oldF) => \A m \in Members : oldF[m] # None => newF[m] # None
    BY <2>1, <2>3, <2>4, UsedSubset
  <2>7. Used(oldF) + Used(oldT) = Used(newF) + Used(newT)
    BY <1>1 DEF RemovalInv
  <2>8. Used(newF) = Used(oldF)
    BY <2>5, <2>6, <2>7
  <2> QED
    BY <2>2, <2>6, <2>8
<1> QED
  BY InitOK, InvNext, EditNext, RemovalNext, <1>1, PTL DEF Spec

(* A line of the cache that an encode has left stands for the binary on     *)
(* disk.                                                                    *)
THEOREM RecordsHold == Spec => []RecordedIsEncoded
<1>1. RecordInv => RecordedIsEncoded
  BY DEF RecordInv, RecordedIsEncoded
<1> QED
  BY InitOK, InvNext, RecordNext, <1>1, PTL DEF Spec

(* A second CREATE does no work.                                            *)
THEOREM CreateIsIdempotent == Spec => []UnchangedIsSkipped
<1>1. ASSUME Inv, DirtyInv PROVE UnchangedIsSkipped
  BY <1>1 DEF DirtyInv, UnchangedIsSkipped, Inv, TypeOK
<1> QED
  BY InitOK, InvNext, EditNext, DirtyNext, <1>1, PTL DEF Spec
=============================================================================
