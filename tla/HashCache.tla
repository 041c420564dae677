----------------------------- MODULE HashCache -----------------------------
(***************************************************************************)
(* CREATE and ENCODE of one directory with the cache of content hashes:     *)
(* CreateSZS() of lib-szs-create.c and the part of cmd_create() that writes *)
(* the archive.  The directory holds the members of the archive; some of    *)
(* them (Items) may have an editable form beside them (foo.kmp.txt,         *)
(* foo.kcl.obj, foo.tpl.png) from which CREATE encodes the member.          *)
(*                                                                          *)
(* A hash stands for the content it is taken of.  Modification times matter *)
(* in one comparison only, the editable form against its binary, and that   *)
(* is what newer records.  The user works on the tree between two runs.     *)
(*                                                                          *)
(* The name of the directory does not end in ".d": cmd_create() removes     *)
(* such a directory at the end of a run, also of one that had nothing to    *)
(* do, and no later run could use its cache.  RepackTree has that removal.  *)
(***************************************************************************)
EXTENDS Integers, FiniteSets

CONSTANTS
  Members,       \* files of the directory that go into the archive
  Items,         \* members listed as "encode" in wszst-setup.txt
  Contents,      \* contents of members
  Versions,      \* Versions[m]: the contents the user may give to member m
  Torn,          \* what an interrupted write leaves
  Texts,         \* contents of editable forms
  Bad,           \* texts that Scan*() rejects with an error
  Unknown,       \* texts of no known file format
  Encode,        \* Encode[t]: the binary made of text t
  None,          \* no such file, no such line in the cache
  Crashes,       \* may the process die within a run?
  SaveOutcomes,  \* of writing a binary
  BuildOutcomes, \* of assembling the archive
  WriteOutcomes  \* of writing the archive

ASSUME HashCacheAssumption ==
  /\ IsFiniteSet(Members) /\ Items \subseteq Members
  /\ Bad \subseteq Texts /\ Unknown \subseteq Texts \ Bad
  /\ Torn \in Contents /\ Versions \in [Members -> SUBSET (Contents \ {Torn})]
  /\ Encode \in [Texts -> Contents]
  /\ None \notin Contents /\ None \notin Texts
  /\ Crashes \in BOOLEAN
  /\ SaveOutcomes \subseteq {"ok", "fail"} /\ BuildOutcomes \subseteq {"ok", "fail"}
  /\ WriteOutcomes \subseteq {"ok", "torn", "unopened"}

File == Contents \cup {None}
Text == Texts \cup {None}

VARIABLES
  images,    \* items whose editable form is a PNG (never changes)
  text,      \* the editable form of item i
  file,      \* member m on disk
  newer,     \* is the editable form of i more than 2 s newer than its binary?
  fcache,    \* .wszst-cache.txt, the lines of members
  tcache,    \* .wszst-cache.txt, the lines of editable forms
  dest,      \* members in the destination archive
  archive,   \* the destination file: "ok", "torn" or "absent"
  pc,        \* where the run is; "idle" between two runs
  cmd, test, all,  \* command, --test, --encode-all (for the encode pass)
  todo,      \* items of the encode list still to do
  cur,       \* the item being saved
  errs,      \* encode_errors > 0
  oldF, oldT,      \* old_hash_cache
  newF, newT,      \* new_hash_cache
  encoded,   \* history: items this run has encoded
  gap,       \* history: a run saved the cache and left the archive as it was
  lost,      \* history: the cache may list fewer members than the archive has
  doubt,     \* history: items recorded without an encode, or changed since then
  dirty      \* history: something was touched since the last complete CREATE

disk == <<images, text, file, newer, fcache, tcache, dest, archive>>
run == <<pc, cmd, test, all, todo, cur, errs, oldF, oldT, newF, newT, encoded>>
history == <<gap, lost, doubt, dirty>>
vars == <<disk, run, history>>

NoFiles == [m \in Members |-> None]
NoTexts == [i \in Items |-> None]

Recorded == {i \in Items : tcache[i] # None}

Used(f) == Cardinality({k \in DOMAIN f : f[k] # None})

(* A freshly extracted tree beside the archive it came from: editable forms *)
(* belong to their binaries and have their time stamps.  EXTRACT leaves a   *)
(* cache of the members, a tree that was handed on may have none.           *)
Init ==
  /\ images \in SUBSET Items
  /\ file \in [Members -> Contents] /\ \A m \in Members : file[m] \in Versions[m]
  /\ text \in [Items -> Text]
  /\ \A i \in Items : text[i] # None => text[i] \notin Bad \cup Unknown /\ Encode[text[i]] = file[i]
  /\ newer = [i \in Items |-> FALSE]
  /\ fcache \in {NoFiles, file} /\ tcache = NoTexts
  /\ dest = file /\ archive = "ok"
  /\ pc = "idle" /\ cmd = "CREATE" /\ test = FALSE /\ all = FALSE
  /\ todo = {} /\ cur = None /\ errs = FALSE
  /\ oldF = NoFiles /\ oldT = NoTexts /\ newF = NoFiles /\ newT = NoTexts
  /\ encoded = {}
  /\ gap = FALSE /\ lost = FALSE /\ doubt = {} /\ dirty = TRUE

(* The process ends, and its variables with it.                             *)
Leave ==
  /\ pc' = "idle" /\ cmd' = "CREATE" /\ test' = FALSE /\ all' = FALSE
  /\ todo' = {} /\ cur' = None /\ errs' = FALSE
  /\ oldF' = NoFiles /\ oldT' = NoTexts /\ newF' = NoFiles /\ newT' = NoTexts
  /\ encoded' = {}

-----------------------------------------------------------------------------
(* The user, between two runs.                                              *)

Change ==
  /\ pc = "idle" /\ dirty' = TRUE
  /\ UNCHANGED <<run, gap>>

(* An editor saves the text, or a decoder creates it with the time stamp of *)
(* its binary.                                                              *)
EditText(i, t) ==
  /\ Change /\ t # text[i]
  /\ text' = [text EXCEPT ![i] = t]
  /\ \E late \in BOOLEAN :
       /\ late => t # None /\ file[i] # None
       /\ newer' = [newer EXCEPT ![i] = late]
  /\ UNCHANGED <<images, file, fcache, tcache, dest, archive, lost, doubt>>

EditMember(m, c) ==
  /\ Change /\ c # file[m]
  /\ file' = [file EXCEPT ![m] = c]
  /\ newer' = [i \in Items |-> IF i = m THEN FALSE ELSE newer[i]]
  /\ doubt' = doubt \cup (Recorded \cap {m})
  /\ UNCHANGED <<images, text, fcache, tcache, dest, archive, lost>>

(* The cache is removed, or some of its lines get lost or malformed.        *)
LoseLines(F, T) ==
  /\ Change
  /\ fcache' = [m \in Members |-> IF m \in F THEN None ELSE fcache[m]]
  /\ tcache' = [i \in Items |-> IF i \in T THEN None ELSE tcache[i]]
  /\ <<fcache', tcache'>> # <<fcache, tcache>>
  /\ lost' = TRUE /\ doubt' = doubt \ T
  /\ UNCHANGED <<images, text, file, newer, dest, archive>>

RemoveArchive ==
  /\ Change /\ archive # "absent"
  /\ archive' = "absent" /\ dest' = NoFiles
  /\ UNCHANGED <<images, text, file, newer, fcache, tcache, lost, doubt>>

User ==
  \/ \E i \in Items, t \in Text : EditText(i, t)
  \/ \E m \in Members : \E c \in Versions[m] \cup {None} : EditMember(m, c)
  \/ \E F \in SUBSET Members, T \in SUBSET Items : LoseLines(F, T)
  \/ RemoveArchive

-----------------------------------------------------------------------------
(* One run.                                                                 *)

(* LoadHashCache(); without a usable line, the members of an existing       *)
(* destination take the place of the cache.                                 *)
Load(c, te, al) ==
  /\ pc = "idle" /\ pc' = "encode"
  /\ cmd' = IF te THEN "CREATE" ELSE c  \* with --test nothing tells them apart
  /\ test' = te /\ all' = al
  /\ oldT' = tcache
  /\ oldF' = IF fcache = NoFiles /\ tcache = NoTexts /\ archive = "ok"
             THEN dest ELSE fcache
  /\ newF' = NoFiles /\ newT' = NoTexts
  /\ todo' = {i \in Items : text[i] # None}
  /\ cur' = None /\ errs' = FALSE /\ encoded' = {}
  /\ dirty' = (dirty \/ al)
  /\ UNCHANGED <<disk, gap, lost, doubt>>

EncodingNeeded(i) == all \/ file[i] = None

Unchanged(i) ==
  /\ ~EncodingNeeded(i)
  /\ oldT[i] = text[i] \/ (oldT[i] = None /\ ~newer[i])

Next1(i) == pc = "encode" /\ i \in todo

(* The editable form is what it was: record it and leave the binary alone.  *)
KeepBinary(i) ==
  /\ Next1(i) /\ Unchanged(i)
  /\ newT' = [newT EXCEPT ![i] = text[i]]
  /\ todo' = todo \ {i}
  /\ UNCHANGED <<disk, history, pc, cmd, test, all, cur, errs, oldF, oldT, newF, encoded>>

(* Scan*() fails: the binary stays, and nothing is recorded.                *)
RejectText(i) ==
  /\ Next1(i) /\ ~Unchanged(i) /\ text[i] \in Bad
  /\ errs' = TRUE
  /\ todo' = todo \ {i}
  /\ UNCHANGED <<disk, history, pc, cmd, test, all, cur, oldF, oldT, newF, newT, encoded>>

(* "Can't encode" for a file of no known format, which is no error, and      *)
(* "WOULD ENCODE" with --test: the hash is recorded all the same.           *)
RecordOnly(i) ==
  /\ Next1(i) /\ ~Unchanged(i)
  /\ \/ text[i] \in Unknown
     \/ test /\ i \notin images /\ text[i] \notin Bad
  /\ newT' = [newT EXCEPT ![i] = text[i]]
  /\ todo' = todo \ {i}
  /\ UNCHANGED <<disk, history, pc, cmd, test, all, cur, errs, oldF, oldT, newF, encoded>>

(* The old binary goes before the new one is written.  Images are saved     *)
(* over the old file, with --test as well.                                  *)
RemoveBinary(i) ==
  /\ Next1(i) /\ ~Unchanged(i) /\ text[i] \notin Bad \cup Unknown
  /\ ~test \/ i \in images
  /\ pc' = "save" /\ cur' = i
  /\ file' = [file EXCEPT ![i] = IF i \in images THEN Torn ELSE None]
  /\ newer' = [newer EXCEPT ![i] = FALSE]
  /\ doubt' = doubt \cup (Recorded \cap {i})
  /\ UNCHANGED <<images, text, fcache, tcache, dest, archive, cmd, test, all, todo, errs,
                 oldF, oldT, newF, newT, encoded, gap, lost, dirty>>

(* Mutant: the hash is recorded before the outcome of the encode is known.  *)
SaveBinary_early ==
  /\ pc = "save" /\ pc' = "encode"
  /\ todo' = todo \ {cur} /\ cur' = None
  /\ \E o \in SaveOutcomes :
       /\ file' = [file EXCEPT ![cur] = IF o = "ok" THEN Encode[text[cur]] ELSE Torn]
       /\ errs' = (errs \/ o # "ok")
  /\ newT' = [newT EXCEPT ![cur] = text[cur]]
  /\ encoded' = encoded \cup {cur}
  /\ UNCHANGED <<images, text, newer, fcache, tcache, dest, archive, cmd, test, all,
                 oldF, oldT, newF, history>>

SaveBinary ==
  /\ pc = "save" /\ pc' = "encode"
  /\ todo' = todo \ {cur} /\ cur' = None
  /\ \E o \in SaveOutcomes :
       /\ file' = [file EXCEPT ![cur] = IF o = "ok" THEN Encode[text[cur]] ELSE Torn]
       /\ errs' = (errs \/ o # "ok")
       /\ encoded' = IF o = "ok" THEN encoded \cup {cur} ELSE encoded
       /\ newT' = IF o = "ok" THEN [newT EXCEPT ![cur] = text[cur]] ELSE newT
  /\ UNCHANGED <<images, text, newer, fcache, tcache, dest, archive, cmd, test, all,
                 oldF, oldT, newF, history>>

(* Every member is hashed, unless an encode has failed.                     *)
Hashed == IF errs THEN NoFiles ELSE file

(* Mutant: only members the old cache knows are compared.                   *)
Different_known ==
  \E m \in Members : Hashed[m] # None /\ oldF[m] # None /\ oldF[m] # Hashed[m]

Different == \E m \in Members : Hashed[m] # None /\ oldF[m] # Hashed[m]

(* Mutant: the numbers of lines are not compared.                           *)
SkipRebuild_uncounted == ~errs /\ ~Different /\ archive # "absent"

SkipRebuild ==
  /\ ~errs /\ ~Different
  /\ Used(oldF) + Used(oldT) = Used(file) + Used(newT)
  /\ archive # "absent"

(* Mutant: the scan stops at the first difference, with a partial cache.    *)
ScanMembers_partial ==
  /\ pc = "encode" /\ todo = {}
  /\ newF' = [m \in Members |-> IF oldF[m] = Hashed[m] THEN Hashed[m] ELSE None]
  /\ all' = FALSE
  /\ pc' = IF SkipRebuild THEN "keep" ELSE "build"
  /\ UNCHANGED <<disk, history, cmd, test, todo, cur, errs, oldF, oldT, newT, encoded>>

ScanMembers ==
  /\ pc = "encode" /\ todo = {}
  /\ newF' = Hashed /\ all' = FALSE
  /\ pc' = IF SkipRebuild THEN "keep" ELSE "build"
  /\ UNCHANGED <<disk, history, cmd, test, todo, cur, errs, oldF, oldT, newT, encoded>>

(* SaveHashCache(); history: which lines now rest on an encode.             *)
SaveHashCache ==
  /\ fcache' = newF /\ tcache' = newT
  /\ doubt' = {i \in Items \ encoded :
                 newT[i] # None /\ (i \in doubt \/ newT[i] # oldT[i])}

(* szs->unchanged: the archive stays as it is.                              *)
KeepArchive ==
  /\ pc = "keep" /\ Leave
  /\ \/ test /\ UNCHANGED <<fcache, tcache, doubt, lost>>
     \/ ~test /\ SaveHashCache /\ lost' = (lost \/ newF # oldF)
  /\ UNCHANGED <<images, text, file, newer, dest, archive, gap, dirty>>

(* The archive is assembled in memory; then the cache is saved, before the  *)
(* caller writes the archive.  The caches in memory are gone when           *)
(* CreateSZS() returns.                                                     *)
BuildArchive ==
  /\ pc = "build"
  /\ \E o \in BuildOutcomes :
       \/ /\ o = "ok" /\ ~test
          /\ SaveHashCache
          /\ gap' = TRUE
          /\ pc' = "write"
          /\ oldF' = NoFiles /\ oldT' = NoTexts /\ newF' = NoFiles /\ newT' = NoTexts
          /\ encoded' = {}
          /\ UNCHANGED <<cmd, test, all, todo, cur, errs>>
       \/ /\ o # "ok" \/ test
          /\ Leave
          /\ UNCHANGED <<fcache, tcache, doubt, gap>>
  /\ UNCHANGED <<images, text, file, newer, dest, archive, lost, dirty>>

(* cmd_create(): only CREATE writes, and only without an encoding error.    *)
Writes == cmd = "CREATE" /\ ~errs

WriteArchive ==
  /\ pc = "write" /\ Leave
  /\ \E o \in IF Writes THEN WriteOutcomes ELSE {"unopened"} :
       /\ archive' = IF o = "unopened" THEN archive ELSE o
       /\ dest' = IF o = "ok" THEN file ELSE IF o = "torn" THEN NoFiles ELSE dest
       /\ gap' = (o # "ok")
       /\ lost' = (lost /\ o # "ok")
       /\ dirty' = (dirty /\ o # "ok")
  /\ UNCHANGED <<images, text, file, newer, fcache, tcache, doubt>>

-----------------------------------------------------------------------------
(* The process dies.                                                        *)

Die == Crashes /\ Leave /\ dirty' = TRUE

CrashInRun ==
  /\ Die /\ pc \in {"encode", "save", "keep", "build"}
  /\ \/ file' = file
     \/ pc = "save" /\ file' = [file EXCEPT ![cur] = Torn]
  /\ UNCHANGED <<images, text, newer, fcache, tcache, dest, archive, gap, lost, doubt>>

(* SaveHashCache() rewrites the cache in place.                             *)
CrashInSave ==
  /\ Die /\ pc \in {"keep", "build"} /\ ~test
  /\ \E F \in SUBSET Members, T \in SUBSET Items :
       /\ fcache' = [m \in Members |-> IF m \in F THEN newF[m] ELSE None]
       /\ tcache' = [i \in Items |-> IF i \in T THEN newT[i] ELSE None]
  /\ lost' = TRUE /\ gap' = (gap \/ pc = "build")
  /\ doubt' = {i \in Items : tcache'[i] # None}
  /\ UNCHANGED <<images, text, file, newer, dest, archive>>

CrashInWrite ==
  /\ Die /\ pc = "write"
  /\ archive' = IF Writes THEN "torn" ELSE archive
  /\ dest' = IF Writes THEN NoFiles ELSE dest
  /\ UNCHANGED <<images, text, file, newer, fcache, tcache, gap, lost, doubt>>

Run ==
  \/ \E c \in {"CREATE", "ENCODE"}, te, al \in BOOLEAN : Load(c, te, al)
  \/ \E i \in Items : KeepBinary(i) \/ RejectText(i) \/ RecordOnly(i) \/ RemoveBinary(i)
  \/ SaveBinary \/ ScanMembers \/ KeepArchive \/ BuildArchive \/ WriteArchive

Next == User \/ Run \/ CrashInRun \/ CrashInSave \/ CrashInWrite

Spec == Init /\ [][Next]_vars

-----------------------------------------------------------------------------
TypeOK ==
  /\ images \in SUBSET Items
  /\ text \in [Items -> Text] /\ file \in [Members -> File]
  /\ newer \in [Items -> BOOLEAN]
  /\ fcache \in [Members -> File] /\ tcache \in [Items -> Text]
  /\ dest \in [Members -> File] /\ archive \in {"ok", "torn", "absent"}
  /\ pc \in {"idle", "encode", "save", "keep", "build", "write"}
  /\ cmd \in {"CREATE", "ENCODE"} /\ test \in BOOLEAN /\ all \in BOOLEAN
  /\ todo \in SUBSET Items /\ cur \in Items \cup {None} /\ errs \in BOOLEAN
  /\ oldF \in [Members -> File] /\ newF \in [Members -> File]
  /\ oldT \in [Items -> Text] /\ newT \in [Items -> Text]
  /\ encoded \in SUBSET Items /\ doubt \in SUBSET Items
  /\ gap \in BOOLEAN /\ lost \in BOOLEAN /\ dirty \in BOOLEAN

(* A run that leaves the archive as "unchanged" misses no edited or added   *)
(* member: each file of the directory is in the archive with this content.  *)
(* Only a run that saved its cache without writing the archive can break it.*)
SkipMissesNoEdit ==
  pc = "keep" /\ ~gap =>
    archive = "ok" /\ \A m \in Members : file[m] # None => dest[m] = file[m]

(* The same for removed members, which only the number of lines shows: it   *)
(* is right as long as no line was lost and no editable form is new.        *)
SkipMissesNoRemoval ==
  pc = "keep" /\ ~gap /\ ~lost /\ (\A i \in Items : newT[i] # None => oldT[i] # None) =>
    \A m \in Members : dest[m] # None => file[m] # None

(* A hash recorded for an editable form after an encode stands for the      *)
(* binary on disk, whatever failed or was interrupted since.                *)
RecordedIsEncoded ==
  \A i \in Items : tcache[i] # None /\ i \notin doubt => file[i] = Encode[tcache[i]]

(* After a complete CREATE, and until something is touched, no run encodes  *)
(* a member or builds the archive again.                                    *)
UnchangedIsSkipped == pc \in {"save", "build", "write"} => dirty

(* "Lets CREATE/ENCODE skip re-encoding and rebuilding when nothing in this *)
(* directory actually changed since the last successful build."             *)
NoFalseHit ==
  pc = "keep" => \A m \in Members : file[m] # None => dest[m] = file[m]
=============================================================================
