----------------------------- MODULE RepackTree -----------------------------
(***************************************************************************)
(* CREATE of a tree of extracted archives: repack_tree_bottom_up() packs    *)
(* each changed "foo.d" into the container foo beside it, children first,   *)
(* cleanup_extracted_artifacts() removes what is left of the tree, and      *)
(* cmd_create() packs the root.                                             *)
(*                                                                          *)
(* An archive d stands for its directory, its container and one asset; the  *)
(* asset may have an editable form beside it.  A container holds a version  *)
(* of every asset below it.  A file is its content and its time stamp; one  *)
(* tick of the clock is longer than the resolution of time stamps.          *)
(***************************************************************************)
EXTENDS Integers, FiniteSets

CONSTANTS
  Dirs, Root, Parent,  \* archives; the one CREATE is called for; nesting
  Below,         \* Below[d]: d and the archives nested in it
  Form,          \* editable form of the asset: "none", "png", "txt" or "obj"
  Window,        \* 600 s: how much later decoders may be in a legacy tree
  Tests,         \* values of --test
  Crashes,       \* may the process die within a run?
  MaxEdits, MaxTime    \* bounds: edits of one asset, clock

Nested == Dirs \ {Root}

Children(d) == {e \in Nested : Parent[e] = d}

ASSUME RepackAssumption ==
  /\ Root \in Dirs /\ Parent \in [Nested -> Dirs]
  /\ Below \in [Dirs -> SUBSET Dirs] /\ Below[Root] = Dirs
  /\ \A d \in Dirs :
       /\ Below[d] = {d} \cup UNION {Below[e] : e \in Children(d)}
       /\ \A e \in Below[d] : Below[e] \subseteq Below[d]
       /\ \A e \in Children(d) : d \notin Below[e]
       /\ \A e, f \in Children(d) : e # f => Below[e] \cap Below[f] = {}
       /\ \A e \in Below[d] \ {d} : Parent[e] \in Below[d]
  /\ Form \in [Dirs -> {"none", "png", "txt", "obj"}]
  /\ Window \in Nat /\ MaxEdits \in Nat /\ MaxTime \in Nat /\ Window < MaxTime
  /\ Tests \subseteq BOOLEAN /\ Crashes \in BOOLEAN

Junk == -1             \* torn or missing
Versions == Junk .. MaxEdits
Gone == [v |-> Junk, t |-> 0]
Torn == [d \in Dirs |-> Junk]

VARIABLES
  legacy,        \* archives whose extractor writes no wszst-setup.txt
  dotD,          \* is the directory of the root named "*.d"?
  now,
  tree,          \* archives whose directory exists
  asset, form,   \* the asset and its editable form: version v, time t
  setupT,        \* time of wszst-setup.txt; 0: no such file
  marker,        \* directories with .wszst-mtime-baseline
  box,           \* containers: v[d] is the version of asset d
  pc,            \* "idle", "tree", "remove", "pack", "drop" or "done"
  imgs, left,    \* previews and directories the walk has still to do
  cur,           \* directory that is being removed
  err, pack, test,   \* max_err > ERR_WARNING, "pack the root", --test
  want,          \* history: the version the user saved last
  lost,          \* history: edits whose loss is reported or listed below
  cut            \* history: the process died within a write or a removal

const == <<legacy, dotD>>
members == <<asset, form, setupT, marker>>
disk == <<tree, members, box>>
walk == <<imgs, left, cur>>
opts == <<pack, test>>
history == <<want, lost, cut>>
vars == <<const, now, disk, pc, walk, err, opts, history>>

MaxOf(a, b) == IF a > b THEN a ELSE b

(* XX has extracted the tree.  Without setup file, there are no text forms, *)
(* and the decoders may be up to a Window later than the container.         *)
Init ==
  /\ legacy \in SUBSET Nested /\ dotD \in BOOLEAN
  /\ \E late \in 0 .. Window :
       LET Late(d) == IF d \in legacy THEN 1 + late ELSE 1
       IN  /\ now = 1 + late
           /\ asset = [d \in Dirs |-> [v |-> 0, t |-> Late(d)]]
           /\ form = [d \in Dirs |->
                IF Form[d] = "none" \/ (d \in legacy /\ Form[d] # "png") THEN Gone ELSE asset[d]]
           /\ box = [c \in Dirs |->
                [v |-> [d \in Dirs |-> IF d \in Below[c] THEN 0 ELSE Junk],
                 t |-> IF c = Root THEN 1 ELSE Late(Parent[c])]]
  /\ tree = Dirs
  /\ setupT = [d \in Dirs |-> IF d \in legacy THEN 0 ELSE 1]
  /\ marker = {}
  /\ pc = "idle" /\ imgs = {} /\ left = {} /\ cur = Root
  /\ err = FALSE /\ pack = FALSE /\ test = FALSE
  /\ want = [d \in Dirs |-> 0] /\ lost = {} /\ cut = FALSE

-----------------------------------------------------------------------------
(* The user saves an asset or its editable form, between two runs.          *)
Edit(d) ==
  /\ pc = "idle" /\ d \in tree /\ want[d] < MaxEdits /\ now < MaxTime
  /\ now' = now + 1
  /\ want' = [want EXCEPT ![d] = @ + 1]
  /\ lost' = lost \ {d}
  /\ LET saved == [v |-> want[d] + 1, t |-> now + 1]
     IN  \/ asset' = [asset EXCEPT ![d] = saved] /\ UNCHANGED form
         \/ form[d] # Gone /\ form' = [form EXCEPT ![d] = saved] /\ UNCHANGED asset
  /\ UNCHANGED <<const, tree, setupT, marker, box, pc, walk, err, opts, cut>>

-----------------------------------------------------------------------------
(* What goes into the container of c, and which edits its file lacks.       *)

(* CreateSZS() encodes the text forms that are listed in wszst-setup.txt and *)
(* are newer than their binary.                                             *)
Encodes(d) == setupT[d] # 0 /\ Form[d] \in {"txt", "obj"} /\ form[d].t > asset[d].t

Packed(c) ==
  [d \in Dirs |->
     IF d = c THEN (IF Encodes(c) THEN form[c].v ELSE asset[c].v)
     ELSE IF d \in Below[c] THEN box[CHOOSE e \in Children(c) : d \in Below[e]].v[d]
     ELSE Junk]

Missing(c) == {d \in Below[c] : Packed(c)[d] # box[c].v[d]}

(* is_dir_newer_than() for the files A, F and B below c.  OBJ files are     *)
(* skipped as generated, PNG files are gone by now.                         *)
NewerThan(c, ref, A, F, B) ==
  \E d \in Below[c] \cap tree :
    \/ A[d].t > ref
    \/ Form[d] = "txt" /\ F[d].t > ref
    \/ \E e \in Children(d) : B[e].t > ref

(* The files of the directories D and the forms of T are unlinked.          *)
Without(D, T) ==
  /\ tree' = tree \ D
  /\ asset' = [d \in Dirs |-> IF d \in D THEN Gone ELSE asset[d]]
  /\ form' = [d \in Dirs |-> IF d \in D \cup T THEN Gone ELSE form[d]]
  /\ setupT' = [d \in Dirs |-> IF d \in D THEN 0 ELSE setupT[d]]
  /\ marker' = marker \ D
  /\ box' = [c \in Dirs |-> IF c # Root /\ Parent[c] \in D
                            THEN [v |-> Torn, t |-> 0] ELSE box[c]]

-----------------------------------------------------------------------------
(* repack_tree_bottom_up().                                                 *)

Previews == {d \in tree : Form[d] = "png" /\ form[d] # Gone /\ asset[d] # Gone}

Start(p, t) ==
  /\ pc = "idle" /\ Root \in tree /\ now < MaxTime
  /\ now' = now + 1
  /\ pc' = "tree" /\ pack' = p /\ test' = t /\ err' = FALSE /\ cur' = Root
  /\ left' = tree \ {Root} /\ imgs' = Previews
  /\ UNCHANGED <<const, disk, history>>

(* The entries of directory d follow those of its subdirectories.           *)
Ready(d) ==
  pc = "tree" /\ \A e \in Children(d) : e \notin imgs /\ Children(e) \cap left = {}

(* An edited preview goes into its image, which gets the time of the        *)
(* preview; the preview is unlinked in any case, with --test too.           *)
Image(d) ==
  /\ d \in imgs /\ Ready(d)
  /\ imgs' = imgs \ {d}
  /\ LET edited == form[d].t > MaxOf(asset[d].t, setupT[d])
     IN  \/ edited /\ asset' = [asset EXCEPT ![d] = form[d]] /\ UNCHANGED err
         \/ edited /\ err' = TRUE /\ UNCHANGED asset
         \/ ~edited /\ UNCHANGED <<asset, err>>
  /\ form' = [form EXCEPT ![d] = Gone]
  /\ UNCHANGED <<const, now, tree, setupT, marker, box, pc, left, cur, opts, history>>

Turn(c) == c \in left /\ Ready(Parent[c])

NeedsBaseline(c) == setupT[c] = 0 /\ box[c].t # 0 /\ c \notin marker

(* Mutant: the marker alone.                                                *)
Baseline_markeronly(c) ==
  /\ Turn(c) /\ NeedsBaseline(c)
  /\ marker' = marker \cup {c}
  /\ UNCHANGED <<const, now, tree, asset, form, setupT, box, pc, walk, err, opts, history>>

(* normalize_legacy_tree_mtimes(), once for each tree: whatever is at most  *)
(* a Window later than the container gets the time of the container.        *)
Baseline(c) ==
  /\ Turn(c) /\ NeedsBaseline(c)
  /\ LET ref == box[c].t
         D == Below[c] \cap tree
         Time(t) == IF t # 0 /\ t <= ref + Window THEN ref ELSE t
         Reset(F, S) == [d \in Dirs |-> IF d \in S THEN [F[d] EXCEPT !.t = Time(@)] ELSE F[d]]
     IN  /\ asset' = Reset(asset, D) /\ form' = Reset(form, D)
         /\ setupT' = [d \in Dirs |-> IF d \in D THEN Time(setupT[d]) ELSE setupT[d]]
         /\ box' = Reset(box, {e \in Nested : Parent[e] \in D})
         /\ lost' = IF NewerThan(c, ref, asset, form, box) /\ ~NewerThan(c, ref, asset', form', box')
                    THEN lost \cup Missing(c) ELSE lost
  /\ marker' = marker \cup {c}
  /\ UNCHANGED <<const, now, tree, pc, walk, err, opts, want, cut>>

Ref(c) == IF setupT[c] # 0 THEN setupT[c] ELSE box[c].t

(* Mutant: a grace of one tick.                                             *)
NeedsRebuild_grace(c) == box[c].t = 0 \/ NewerThan(c, Ref(c) + 1, asset, form, box)

NeedsRebuild(c) == box[c].t = 0 \/ NewerThan(c, Ref(c), asset, form, box)

Decide(c) == Turn(c) /\ ~NeedsBaseline(c)

(* The directory may go: remove_dir_recursive() is next.                    *)
Release(c) ==
  /\ pc' = "remove" /\ cur' = c
  /\ UNCHANGED <<const, now, tree, setupT, marker, form, imgs, left, err, opts, want, cut>>

(* "Target is already up to date; clean up the leftover .d directory"       *)
UpToDate(c) ==
  /\ Decide(c) /\ ~NeedsRebuild(c)
  /\ lost' = IF Form[c] = "obj" THEN lost \cup (Missing(c) \cap {c}) ELSE lost
  /\ Release(c) /\ UNCHANGED <<asset, box>>

Rebuild(c) == Decide(c) /\ NeedsRebuild(c)

(* CreateSZS() leaves the encoded member behind.                            *)
Encode(c) ==
  asset' = IF Encodes(c) /\ ~test
           THEN [asset EXCEPT ![c] = [v |-> form[c].v, t |-> now]] ELSE asset

Write(c, content) == box' = [box EXCEPT ![c] = [v |-> content, t |-> now]]

(* create_archive_from_dir() without error; CreateSZS() writes the file     *)
(* only if a member differs.                                                *)
Rebuilt(c) ==
  /\ Rebuild(c)
  /\ IF test \/ (c \notin legacy /\ box[c].t # 0 /\ Missing(c) = {})
     THEN UNCHANGED box ELSE Write(c, Packed(c))
  /\ Encode(c) /\ Release(c) /\ UNCHANGED lost

(* The result of CreateFILE() is ignored: no file, but no error either.     *)
Unopened(c) ==
  /\ Rebuild(c) /\ c \notin legacy /\ ~test
  /\ lost' = lost \cup Missing(c)
  /\ Encode(c) /\ Release(c) /\ UNCHANGED box

(* It fails before or while it writes the file; the directory stays.  In    *)
(* the second case, the error stands for all that the file was to hold.     *)
RebuildFails(c) ==
  /\ Rebuild(c)
  /\ err' = TRUE /\ left' = left \ {c}
  /\ \/ UNCHANGED <<asset, box, lost>>
     \/ ~test /\ Encode(c) /\ Write(c, Torn) /\ lost' = lost \cup Below[c]
  /\ UNCHANGED <<const, now, tree, form, setupT, marker, pc, imgs, cur, opts, want, cut>>

Remove ==
  /\ pc = "remove" /\ pc' = "tree"
  /\ Without(Below[cur], {})
  /\ left' = left \ {cur}
  /\ UNCHANGED <<const, now, imgs, cur, err, opts, history>>

-----------------------------------------------------------------------------
(* cmd_create() after the walk.                                             *)

(* Whatever the walk has returned: every directory "*.d" that is left goes, *)
(* and so do the texts beside their binaries.                               *)
Cleanup ==
  /\ pc = "tree" /\ left = {} /\ imgs = {}
  /\ LET texts == {d \in {Root} : Form[d] = "txt" /\ form[d] # Gone /\ asset[d] # Gone}
     IN  /\ Without(tree \ {Root}, texts)
         /\ lost' = IF Encodes(Root) THEN lost \cup texts ELSE lost
  /\ pc' = IF pack THEN "pack" ELSE "done"
  /\ UNCHANGED <<const, now, walk, err, opts, want, cut>>

(* CreateSZS() for the root and the file it makes.                          *)
Pack ==
  /\ pc = "pack"
  /\ \/ /\ IF test \/ Missing(Root) = {} THEN UNCHANGED box ELSE Write(Root, Packed(Root))
        /\ Encode(Root) /\ pc' = "drop" /\ UNCHANGED <<err, lost>>
     \/ /\ ~test  \* CreateFileOpt() fails, which is ignored here, too
        /\ Encode(Root) /\ pc' = "drop" /\ lost' = lost \cup Missing(Root)
        /\ UNCHANGED <<box, err>>
     \/ /\ pc' = "done" /\ err' = TRUE
        /\ UNCHANGED <<asset, box>> \/ (~test /\ Encode(Root) /\ Write(Root, Torn))
        /\ UNCHANGED lost
  /\ UNCHANGED <<const, now, tree, form, setupT, marker, walk, opts, want, cut>>

(* A source "*.d" goes when its archive is there, even if the walk failed.  *)
Drop ==
  /\ pc = "drop" /\ pc' = "done"
  /\ IF dotD /\ ~test THEN Without(tree, {}) ELSE UNCHANGED disk
  /\ UNCHANGED <<const, now, walk, err, opts, history>>

(* The version of asset d that has arrived where this run was to put it.    *)
Output(d) == IF pack THEN box[Root].v[d] ELSE Packed(Root)[d]

(* The process ends; what an error message or --test stands for is known.   *)
End ==
  /\ pc' = "idle" /\ imgs' = {} /\ left' = {} /\ cur' = Root
  /\ err' = FALSE /\ pack' = FALSE /\ test' = FALSE
  /\ lost' = IF err \/ test
              THEN lost \cup {d \in Dirs : want[d] \notin {Output(d)} \cap {Packed(Root)[d]}}
              ELSE lost
  /\ UNCHANGED <<const, now, want>>

Leave == pc = "done" /\ End /\ UNCHANGED <<disk, cut>>

-----------------------------------------------------------------------------
(* The process dies.                                                        *)

Die == Crashes /\ pc \notin {"idle", "done"} /\ End

Crash == Die /\ UNCHANGED <<disk, cut>>

CrashInImage(d) ==
  /\ Die /\ cut' = TRUE
  /\ d \in imgs /\ Ready(d) /\ form[d].t > MaxOf(asset[d].t, setupT[d])
  /\ asset' = [asset EXCEPT ![d] = [v |-> Junk, t |-> now]]
  /\ UNCHANGED <<tree, form, setupT, marker, box>>

(* CreateSZS() has saved its cache by then.                                 *)
CrashInWrite(c) ==
  /\ Die /\ cut' = TRUE /\ ~test
  /\ IF c = Root THEN pc = "pack" ELSE Rebuild(c)
  /\ Encode(c)
  /\ UNCHANGED box \/ Write(c, Torn)
  /\ UNCHANGED <<tree, form, setupT, marker>>

(* Assets A, forms F, setup files S and containers B are gone already.      *)
CrashInRemoval ==
  /\ pc = "remove" /\ Die /\ cut' = TRUE
  /\ \E A, F, S, B \in SUBSET Below[cur] :
       /\ asset' = [d \in Dirs |-> IF d \in A THEN Gone ELSE asset[d]]
       /\ form' = [d \in Dirs |-> IF d \in F THEN Gone ELSE form[d]]
       /\ setupT' = [d \in Dirs |-> IF d \in S THEN 0 ELSE setupT[d]]
       /\ box' = [d \in Dirs |-> IF d \in B \ {cur} THEN [v |-> Torn, t |-> 0] ELSE box[d]]
  /\ UNCHANGED <<tree, marker>>

Next ==
  \/ \E d \in Dirs : Edit(d) \/ Image(d)
  \/ \E p \in BOOLEAN, t \in Tests : Start(p, t)
  \/ \E c \in Nested :
       Baseline(c) \/ UpToDate(c) \/ Rebuilt(c) \/ Unopened(c) \/ RebuildFails(c)
  \/ Remove \/ Cleanup \/ Pack \/ Drop \/ Leave
  \/ Crash \/ CrashInRemoval \/ \E d \in Dirs : CrashInImage(d) \/ CrashInWrite(d)

Spec == Init /\ [][Next]_vars

-----------------------------------------------------------------------------
Times == 0 .. MaxTime

TypeOK ==
  /\ legacy \subseteq Nested /\ dotD \in BOOLEAN
  /\ now \in Times
  /\ tree \subseteq Dirs
  /\ asset \in [Dirs -> [v : Versions, t : Times]]
  /\ form \in [Dirs -> [v : Versions, t : Times]]
  /\ setupT \in [Dirs -> Times] /\ marker \subseteq Dirs
  /\ box \in [Dirs -> [v : [Dirs -> Versions], t : Times]]
  /\ pc \in {"idle", "tree", "remove", "pack", "drop", "done"}
  /\ left \subseteq tree \ {Root} /\ cur \in Dirs
  /\ imgs \subseteq tree /\ \A d \in imgs : form[d] # Gone /\ asset[d] # Gone
  /\ err \in BOOLEAN /\ pack \in BOOLEAN /\ test \in BOOLEAN
  /\ want \in [Dirs -> 0 .. MaxEdits] /\ lost \subseteq Dirs /\ cut \in BOOLEAN

(* Every edit is in the output of a CREATE that ends without an error, no   *)
(* matter how deep the archive, how many runs failed or were killed between *)
(* two steps before, and whether --test came first.  The edits that can be  *)
(* lost without a word are those that lost names: inside the window of a    *)
(* legacy tree, OBJ files of a nested archive in which nothing else has     *)
(* changed, texts of the root, and destinations that cannot be opened.      *)
NoSilentLoss ==
  pc = "done" /\ ~err /\ ~test /\ ~cut =>
    \A d \in Dirs \ lost : (pack \/ d # Root) => Output(d) = want[d]

(* "Editing one leaf does not rewrite its siblings": only archives that     *)
(* hold an edited asset are rebuilt.                                        *)
UntouchedStay ==
  \A c \in Nested : Rebuild(c) => \E d \in Below[c] : want[d] # 0
=============================================================================
