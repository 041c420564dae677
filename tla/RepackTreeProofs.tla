-------------------------- MODULE RepackTreeProofs --------------------------
(* Theorems about RepackTree.                                               *)
EXTENDS RepackTree, TLAPS

(* The files on disk.                                                       *)
FilesOK ==
  /\ tree \subseteq Dirs /\ marker \subseteq Dirs
  /\ asset \in [Dirs -> [v : Versions, t : Times]]
  /\ form \in [Dirs -> [v : Versions, t : Times]]
  /\ setupT \in [Dirs -> Times]
  /\ box \in [Dirs -> [v : [Dirs -> Versions], t : Times]]

RunOK ==
  /\ legacy \subseteq Nested /\ dotD \in BOOLEAN /\ now \in Times
  /\ pc \in {"idle", "tree", "remove", "pack", "drop", "done"}
  /\ cur \in Dirs
  /\ err \in BOOLEAN /\ pack \in BOOLEAN /\ test \in BOOLEAN
  /\ want \in [Dirs -> 0 .. MaxEdits] /\ lost \subseteq Dirs /\ cut \in BOOLEAN

(* What is left to do is there, and what is finished is finished as a whole.*)
Walk ==
  /\ left \subseteq tree \ {Root} /\ imgs \subseteq tree
  /\ \A d \in imgs : form[d] # Gone /\ asset[d] # Gone
  /\ \A c \in Nested : c \notin tree => Below[c] \cap tree = {}
  /\ \A c \in Nested : c \notin left => Below[c] \cap (left \cup imgs) = {}
  /\ pc \notin {"tree", "remove"} => left = {} /\ imgs = {}
  /\ pc = "remove" => /\ cur \in left
                      /\ Below[cur] \cap imgs = {} /\ Below[cur] \cap left = {cur}

Inv == FilesOK /\ RunOK /\ Walk

(* Nothing below c has been edited.                                         *)
Untouched(c) == \A d \in Below[c] : want[d] = 0

(* The latest time a file in an untouched directory may have.               *)
Bound(c) ==
  IF setupT[c] # 0 THEN setupT[c] ELSE IF c \in marker THEN box[c].t ELSE box[c].t + Window

Calm(c) ==
  /\ box[c].t # 0
  /\ setupT[c] <= box[c].t
  /\ asset[c] = Gone \/ form[c].t <= asset[c].t
  /\ asset[c].t <= Bound(c) /\ form[c].t <= Bound(c)
  /\ \A e \in Children(c) : box[e].t <= Bound(c)

CalmInv ==
  /\ \A c \in Nested \cap tree : Untouched(c) => Calm(c)
  /\ pc \in {"tree", "remove"} => \A c \in Nested \cap tree : Untouched(c) => c \in left

-----------------------------------------------------------------------------
(* What the nesting of the archives gives.                                  *)
LEMMA TreeFacts ==
  ASSUME NEW c \in Dirs
  PROVE  /\ c \in Below[c] /\ Below[c] \subseteq Dirs
         /\ \A d \in Below[c] : d \in Dirs /\ Below[d] \subseteq Below[c]
         /\ \A d \in Below[c] \ {c} : \E e \in Children(c) : d \in Below[e]
         /\ \A e \in Children(c) : /\ e \in Nested /\ e \in Dirs /\ e \in Below[e]
                                   /\ Below[e] \subseteq Below[c] /\ c \notin Below[e]
BY RepackAssumption DEF RepackAssumption, Nested, Children

(* A nested archive has a parent, which is not below it.                    *)
LEMMA NestedFacts ==
  ASSUME NEW c \in Nested
  PROVE  /\ c \in Dirs /\ c # Root /\ Parent[c] \in Dirs /\ c \in Children(Parent[c])
         /\ Root \notin Below[c] /\ Below[c] \subseteq Nested /\ Parent[c] \notin Below[c]
<1>1. c \in Dirs /\ c # Root /\ Parent[c] \in Dirs /\ c \in Children(Parent[c]) /\ Below[Root] = Dirs
  BY RepackAssumption DEF RepackAssumption, Nested, Children
<1>2. Parent[c] \notin Below[c]
  BY <1>1, TreeFacts
<1>3. Root \notin Below[c]
  BY <1>1, <1>2, TreeFacts
<1> QED
  BY <1>1, <1>2, <1>3, TreeFacts DEF Nested

(* A container is made of versions.                                         *)
LEMMA PackedType ==
  ASSUME FilesOK, NEW c \in Dirs
  PROVE  Packed(c) \in [Dirs -> Versions]
<1> SUFFICES ASSUME NEW d \in Dirs
             PROVE  (IF d = c THEN (IF Encodes(c) THEN form[c].v ELSE asset[c].v)
                     ELSE IF d \in Below[c]
                          THEN box[CHOOSE e \in Children(c) : d \in Below[e]].v[d]
                          ELSE Junk) \in Versions
  BY DEF Packed
<1>1. CASE d = c
  BY <1>1 DEF FilesOK
<1>2. CASE d # c /\ d \in Below[c]
  <2> DEFINE f == CHOOSE e \in Children(c) : d \in Below[e]
  <2>1. f \in Children(c)
    BY <1>2, TreeFacts
  <2>2. f \in Dirs
    BY <2>1, TreeFacts
  <2> QED
    BY <1>2, <2>2 DEF FilesOK
<1>3. CASE d # c /\ d \notin Below[c]
  BY <1>3, RepackAssumption DEF RepackAssumption, Versions, Junk
<1> QED
  BY <1>1, <1>2, <1>3

LEMMA GoneType == Gone \in [v : Versions, t : Times] /\ Torn \in [Dirs -> Versions]
BY RepackAssumption DEF RepackAssumption, Gone, Torn, Versions, Times, Junk

LEMMA IsGone ==
  ASSUME NEW r \in [v : Versions, t : Times] PROVE r = Gone <=> r.v = Junk /\ r.t = 0
<1>1. r = [v |-> r.v, t |-> r.t]
  OBVIOUS
<1> QED
  BY <1>1 DEF Gone

(* Unlinking files leaves files.                                            *)
LEMMA WithoutType ==
  ASSUME FilesOK, NEW D, NEW T, Without(D, T)
  PROVE  FilesOK'
<1>1. tree' \subseteq Dirs /\ marker' \subseteq Dirs
  BY DEF FilesOK, Without
<1>2. asset' \in [Dirs -> [v : Versions, t : Times]] /\ form' \in [Dirs -> [v : Versions, t : Times]]
  BY GoneType DEF FilesOK, Without
<1>3. setupT' \in [Dirs -> Times]
  BY RepackAssumption DEF RepackAssumption, FilesOK, Without, Times
<1>4. box' \in [Dirs -> [v : [Dirs -> Versions], t : Times]]
  <2>1. [v |-> Torn, t |-> 0] \in [v : [Dirs -> Versions], t : Times]
    BY GoneType, RepackAssumption DEF RepackAssumption, Times
  <2> QED
    BY <2>1 DEF FilesOK, Without
<1> QED
  BY <1>1, <1>2, <1>3, <1>4 DEF FilesOK

(* So does encoding and writing.                                            *)
LEMMA EncodeType ==
  ASSUME FilesOK, RunOK, NEW c \in Dirs, Encode(c)
  PROVE  asset' \in [Dirs -> [v : Versions, t : Times]]
<1>1. [v |-> form[c].v, t |-> now] \in [v : Versions, t : Times]
  BY DEF FilesOK, RunOK
<1> QED
  BY <1>1 DEF FilesOK, Encode

LEMMA WriteType ==
  ASSUME FilesOK, RunOK, NEW c \in Dirs, NEW content \in [Dirs -> Versions], Write(c, content)
  PROVE  box' \in [Dirs -> [v : [Dirs -> Versions], t : Times]]
<1>1. [v |-> content, t |-> now] \in [v : [Dirs -> Versions], t : Times]
  BY DEF RunOK
<1> QED
  BY <1>1 DEF FilesOK, Write

-----------------------------------------------------------------------------
(* Type correctness and the order of the walk.                              *)
LEMMA InitInv == Init => Inv
<1> SUFFICES ASSUME Init PROVE Inv
  OBVIOUS
<1>0. 0 \in Versions /\ Junk \in Versions /\ 0 \in Times /\ 1 \in Times /\ 0 \in 0 .. MaxEdits
  BY RepackAssumption DEF RepackAssumption, Versions, Junk, Times
<1>1. PICK late \in 0 .. Window :
        /\ now = 1 + late
        /\ asset = [d \in Dirs |-> [v |-> 0, t |-> IF d \in legacy THEN 1 + late ELSE 1]]
        /\ form = [d \in Dirs |->
             IF Form[d] = "none" \/ (d \in legacy /\ Form[d] # "png") THEN Gone ELSE asset[d]]
        /\ box = [c \in Dirs |->
             [v |-> [d \in Dirs |-> IF d \in Below[c] THEN 0 ELSE Junk],
              t |-> IF c = Root THEN 1 ELSE IF Parent[c] \in legacy THEN 1 + late ELSE 1]]
  BY DEF Init
<1>2. 1 + late \in Times
  BY RepackAssumption DEF RepackAssumption, Times
<1>3. FilesOK
  <2>1. asset \in [Dirs -> [v : Versions, t : Times]]
    BY <1>0, <1>1, <1>2
  <2>2. form \in [Dirs -> [v : Versions, t : Times]]
    BY <1>1, <2>1, GoneType
  <2>3. box \in [Dirs -> [v : [Dirs -> Versions], t : Times]]
    <3>1. \A c \in Dirs : [d \in Dirs |-> IF d \in Below[c] THEN 0 ELSE Junk] \in [Dirs -> Versions]
      BY <1>0
    <3> QED
      BY <1>0, <1>1, <1>2, <3>1
  <2>4. tree \subseteq Dirs /\ marker \subseteq Dirs /\ setupT \in [Dirs -> Times]
    BY <1>0 DEF Init
  <2> QED
    BY <2>1, <2>2, <2>3, <2>4 DEF FilesOK
<1>4. RunOK
  BY <1>0, <1>1, <1>2, RepackAssumption DEF RepackAssumption, Init, RunOK
<1>5. Walk
  BY DEF Init, Walk, Nested
<1> QED
  BY <1>3, <1>4, <1>5 DEF Inv

LEMMA EditInv == ASSUME Inv, NEW d \in Dirs, Edit(d) PROVE Inv'
<1>1. now + 1 \in Times /\ want[d] + 1 \in Versions /\ want[d] + 1 \in 0 .. MaxEdits
  BY RepackAssumption DEF RepackAssumption, Edit, Inv, RunOK, Times, Versions, Junk
<1>2. [v |-> want[d] + 1, t |-> now + 1] \in [v : Versions, t : Times]
  BY <1>1
<1>3. FilesOK'
  BY <1>2 DEF Edit, Inv, FilesOK
<1>4. RunOK'
  BY <1>1 DEF Edit, Inv, RunOK, const, opts, walk
<1>5. Walk'
  BY DEF Edit, Inv, Walk, walk
<1> QED
  BY <1>3, <1>4, <1>5 DEF Inv

LEMMA StartInv ==
  ASSUME Inv, NEW p \in BOOLEAN, NEW t \in Tests, Start(p, t) PROVE Inv'
<1>1. FilesOK'
  BY DEF Start, Inv, FilesOK, disk, members
<1>2. RunOK'
  <2>1. now' \in Times /\ cur' \in Dirs
    BY RepackAssumption DEF RepackAssumption, Start, Inv, RunOK, Times
  <2>2. pack' \in BOOLEAN /\ test' \in BOOLEAN /\ err' \in BOOLEAN /\ pc' = "tree"
    BY RepackAssumption, Zenon DEF RepackAssumption, Start
  <2>3. UNCHANGED <<const, history>>
    BY DEF Start
  <2> QED
    BY <2>1, <2>2, <2>3 DEF Inv, RunOK, const, history
<1>3. Walk'
  BY DEF Start, Inv, Walk, disk, members, Previews, Nested
<1> QED
  BY <1>1, <1>2, <1>3 DEF Inv

LEMMA ImageInv == ASSUME Inv, NEW d \in Dirs, Image(d) PROVE Inv'
<1>1. FilesOK'
  BY GoneType DEF Image, Inv, FilesOK
<1>2. RunOK'
  BY DEF Image, Inv, RunOK, const, opts, history
<1>3. Walk'
  BY DEF Image, Inv, Walk, FilesOK
<1> QED
  BY <1>1, <1>2, <1>3 DEF Inv

LEMMA BaselineInv == ASSUME Inv, NEW c \in Nested, Baseline(c) PROVE Inv'
<1> DEFINE ref == box[c].t
           D == Below[c] \cap tree
           Time(t) == IF t # 0 /\ t <= ref + Window THEN ref ELSE t
           Reset(F, S) == [d \in Dirs |-> IF d \in S THEN [F[d] EXCEPT !.t = Time(@)] ELSE F[d]]
<1>1. c \in Dirs /\ ref \in Times
  BY DEF Nested, Inv, FilesOK
<1>2. /\ asset' = Reset(asset, D) /\ form' = Reset(form, D)
      /\ setupT' = [d \in Dirs |-> IF d \in D THEN Time(setupT[d]) ELSE setupT[d]]
      /\ box' = Reset(box, {e \in Nested : Parent[e] \in D})
      /\ marker' = marker \cup {c}
      /\ UNCHANGED <<const, now, tree, pc, walk, err, opts, want, cut>>
  BY DEF Baseline
<1>3. \A t \in Times : Time(t) \in Times
  BY <1>1
<1>4. lost' \subseteq Dirs
  BY <1>1, TreeFacts DEF Baseline, Inv, RunOK, Missing
<1> HIDE DEF Time
<1>5. FilesOK'
  BY <1>1, <1>2, <1>3 DEF Inv, FilesOK
<1>6. RunOK'
  BY <1>2, <1>4 DEF Inv, RunOK, const, walk, opts
<1>7. \A d \in Dirs : /\ asset'[d].v = asset[d].v /\ form'[d].v = form[d].v
                      /\ asset'[d].t = 0 => asset[d].t = 0
                      /\ form'[d].t = 0 => form[d].t = 0
  <2>1. \A t \in Times : Time(t) = 0 => t = 0
    BY <1>1 DEF Baseline, NeedsBaseline, Time
  <2> QED
    BY <1>2, <2>1 DEF Inv, FilesOK
<1>8. \A d \in Dirs : /\ asset'[d] = Gone => asset[d] = Gone
                      /\ form'[d] = Gone => form[d] = Gone
  BY <1>5, <1>7, IsGone DEF Inv, FilesOK
<1>9. Walk'
  BY <1>2, <1>8 DEF Inv, Walk, walk, FilesOK
<1> QED
  BY <1>5, <1>6, <1>9 DEF Inv

(* When it is the turn of c, everything below c is finished.                *)
LEMMA TurnDone ==
  ASSUME Inv, NEW c \in Nested, Turn(c)
  PROVE  Below[c] \cap imgs = {} /\ Below[c] \cap left = {c}
<1>1. c \in Dirs /\ Parent[c] \in Dirs /\ c \in Children(Parent[c])
  BY RepackAssumption DEF RepackAssumption, Nested, Children
<1>2. c \in left /\ c \notin imgs /\ Children(c) \cap left = {}
  BY <1>1 DEF Turn, Ready
<1>3. \A e \in Children(c) : Below[e] \cap (left \cup imgs) = {}
  BY <1>1, <1>2, TreeFacts DEF Inv, Walk
<1>4. \A d \in Below[c] \ {c} : d \notin left /\ d \notin imgs
  BY <1>1, <1>3, TreeFacts
<1> QED
  BY <1>1, <1>2, <1>4, TreeFacts

LEMMA ReleaseWalk ==
  ASSUME Inv, NEW c \in Nested, Turn(c), Release(c),
         \A d \in imgs : asset'[d] # Gone
  PROVE  Walk'
BY TurnDone DEF Inv, Walk, Release, Turn, Nested

LEMMA UpToDateInv == ASSUME Inv, NEW c \in Nested, UpToDate(c) PROVE Inv'
<1>1. FilesOK'
  BY DEF UpToDate, Release, Inv, FilesOK
<1>2. RunOK'
  BY TreeFacts DEF UpToDate, Release, Inv, RunOK, Missing, const, opts, Nested
<1>3. Walk'
  BY ReleaseWalk DEF UpToDate, Decide, Inv, Walk
<1> QED
  BY <1>1, <1>2, <1>3 DEF Inv

(* Encoding the member of c touches no preview.                             *)
LEMMA EncodeWalk ==
  ASSUME Inv, NEW c \in Nested, Turn(c), Encode(c)
  PROVE  \A d \in imgs : asset'[d] # Gone
<1>1. c \notin imgs
  BY TurnDone, TreeFacts DEF Nested
<1> QED
  BY <1>1 DEF Encode, Inv, Walk, FilesOK

LEMMA RebuiltInv == ASSUME Inv, NEW c \in Nested, Rebuilt(c) PROVE Inv'
<1>1. c \in Dirs /\ Turn(c)
  BY DEF Nested, Rebuilt, Rebuild, Decide
<1>2. box' \in [Dirs -> [v : [Dirs -> Versions], t : Times]]
  BY <1>1, PackedType, WriteType DEF Rebuilt, Inv, FilesOK
<1>3. FilesOK'
  BY <1>1, <1>2, EncodeType DEF Rebuilt, Release, Inv, FilesOK
<1>4. RunOK'
  BY <1>1 DEF Rebuilt, Release, Inv, RunOK, const, opts
<1>5. Walk'
  BY <1>1, EncodeWalk, ReleaseWalk DEF Rebuilt
<1> QED
  BY <1>3, <1>4, <1>5 DEF Inv

LEMMA UnopenedInv == ASSUME Inv, NEW c \in Nested, Unopened(c) PROVE Inv'
<1>1. c \in Dirs /\ Turn(c)
  BY DEF Nested, Unopened, Rebuild, Decide
<1>2. FilesOK'
  BY <1>1, EncodeType DEF Unopened, Release, Inv, FilesOK
<1>3. RunOK'
  BY <1>1, TreeFacts DEF Unopened, Release, Inv, RunOK, Missing, const, opts
<1>4. Walk'
  BY <1>1, EncodeWalk, ReleaseWalk DEF Unopened
<1> QED
  BY <1>2, <1>3, <1>4 DEF Inv

LEMMA RebuildFailsInv == ASSUME Inv, NEW c \in Nested, RebuildFails(c) PROVE Inv'
<1>1. c \in Dirs /\ Turn(c) /\ pc = "tree" /\ pc' = pc
  BY DEF Nested, RebuildFails, Rebuild, Decide, Turn, Ready
<1>2. /\ asset' \in [Dirs -> [v : Versions, t : Times]]
      /\ box' \in [Dirs -> [v : [Dirs -> Versions], t : Times]]
  BY <1>1, GoneType, EncodeType, WriteType DEF RebuildFails, Inv, FilesOK
<1>3. FilesOK'
  BY <1>2 DEF RebuildFails, Inv, FilesOK
<1>4. RunOK'
  BY <1>1, TreeFacts DEF RebuildFails, Inv, RunOK, const, opts
<1>5. \A d \in imgs : asset'[d] # Gone
  BY <1>1, EncodeWalk DEF RebuildFails, Inv, Walk
<1>6. Walk'
  BY <1>1, <1>5, TurnDone DEF RebuildFails, Inv, Walk
<1> QED
  BY <1>3, <1>4, <1>6 DEF Inv

LEMMA RemoveInv == ASSUME Inv, Remove PROVE Inv'
<1>1. FilesOK'
  BY WithoutType DEF Remove, Inv
<1>2. RunOK'
  BY DEF Remove, Inv, RunOK, const, opts, history
<1>3. cur \in Dirs /\ cur \in Nested /\ Below[cur] \cap imgs = {} /\ Below[cur] \cap left = {cur}
  BY DEF Remove, Inv, RunOK, Walk, Nested
<1>4. tree' = tree \ Below[cur] /\ left' = left \ {cur} /\ imgs' = imgs /\ pc' = "tree"
  BY DEF Remove, Without
<1>5. left' \subseteq tree' \ {Root} /\ imgs' \subseteq tree'
  BY <1>3, <1>4 DEF Inv, Walk
<1>6. \A d \in imgs' : form'[d] # Gone /\ asset'[d] # Gone
  BY <1>3, <1>4 DEF Remove, Without, Inv, Walk, FilesOK
<1>7. \A c \in Nested : c \notin tree' => Below[c] \cap tree' = {}
  BY <1>3, <1>4, TreeFacts DEF Inv, Walk
<1>8. \A c \in Nested : c \notin left' => Below[c] \cap (left' \cup imgs') = {}
  BY <1>3, <1>4 DEF Inv, Walk
<1>9. Walk'
  BY <1>4, <1>5, <1>6, <1>7, <1>8 DEF Walk
<1> QED
  BY <1>1, <1>2, <1>9 DEF Inv

LEMMA CleanupInv == ASSUME Inv, Cleanup PROVE Inv'
<1> DEFINE texts == {d \in {Root} : Form[d] = "txt" /\ form[d] # Gone /\ asset[d] # Gone}
<1>1. Without(tree \ {Root}, texts) /\ pc = "tree" /\ left = {} /\ imgs = {}
  BY DEF Cleanup
<1>2. FilesOK'
  BY <1>1, WithoutType DEF Inv
<1>3. lost' \subseteq Dirs
  BY RepackAssumption DEF RepackAssumption, Cleanup, Inv, RunOK
<1>4. RunOK'
  BY <1>3 DEF Cleanup, Inv, RunOK, const, walk, opts
<1>5. \A c \in Nested : c \notin tree' => Below[c] \cap tree' = {}
  BY <1>1, NestedFacts DEF Without
<1>6. Walk'
  BY <1>1, <1>5 DEF Cleanup, walk, Walk
<1> QED
  BY <1>2, <1>4, <1>6 DEF Inv

LEMMA RootPacks ==
  ASSUME Inv PROVE Root \in Dirs /\ Packed(Root) \in [Dirs -> Versions] /\ Missing(Root) \subseteq Dirs
BY RepackAssumption, PackedType, TreeFacts DEF RepackAssumption, Inv, Missing

LEMMA PackInv == ASSUME Inv, Pack PROVE Inv'
<1>1. /\ asset' \in [Dirs -> [v : Versions, t : Times]]
      /\ box' \in [Dirs -> [v : [Dirs -> Versions], t : Times]]
  BY RootPacks, GoneType, EncodeType, WriteType DEF Pack, Inv, FilesOK
<1>2. FilesOK'
  BY <1>1 DEF Pack, Inv, FilesOK
<1>3. lost' \subseteq Dirs /\ err' \in BOOLEAN /\ pc' \in {"drop", "done"}
  BY RootPacks DEF Pack, Inv, RunOK
<1>4. RunOK'
  BY <1>3 DEF Pack, Inv, RunOK, const, walk, opts
<1>5. Walk'
  BY <1>3 DEF Pack, Inv, Walk, walk
<1> QED
  BY <1>2, <1>4, <1>5 DEF Inv

LEMMA DropInv == ASSUME Inv, Drop PROVE Inv'
<1>1. FilesOK' /\ tree' \subseteq tree
  <2>1. CASE Without(tree, {})
    <3>1. FilesOK'
      BY <2>1, WithoutType DEF Inv
    <3> QED
      BY <2>1, <3>1 DEF Without
  <2>2. CASE UNCHANGED disk
    BY <2>2 DEF Inv, FilesOK, disk, members
  <2> QED
    BY <2>1, <2>2 DEF Drop
<1>2. RunOK'
  BY DEF Drop, Inv, RunOK, const, walk, opts, history
<1>3. tree' = {} \/ tree' = tree
  BY DEF Drop, Without, disk
<1>4. left' = {} /\ imgs' = {} /\ pc' = "done"
  BY DEF Drop, Inv, Walk, walk
<1>5. Walk'
  BY <1>3, <1>4 DEF Inv, Walk
<1> QED
  BY <1>1, <1>2, <1>5 DEF Inv

(* The end of a run, in order or not.                                       *)
LEMMA EndInv ==
  ASSUME Inv, End, FilesOK', UNCHANGED tree, cut' \in BOOLEAN PROVE Inv'
<1>1. lost' \subseteq Dirs
  BY DEF End, Inv, RunOK
<1>2. RunOK'
  BY <1>1, RepackAssumption DEF RepackAssumption, End, Inv, RunOK, const
<1>3. Walk'
  BY DEF End, Inv, Walk
<1> QED
  BY <1>2, <1>3 DEF Inv

LEMMA CrashInv == ASSUME Inv, Crash PROVE Inv'
<1>1. FilesOK' /\ UNCHANGED tree /\ cut' \in BOOLEAN
  BY DEF Crash, Inv, FilesOK, RunOK, disk, members
<1> QED
  BY <1>1, EndInv DEF Crash, Die

LEMMA CrashInImageInv == ASSUME Inv, NEW d \in Dirs, CrashInImage(d) PROVE Inv'
<1>1. [v |-> Junk, t |-> now] \in [v : Versions, t : Times]
  BY GoneType DEF Inv, RunOK, Gone
<1>2. FilesOK'
  BY <1>1 DEF CrashInImage, Inv, FilesOK
<1> QED
  BY <1>2, EndInv DEF CrashInImage, Die

LEMMA CrashInWriteInv == ASSUME Inv, NEW c \in Dirs, CrashInWrite(c) PROVE Inv'
<1>1. /\ asset' \in [Dirs -> [v : Versions, t : Times]]
      /\ box' \in [Dirs -> [v : [Dirs -> Versions], t : Times]]
  BY GoneType, EncodeType, WriteType DEF CrashInWrite, Inv, FilesOK
<1>2. FilesOK'
  BY <1>1 DEF CrashInWrite, Inv, FilesOK
<1> QED
  BY <1>2, EndInv DEF CrashInWrite, Die

LEMMA CrashInRemovalInv == ASSUME Inv, CrashInRemoval PROVE Inv'
<1>1. [v |-> Torn, t |-> 0] \in [v : [Dirs -> Versions], t : Times] /\ 0 \in Times
  BY GoneType, RepackAssumption DEF RepackAssumption, Times
<1>2. FilesOK'
  BY <1>1, GoneType DEF CrashInRemoval, Inv, FilesOK
<1> QED
  BY <1>2, EndInv DEF CrashInRemoval, Die

(* Types and the order of the walk survive every step.                      *)
LEMMA NextInv == Inv /\ [Next]_vars => Inv'
<1> SUFFICES ASSUME Inv, [Next]_vars PROVE Inv'
  OBVIOUS
<1>1. CASE \E d \in Dirs : Edit(d) \/ Image(d)
  BY <1>1, EditInv, ImageInv
<1>2. CASE \E p \in BOOLEAN, t \in Tests : Start(p, t)
  BY <1>2, StartInv
<1>3. CASE \E c \in Nested : Baseline(c) \/ UpToDate(c) \/ Rebuilt(c) \/ Unopened(c) \/ RebuildFails(c)
  BY <1>3, BaselineInv, UpToDateInv, RebuiltInv, UnopenedInv, RebuildFailsInv
<1>4. CASE Remove \/ Cleanup \/ Pack \/ Drop
  BY <1>4, RemoveInv, CleanupInv, PackInv, DropInv
<1>5. CASE Leave
  <2>1. FilesOK' /\ UNCHANGED tree /\ cut' \in BOOLEAN
    BY <1>5 DEF Leave, Inv, FilesOK, RunOK, disk, members
  <2> QED
    BY <1>5, <2>1, EndInv DEF Leave
<1>6. CASE Crash \/ CrashInRemoval \/ \E d \in Dirs : CrashInImage(d) \/ CrashInWrite(d)
  BY <1>6, CrashInv, CrashInImageInv, CrashInWriteInv, CrashInRemovalInv
<1>7. CASE UNCHANGED vars
  <2>1. FilesOK' /\ RunOK' /\ Walk'
    BY <1>7 DEF vars, Inv, FilesOK, RunOK, Walk, disk, members, const, walk, opts, history
  <2> QED
    BY <2>1 DEF Inv
<1> QED
  BY <1>1, <1>2, <1>3, <1>4, <1>5, <1>6, <1>7 DEF Next

LEMMA AlwaysInv == Spec => []Inv
BY InitInv, NextInv, PTL DEF Spec

(* Every variable keeps its type, and the walk's sets hold only what is     *)
(* still there: directories that exist, and previews beside their images.   *)
THEOREM TypeCorrect == Spec => []TypeOK
<1>1. Inv => TypeOK
  BY DEF Inv, FilesOK, RunOK, Walk, TypeOK
<1> QED
  BY <1>1, AlwaysInv, PTL

-----------------------------------------------------------------------------
(* Archives in which nothing was edited.                                    *)

(* What lies below an untouched directory is untouched.                     *)
LEMMA UntouchedBelow ==
  ASSUME NEW c \in Dirs, Untouched(c), NEW d \in Below[c] PROVE Untouched(d)
BY TreeFacts DEF Untouched

(* A calm directory that no edit touches gives no reason for a rebuild.     *)
LEMMA NoRebuild ==
  ASSUME Inv, CalmInv, NEW c \in Nested, Rebuild(c) PROVE ~Untouched(c)
<1> SUFFICES ASSUME Untouched(c) PROVE FALSE
  OBVIOUS
<1>1. pc = "tree" /\ c \in left /\ c \in tree /\ c \in Dirs /\ ~NeedsBaseline(c)
  BY NestedFacts DEF Rebuild, Decide, Turn, Ready, Inv, Walk
<1>2. Calm(c)
  BY <1>1 DEF CalmInv
<1>3. Ref(c) = Bound(c)
  BY <1>1, <1>2 DEF Ref, Bound, NeedsBaseline, Calm
<1>4. \A d \in Below[c] \cap tree : d = c
  <2> SUFFICES ASSUME NEW d \in Below[c] \cap tree, d # c PROVE FALSE
    OBVIOUS
  <2>1. d \in Nested /\ d \notin left
    BY NestedFacts, TurnDone DEF Rebuild, Decide
  <2>2. Untouched(d)
    BY <1>1, UntouchedBelow
  <2> QED
    BY <1>1, <2>1, <2>2 DEF CalmInv
<1>5. ~NewerThan(c, Ref(c), asset, form, box)
  <2> SUFFICES ASSUME \/ asset[c].t > Ref(c) \/ form[c].t > Ref(c)
                      \/ \E e \in Children(c) : box[e].t > Ref(c)
               PROVE  FALSE
    BY <1>4 DEF NewerThan
  <2>1. asset[c].t \in Int /\ form[c].t \in Int /\ Ref(c) \in Int
    BY <1>1, RepackAssumption DEF RepackAssumption, Inv, FilesOK, Ref, Times
  <2>2. \A e \in Children(c) : box[e].t \in Int
    BY RepackAssumption DEF RepackAssumption, Inv, FilesOK, Times, Children, Nested
  <2> QED
    BY <1>2, <1>3, <2>1, <2>2 DEF Calm
<1> QED
  BY <1>2, <1>5 DEF Rebuild, NeedsRebuild, Calm

(* What leaves the files of c alone leaves it calm.                         *)
LEMMA StaysCalm ==
  ASSUME Inv, Inv', NEW c \in Nested, Calm(c),
         asset'[c] = asset[c], form'[c] = form[c], setupT'[c] = setupT[c],
         c \in marker' <=> c \in marker, box'[c] = box[c],
         \A e \in Children(c) : box'[e].t = box[e].t \/ box'[e].t = 0
  PROVE  Calm(c)'
<1>1. Bound(c)' = Bound(c) /\ Bound(c) \in Nat
  BY NestedFacts, RepackAssumption DEF RepackAssumption, Bound, Inv, FilesOK, Times
<1> QED
  BY <1>1 DEF Calm

(* A freshly extracted tree is calm.                                        *)
LEMMA CalmInit == Init => CalmInv
<1> SUFFICES ASSUME Init, Inv, NEW c \in Nested PROVE Calm(c)
  BY InitInv DEF CalmInv, Init
<1>1. PICK late \in 0 .. Window :
        /\ asset = [d \in Dirs |-> [v |-> 0, t |-> IF d \in legacy THEN 1 + late ELSE 1]]
        /\ form = [d \in Dirs |->
             IF Form[d] = "none" \/ (d \in legacy /\ Form[d] # "png") THEN Gone ELSE asset[d]]
        /\ box = [e \in Dirs |->
             [v |-> [d \in Dirs |-> IF d \in Below[e] THEN 0 ELSE Junk],
              t |-> IF e = Root THEN 1 ELSE IF Parent[e] \in legacy THEN 1 + late ELSE 1]]
  BY DEF Init
<1>2. setupT = [d \in Dirs |-> IF d \in legacy THEN 0 ELSE 1] /\ marker = {}
  BY DEF Init
<1>3. c \in Dirs /\ c # Root /\ \A e \in Children(c) : e \in Dirs /\ e # Root /\ Parent[e] = c
  BY NestedFacts DEF Children, Nested
<1>4. /\ box[c].t \in {1, 1 + late}
      /\ asset[c].t = IF c \in legacy THEN 1 + late ELSE 1
      /\ form[c] = Gone \/ form[c] = asset[c]
      /\ \A e \in Children(c) : box[e].t = IF c \in legacy THEN 1 + late ELSE 1
  BY <1>1, <1>3
<1>5. Bound(c) = IF c \in legacy THEN box[c].t + Window ELSE 1
  BY <1>2, <1>3 DEF Bound
<1>6. late \in Nat /\ late <= Window /\ Window \in Nat
  BY RepackAssumption DEF RepackAssumption
<1>7. form[c].t = 0 \/ form[c].t = asset[c].t
  BY <1>4 DEF Gone
<1> QED
  BY <1>2, <1>3, <1>4, <1>5, <1>6, <1>7 DEF Calm

LEMMA EditCalm == ASSUME Inv, Inv', CalmInv, NEW d \in Dirs, Edit(d) PROVE CalmInv'
<1>1. \A c \in Nested : Untouched(c)' => Untouched(c) /\ c # d
  <2> SUFFICES ASSUME NEW c \in Nested, Untouched(c)' PROVE Untouched(c) /\ c # d
    OBVIOUS
  <2>1. want'[d] # 0 /\ \A e \in Dirs \ {d} : want'[e] = want[e]
    BY DEF Edit, Inv, RunOK
  <2>2. d \notin Below[c]
    BY <2>1 DEF Untouched
  <2> QED
    BY <2>1, <2>2, NestedFacts, TreeFacts DEF Untouched
<1>2. \A c \in Nested \ {d} : asset'[c] = asset[c] /\ form'[c] = form[c]
  BY NestedFacts DEF Edit, Inv, FilesOK
<1>3. ASSUME NEW c \in Nested \cap tree', Untouched(c)' PROVE Calm(c)'
  <2>1. Calm(c) /\ c # d
    BY <1>1, <1>3 DEF CalmInv, Edit
  <2> QED
    BY <1>2, <2>1, StaysCalm DEF Edit
<1> QED
  BY <1>3 DEF CalmInv, Edit

LEMMA StartCalm ==
  ASSUME Inv, Inv', CalmInv, NEW p \in BOOLEAN, NEW t \in Tests, Start(p, t) PROVE CalmInv'
<1>1. UNCHANGED <<disk, history>> /\ left' = tree \ {Root}
  BY DEF Start
<1>2. ASSUME NEW c \in Nested \cap tree', Untouched(c)' PROVE Calm(c)' /\ c \in left'
  <2>1. Calm(c)
    BY <1>1, <1>2 DEF CalmInv, disk, history, Untouched
  <2>2. Calm(c)'
    BY <1>1, <2>1, StaysCalm DEF disk, members
  <2> QED
    BY <1>1, <2>2 DEF disk, Nested
<1> QED
  BY <1>2 DEF CalmInv

(* An edited preview belongs to an archive that is not untouched.           *)
LEMMA EditedTouched ==
  ASSUME Inv, CalmInv, NEW d \in imgs, d \in Nested, form[d].t > MaxOf(asset[d].t, setupT[d])
  PROVE  ~Untouched(d)
<1> SUFFICES ASSUME Untouched(d) PROVE FALSE
  OBVIOUS
<1>1. d \in tree /\ asset[d] # Gone /\ d \in Dirs
  BY DEF Inv, Walk, FilesOK
<1>2. form[d].t <= asset[d].t
  BY <1>1 DEF CalmInv, Calm
<1>3. form[d].t \in Int /\ asset[d].t \in Int /\ setupT[d] \in Int
  BY <1>1, RepackAssumption DEF RepackAssumption, Inv, FilesOK, Times
<1> QED
  BY <1>2, <1>3 DEF MaxOf

LEMMA ImageCalm == ASSUME Inv, Inv', CalmInv, NEW d \in Dirs, Image(d) PROVE CalmInv'
<1>1. ASSUME NEW c \in Nested \cap tree', Untouched(c)' PROVE Calm(c)' /\ c \in left'
  <2>1. Calm(c) /\ Untouched(c) /\ c \in left' /\ c \in Dirs
    BY <1>1, NestedFacts DEF CalmInv, Image, history, Untouched, Ready
  <2>2. CASE c # d
    <3>1. asset'[c] = asset[c] /\ form'[c] = form[c]
      BY <2>1, <2>2 DEF Image, Inv, FilesOK
    <3> QED
      BY <2>1, <3>1, StaysCalm DEF Image
  <2>3. CASE c = d
    <3>1. UNCHANGED asset
      BY <2>1, <2>3, EditedTouched DEF Image
    <3>2. form'[c].t = 0
      BY <2>1, <2>3 DEF Image, Inv, FilesOK, Gone
    <3>3. Bound(c)' = Bound(c) /\ Bound(c) \in Nat /\ asset[c].t \in Nat
      BY <2>1, RepackAssumption DEF RepackAssumption, Bound, Inv, FilesOK, Times, Image
    <3> QED
      BY <2>1, <3>1, <3>2, <3>3 DEF Calm, Image
  <2> QED
    BY <2>1, <2>2, <2>3
<1> QED
  BY <1>1 DEF CalmInv

LEMMA BaselineCalm == ASSUME Inv, Inv', CalmInv, NEW b \in Nested, Baseline(b) PROVE CalmInv'
<1> DEFINE ref == box[b].t
           D == Below[b] \cap tree
           Time(t) == IF t # 0 /\ t <= ref + Window THEN ref ELSE t
           Reset(F, S) == [d \in Dirs |-> IF d \in S THEN [F[d] EXCEPT !.t = Time(@)] ELSE F[d]]
<1>1. /\ asset' = Reset(asset, D) /\ form' = Reset(form, D)
      /\ setupT' = [d \in Dirs |-> IF d \in D THEN Time(setupT[d]) ELSE setupT[d]]
      /\ box' = Reset(box, {e \in Nested : Parent[e] \in D})
      /\ marker' = marker \cup {b}
      /\ UNCHANGED <<tree, pc, walk, want>>
  BY DEF Baseline
<1>2. pc = "tree" /\ b \in left /\ b \in tree /\ b \in Dirs /\ b \in D /\ setupT[b] = 0 /\ ref # 0 /\ b \notin marker
  BY NestedFacts, TreeFacts DEF Baseline, Turn, Ready, NeedsBaseline, Inv, Walk
<1>3. ref \in Nat /\ Window \in Nat
  BY <1>2, RepackAssumption DEF RepackAssumption, Inv, FilesOK, Times
<1>4. ASSUME NEW c \in Nested \cap tree', Untouched(c)' PROVE Calm(c)' /\ c \in left'
  <2>1. Calm(c) /\ Untouched(c) /\ c \in left' /\ c \in Dirs /\ c \in left
    BY <1>1, <1>2, <1>4, NestedFacts DEF CalmInv, walk, Untouched
  <2>2. CASE c # b
    <3>1. c \notin Below[b]
      BY <1>2, <2>1, <2>2, TurnDone DEF Baseline
    <3>2. Parent[c] \notin Below[b]
      BY <1>2, <3>1, NestedFacts, TreeFacts
    <3>3. asset'[c] = asset[c] /\ form'[c] = form[c] /\ setupT'[c] = setupT[c] /\ box'[c] = box[c]
      BY <1>1, <2>1, <3>1, <3>2
    <3>4. \A e \in Children(c) : box'[e] = box[e]
      BY <1>1, <3>1, NestedFacts DEF Children, Nested
    <3> QED
      BY <1>1, <2>1, <2>2, <3>3, <3>4, StaysCalm
  <2>3. CASE c = b
    <3>1. Bound(b) = ref + Window
      BY <1>2 DEF Bound
    <3>2. /\ asset[b] \in [v : Versions, t : Times] /\ form[b] \in [v : Versions, t : Times]
          /\ asset'[b] = [asset[b] EXCEPT !.t = Time(@)]
          /\ form'[b] = [form[b] EXCEPT !.t = Time(@)]
      BY <1>1, <1>2 DEF Inv, FilesOK
    <3>3. setupT'[b] = 0 /\ box'[b] = box[b]
      BY <1>1, <1>2, NestedFacts, RepackAssumption DEF RepackAssumption
    <3>4. \A e \in Children(b) : box[e] \in [v : [Dirs -> Versions], t : Times]
                                 /\ box'[e] = [box[e] EXCEPT !.t = Time(@)]
      <4> SUFFICES ASSUME NEW e \in Children(b)
                   PROVE  /\ box[e] \in [v : [Dirs -> Versions], t : Times]
                          /\ box'[e] = [box[e] EXCEPT !.t = Time(@)]
        OBVIOUS
      <4>1. e \in Dirs /\ e \in Nested /\ Parent[e] \in D
        BY <1>2, TreeFacts DEF Children
      <4> HIDE DEF Time
      <4> QED
        BY <1>1, <4>1 DEF Inv, FilesOK
    <3>5. \A t \in Times : t <= ref + Window => Time(t) <= ref
      BY <1>3, RepackAssumption DEF RepackAssumption, Times
    <3>6. Bound(b)' = ref
      BY <1>1, <1>2, <3>3 DEF Bound
    <3>7. /\ asset'[b].t = Time(asset[b].t) /\ form'[b].t = Time(form[b].t)
          /\ asset[b].t \in Times /\ form[b].t \in Times
          /\ \A e \in Children(b) : box'[e].t = Time(box[e].t) /\ box[e].t \in Times
      <4> HIDE DEF Time
      <4>1. \A r \in [v : Versions, t : Times] : [r EXCEPT !.t = Time(@)].t = Time(r.t)
        OBVIOUS
      <4>2. \A r \in [v : [Dirs -> Versions], t : Times] : [r EXCEPT !.t = Time(@)].t = Time(r.t)
        OBVIOUS
      <4>3. asset[b].t \in Times /\ form[b].t \in Times /\ \A e \in Children(b) : box[e].t \in Times
        BY <3>2, <3>4
      <4>4. asset'[b].t = Time(asset[b].t) /\ form'[b].t = Time(form[b].t)
        BY <3>2, <4>1
      <4>5. \A e \in Children(b) : box'[e].t = Time(box[e].t)
        BY <3>4, <4>2
      <4> QED
        BY <4>3, <4>4, <4>5
    <3>8. /\ asset'[b].t <= ref /\ form'[b].t <= ref
          /\ \A e \in Children(b) : box'[e].t <= ref
      BY <2>1, <2>3, <3>1, <3>5, <3>7 DEF Calm
    <3>9. asset'[b] = Gone \/ form'[b].t <= asset'[b].t
      <4>1. CASE asset[b] = Gone
        BY <3>2, <4>1 DEF Gone
      <4>2. CASE form[b].t <= asset[b].t
        <5>1. asset[b].t \in Nat /\ form[b].t \in Nat
          BY <3>7, RepackAssumption DEF RepackAssumption, Times
        <5> QED
          BY <1>3, <3>7, <4>2, <5>1
      <4> QED
        BY <2>1, <2>3, <4>1, <4>2 DEF Calm
    <3> QED
      BY <1>2, <1>3, <2>1, <2>3, <3>3, <3>6, <3>8, <3>9 DEF Calm
  <2> QED
    BY <2>2, <2>3
<1> QED
  BY <1>1, <1>2, <1>4 DEF CalmInv

(* A step for an archive b that is not untouched, and for nothing else.     *)
LEMMA TouchedStep ==
  ASSUME Inv, Inv', CalmInv, NEW b \in Dirs, b = Root \/ ~Untouched(b),
         \A d \in Dirs \ {b} : asset'[d] = asset[d] /\ box'[d] = box[d],
         UNCHANGED <<tree, form, setupT, marker, want>>,
         \A c \in Nested : c \in left /\ pc' \in {"tree", "remove"} => c \in left' \/ c = b,
         pc' \in {"tree", "remove"} => pc \in {"tree", "remove"} /\ b # Root
  PROVE  CalmInv'
<1>1. ASSUME NEW c \in Nested \cap tree', Untouched(c)'
      PROVE  Calm(c)' /\ (pc' \in {"tree", "remove"} => c \in left')
  <2>1. Calm(c) /\ Untouched(c) /\ c \in Dirs /\ c # b
    BY <1>1, NestedFacts DEF CalmInv, Untouched
  <2>2. \A e \in Children(c) : e \in Dirs /\ e # b
    BY <2>1, TreeFacts, UntouchedBelow DEF Nested
  <2>3. Calm(c)'
    BY <2>1, <2>2, StaysCalm
  <2> QED
    BY <1>1, <2>1, <2>3 DEF CalmInv
<1> QED
  BY <1>1 DEF CalmInv

(* The turn of one archive leaves the untouched others calm.                *)
LEMMA WalkCalm ==
  ASSUME Inv, Inv', CalmInv, NEW c \in Nested,
         UpToDate(c) \/ Rebuilt(c) \/ Unopened(c) \/ RebuildFails(c)
  PROVE  CalmInv'
<1>1. c \in Dirs /\ c # Root /\ pc = "tree"
  BY NestedFacts DEF UpToDate, Rebuilt, Unopened, RebuildFails, Rebuild, Decide, Turn, Ready
<1>2. CASE UpToDate(c)
  <2>1. UNCHANGED <<disk, left, want>>
    BY <1>2 DEF UpToDate, Release, disk, members
  <2>2. ASSUME NEW d \in Nested \cap tree', Untouched(d)' PROVE Calm(d)' /\ d \in left'
    <3>1. Calm(d) /\ d \in left
      BY <1>1, <2>1, <2>2 DEF CalmInv, disk, members, Untouched
    <3> QED
      BY <2>1, <3>1, StaysCalm DEF disk, members
  <2> QED
    BY <2>2 DEF CalmInv
<1>3. CASE Rebuilt(c) \/ Unopened(c) \/ RebuildFails(c)
  <2>1. ~Untouched(c)
    BY <1>3, NoRebuild DEF Rebuilt, Unopened, RebuildFails
  <2>2. \A d \in Dirs \ {c} : asset'[d] = asset[d] /\ box'[d] = box[d]
    BY <1>3 DEF Rebuilt, Unopened, RebuildFails, Encode, Write, Inv, FilesOK
  <2>3. UNCHANGED <<tree, form, setupT, marker, want>>
    BY <1>3 DEF Rebuilt, Unopened, RebuildFails, Release
  <2>4. left' = left \/ left' = left \ {c}
    BY <1>3 DEF Rebuilt, Unopened, RebuildFails, Release
  <2> QED
    BY <1>1, <2>1, <2>2, <2>3, <2>4, TouchedStep
<1> QED
  BY <1>2, <1>3

LEMMA RemoveCalm == ASSUME Inv, Inv', CalmInv, Remove PROVE CalmInv'
<1>1. cur \in Dirs /\ cur \in Nested /\ pc = "remove"
  BY DEF Remove, Inv, RunOK, Walk, Nested
<1>2. ASSUME NEW c \in Nested \cap tree', Untouched(c)' PROVE Calm(c)' /\ c \in left'
  <2>1. c \in Dirs /\ c \in tree /\ c \notin Below[cur] /\ Calm(c) /\ c \in left
    BY <1>1, <1>2, NestedFacts DEF Remove, Without, CalmInv, Untouched, history
  <2>2. c # cur /\ c \in left'
    BY <1>1, <2>1, TreeFacts DEF Remove
  <2>3. Parent[c] \notin Below[cur] /\ c # Root
    BY <1>1, <2>1, NestedFacts, TreeFacts
  <2>4. /\ asset'[c] = asset[c] /\ form'[c] = form[c] /\ setupT'[c] = setupT[c]
        /\ c \in marker' <=> c \in marker
        /\ box'[c] = box[c]
    BY <2>1, <2>3 DEF Remove, Without
  <2>5. \A e \in Children(c) : box'[e].t = box[e].t \/ box'[e].t = 0
    BY <2>1, TreeFacts DEF Remove, Without
  <2> QED
    BY <2>1, <2>2, <2>4, <2>5, StaysCalm
<1> QED
  BY <1>2 DEF CalmInv

(* So does what follows the walk.                                           *)
LEMMA AfterCalm ==
  ASSUME Inv, Inv', CalmInv, Cleanup \/ Pack \/ Drop \/ Leave \/ Crash PROVE CalmInv'
<1>1. CASE Cleanup
  BY <1>1 DEF Cleanup, Without, CalmInv, Nested
<1>2. CASE Pack
  <2>1. \A d \in Dirs \ {Root} : asset'[d] = asset[d] /\ box'[d] = box[d]
    BY <1>2 DEF Pack, Encode, Write, Inv, FilesOK
  <2>2. Root \in Dirs /\ pc' \in {"drop", "done"}
    BY <1>2, RepackAssumption DEF RepackAssumption, Pack
  <2> QED
    BY <1>2, <2>1, <2>2, TouchedStep DEF Pack
<1>3. CASE Drop /\ tree' = {}
  BY <1>3 DEF Drop, CalmInv
<1>4. CASE UNCHANGED <<disk, want>> /\ pc' \notin {"tree", "remove"}
  <2>1. ASSUME NEW c \in Nested \cap tree', Untouched(c)' PROVE Calm(c)'
    BY <1>4, <2>1, StaysCalm DEF CalmInv, disk, members, Untouched
  <2> QED
    BY <1>4, <2>1 DEF CalmInv
<1>5. CASE Drop /\ tree' # {}
  BY <1>4, <1>5 DEF Drop, Without, history
<1>6. CASE Leave \/ Crash
  BY <1>4, <1>6 DEF Leave, Crash, Die, End
<1> QED
  BY <1>1, <1>2, <1>3, <1>5, <1>6

LEMMA CrashCalm ==
  ASSUME Inv, Inv', CalmInv, NEW d \in Dirs, CrashInImage(d) \/ CrashInWrite(d) PROVE CalmInv'
<1>1. d = Root \/ ~Untouched(d)
  <2>1. CASE CrashInImage(d)
    BY <2>1, EditedTouched DEF CrashInImage, Nested
  <2>2. CASE CrashInWrite(d)
    BY <2>2, NoRebuild DEF CrashInWrite, Nested
  <2> QED
    BY <2>1, <2>2
<1>2. \A e \in Dirs \ {d} : asset'[e] = asset[e] /\ box'[e] = box[e]
  BY DEF CrashInImage, CrashInWrite, Encode, Write, Inv, FilesOK
<1>3. pc' = "idle" /\ UNCHANGED <<tree, form, setupT, marker, want>>
  BY DEF CrashInImage, CrashInWrite, Die, End
<1> QED
  BY <1>1, <1>2, <1>3, TouchedStep

LEMMA CrashInRemovalCalm == ASSUME Inv, Inv', CalmInv, CrashInRemoval PROVE CalmInv'
<1>1. PICK A, F, S, B \in SUBSET Below[cur] :
        /\ asset' = [d \in Dirs |-> IF d \in A THEN Gone ELSE asset[d]]
        /\ form' = [d \in Dirs |-> IF d \in F THEN Gone ELSE form[d]]
        /\ setupT' = [d \in Dirs |-> IF d \in S THEN 0 ELSE setupT[d]]
        /\ box' = [d \in Dirs |-> IF d \in B \ {cur} THEN [v |-> Torn, t |-> 0] ELSE box[d]]
  BY DEF CrashInRemoval
<1>2. pc = "remove" /\ pc' = "idle" /\ UNCHANGED <<tree, marker, want>>
  BY DEF CrashInRemoval, Die, End
<1>3. cur \in Dirs /\ cur \in Nested /\ Below[cur] \cap left = {cur}
  BY <1>2 DEF Inv, RunOK, Walk, Nested
<1>4. ASSUME NEW c \in Nested \cap tree', Untouched(c)' PROVE Calm(c)'
  <2>1. c \in Dirs /\ Calm(c) /\ c \in left
    BY <1>2, <1>4, NestedFacts DEF CalmInv, Untouched
  <2>2. \A e \in Children(c) : box'[e].t = box[e].t \/ box'[e].t = 0
    BY <1>1, <2>1, TreeFacts
  <2>3. CASE c \notin Below[cur]
    BY <1>1, <1>2, <2>1, <2>2, <2>3, StaysCalm
  <2>4. CASE c \in Below[cur]
    <3>1. c = cur
      BY <1>3, <2>1, <2>4
    <3>2. /\ box'[c] = box[c]
          /\ asset'[c] = Gone \/ asset'[c] = asset[c]
          /\ form'[c] = Gone \/ form'[c] = form[c]
          /\ setupT'[c] = 0 \/ setupT'[c] = setupT[c]
      BY <1>1, <2>1, <3>1
    <3>3. /\ asset[c].t \in Nat /\ form[c].t \in Nat /\ setupT[c] \in Nat
          /\ box[c].t \in Nat /\ Window \in Nat /\ Gone.t = 0
          /\ \A e \in Children(c) : box[e].t \in Nat
      BY <2>1, TreeFacts, RepackAssumption DEF RepackAssumption, Inv, FilesOK, Times, Gone
    <3>4. Bound(c) \in Nat /\ Bound(c)' \in Nat /\ Bound(c) <= Bound(c)'
      BY <1>2, <2>1, <3>2, <3>3 DEF Bound, Calm
    <3>5. asset'[c].t <= Bound(c)' /\ form'[c].t <= Bound(c)'
      BY <2>1, <3>2, <3>3, <3>4 DEF Calm
    <3>6. \A e \in Children(c) : box'[e].t <= Bound(c)'
      BY <2>1, <2>2, <3>3, <3>4 DEF Calm
    <3>7. asset'[c] = Gone \/ form'[c].t <= asset'[c].t
      BY <2>1, <3>2, <3>3 DEF Calm
    <3>8. setupT'[c] <= box'[c].t /\ box'[c].t # 0
      BY <2>1, <3>2, <3>3 DEF Calm
    <3> QED
      BY <3>5, <3>6, <3>7, <3>8 DEF Calm
  <2> QED
    BY <2>3, <2>4
<1> QED
  BY <1>2, <1>4 DEF CalmInv

(* Untouched directories stay calm in every step.                           *)
LEMMA CalmNext == Inv /\ Inv' /\ CalmInv /\ [Next]_vars => CalmInv'
<1> SUFFICES ASSUME Inv, Inv', CalmInv, [Next]_vars PROVE CalmInv'
  OBVIOUS
<1>1. CASE \E d \in Dirs : Edit(d) \/ Image(d)
  BY <1>1, EditCalm, ImageCalm
<1>2. CASE \E p \in BOOLEAN, t \in Tests : Start(p, t)
  BY <1>2, StartCalm
<1>3. CASE \E c \in Nested : Baseline(c) \/ UpToDate(c) \/ Rebuilt(c) \/ Unopened(c) \/ RebuildFails(c)
  BY <1>3, BaselineCalm, WalkCalm
<1>4. CASE Remove \/ Cleanup \/ Pack \/ Drop \/ Leave
  BY <1>4, RemoveCalm, AfterCalm
<1>5. CASE Crash \/ CrashInRemoval \/ \E d \in Dirs : CrashInImage(d) \/ CrashInWrite(d)
  BY <1>5, AfterCalm, CrashCalm, CrashInRemovalCalm
<1>6. CASE UNCHANGED vars
  <2>1. UNCHANGED <<disk, want, pc, left>>
    BY <1>6 DEF vars, walk, history
  <2>2. ASSUME NEW c \in Nested \cap tree', Untouched(c)'
        PROVE  Calm(c)' /\ (pc' \in {"tree", "remove"} => c \in left')
    BY <2>1, <2>2, StaysCalm DEF CalmInv, disk, members, Untouched
  <2> QED
    BY <2>2 DEF CalmInv
<1> QED
  BY <1>1, <1>2, <1>3, <1>4, <1>5, <1>6 DEF Next

(* An archive below which nothing was edited is never rebuilt, however deep *)
(* it lies, whatever failed or died before, and whether its tree has a setup*)
(* file, a baseline marker or neither.                                      *)
THEOREM SiblingsStay == Spec => []UntouchedStay
<1>1. Inv /\ CalmInv => UntouchedStay
  <2> SUFFICES ASSUME Inv, CalmInv, NEW c \in Nested, Rebuild(c)
               PROVE  \E d \in Below[c] : want[d] # 0
    BY DEF UntouchedStay
  <2> QED
    BY NoRebuild DEF Untouched
<1> QED
  BY <1>1, AlwaysInv, CalmInit, CalmNext, PTL DEF Spec

-----------------------------------------------------------------------------
(* Edits that are lost.                                                     *)

(* No version is later than the one the user saved, no time later than now. *)
Past ==
  \A d \in Dirs :
    /\ asset[d].v <= want[d] /\ form[d].v <= want[d]
    /\ asset[d].t <= now /\ form[d].t <= now /\ setupT[d] <= now /\ box[d].t <= now
    /\ \A c \in Dirs : box[c].v[d] <= want[d]

(* Texts come with a setup file, and the walk sees to every preview.        *)
Forms ==
  /\ \A d \in imgs : Form[d] = "png"
  /\ \A d \in Dirs : Form[d] = "none" => form[d] = Gone
  /\ \A d \in tree :
       /\ asset[d].t # 0
       /\ form[d] # Gone /\ Form[d] \in {"txt", "obj"} => setupT[d] # 0
       /\ form[d] # Gone /\ Form[d] = "png" /\ pc # "idle" => d \in imgs

(* A form with an older version is not newer than the asset with the last.  *)
NewestWins ==
  \A d \in tree : asset[d].v = want[d] /\ form[d].v # want[d] => form[d].t <= asset[d].t

(* The container of e is there, alone or beside its directory.              *)
Above(e) == e \in tree \/ (e \in Nested /\ Parent[e] \in tree)

(* An edit that has reached a container has passed all containers below.    *)
FromBelow ==
  \A c \in Nested \cap tree : \A d \in Below[c] \ lost :
    box[c].v[d] = want[d] =>
      /\ \A e \in Below[c] : d \in Below[e] /\ Above(e) => box[e].v[d] = want[d]
      /\ d \in tree => asset[d].v = want[d]

Stages ==
  /\ pc = "idle" => ~err /\ ~test
  /\ pc \in {"pack", "drop"} => pack
  /\ pc \in {"tree", "remove", "pack", "drop"} \/ (pc = "done" /\ ~pack) => Root \in tree

(* An edited form that the next run will see.                               *)
Edited(d) ==
  /\ form[d].v = want[d] /\ form[d].t > asset[d].t
  /\ IF Form[d] = "png" THEN form[d].t > setupT[d] ELSE setupT[d] # 0

Local == \A d \in tree \ lost : asset[d].v = want[d] \/ Edited(d)

(* Containers without a directory hold all that was edited below them.      *)
Finished ==
  \A e \in Nested \ tree : Parent[e] \in tree => \A d \in Below[e] \ lost : box[e].v[d] = want[d]

(* A file in the directory of c is newer than what it is compared with.     *)
Fresh(c) ==
  \/ asset[c].t > Ref(c)
  \/ Form[c] # "obj" /\ form[c].t > Ref(c)
  \/ \E e \in Children(c) : box[e].t > Ref(c)

(* The container of c has the asset of c and all that is in those below.    *)
Passed(c) ==
  /\ c \notin lost => box[c].v[c] = want[c] \/ (Form[c] = "obj" /\ asset[c].v # want[c])
  /\ \A f \in Children(c) : \A d \in Below[f] \ lost :
       box[f].v[d] = want[d] => box[c].v[d] = want[d]

(* What a container lacks shows in the times of its directory.              *)
Rising == \A c \in Nested \cap tree : Fresh(c) \/ Passed(c)

InRun ==
  /\ pc \in {"tree", "remove"} =>
       /\ Nested \cap tree \subseteq left
       /\ \A c \in Nested \cap tree :
            setupT[c] < now /\ (pc = "tree" \/ c # cur => box[c].t < now)
  /\ pc = "remove" => \A d \in Below[cur] \ lost : box[cur].v[d] = want[d]
  /\ pc \in {"pack", "drop", "done"} => Nested \cap tree = {}
  /\ pc \in {"drop", "done"} /\ pack => \A d \in Dirs \ lost : box[Root].v[d] = want[d]

Kept == Past /\ Forms /\ NewestWins /\ FromBelow /\ Stages
Good == Local /\ Finished /\ Rising /\ InRun

Accounted == Kept /\ (~err /\ ~test => Good)

LossInv == ~cut => Accounted

-----------------------------------------------------------------------------
(* Versions and times are numbers.                                          *)
LEMMA Numbers ==
  ASSUME Inv, NEW d \in Dirs
  PROVE  /\ asset[d] = [v |-> asset[d].v, t |-> asset[d].t]
         /\ form[d] = [v |-> form[d].v, t |-> form[d].t]
         /\ asset[d].v \in Int /\ form[d].v \in Int /\ want[d] \in Nat /\ now \in Nat
         /\ asset[d].t \in Nat /\ form[d].t \in Nat /\ setupT[d] \in Nat /\ box[d].t \in Nat
         /\ \A c \in Dirs : box[c].v[d] \in Int
BY RepackAssumption DEF RepackAssumption, Inv, FilesOK, RunOK, Versions, Times, Junk

LEMMA NumbersNext ==
  ASSUME Inv', NEW d \in Dirs
  PROVE  /\ asset'[d].v \in Int /\ form'[d].v \in Int /\ want'[d] \in Nat /\ now' \in Nat
         /\ asset'[d].t \in Nat /\ form'[d].t \in Nat /\ setupT'[d] \in Nat /\ box'[d].t \in Nat
         /\ \A c \in Dirs : box'[c].v[d] \in Int
BY RepackAssumption DEF RepackAssumption, Inv, FilesOK, RunOK, Versions, Times, Junk

LEMMA NothingIsOld == Gone.v = Junk /\ Gone.t = 0 /\ Junk < 0 /\ \A d \in Dirs : Torn[d] = Junk
BY DEF Gone, Junk, Torn

(* Two archives are not below each other.                                   *)
LEMMA NotBelowEachOther ==
  ASSUME NEW c \in Dirs, NEW e \in Below[c], c \in Below[e] PROVE e = c
<1> SUFFICES ASSUME e # c PROVE FALSE
  OBVIOUS
<1>1. PICK f \in Children(c) : e \in Below[f]
  BY TreeFacts
<1>2. Below[e] \subseteq Below[f] /\ c \notin Below[f]
  BY <1>1, TreeFacts
<1> QED
  BY <1>2

(* The parent of what lies strictly below c lies below c.                   *)
LEMMA ParentBelow ==
  ASSUME NEW c \in Dirs, NEW e \in Below[c] \ {c}
  PROVE  e \in Nested /\ Parent[e] \in Below[c]
<1>1. e \in Dirs /\ Below[Root] = Dirs
  BY TreeFacts, RepackAssumption DEF RepackAssumption
<1>2. e # Root
  BY <1>1, NotBelowEachOther
<1> QED
  BY <1>1, <1>2, RepackAssumption DEF RepackAssumption, Nested

(* What a container gets from the one below.                                *)
LEMMA PackedChild ==
  ASSUME NEW c \in Dirs, NEW f \in Children(c), NEW d \in Below[f]
  PROVE  Packed(c)[d] = box[f].v[d]
<1>1. d \in Dirs /\ d \in Below[c] /\ d # c
  BY TreeFacts
<1>2. \A e \in Children(c) : d \in Below[e] => e = f
  BY RepackAssumption DEF RepackAssumption
<1>3. (CHOOSE e \in Children(c) : d \in Below[e]) = f
  BY <1>2
<1> QED
  BY <1>1, <1>3 DEF Packed

LEMMA PackedSelf ==
  ASSUME NEW c \in Dirs PROVE Packed(c)[c] = IF Encodes(c) THEN form[c].v ELSE asset[c].v
BY DEF Packed

(* The member that is encoded keeps the last version.                       *)
LEMMA SelfWants ==
  ASSUME Inv, NewestWins, NEW c \in tree, asset[c].v = want[c] PROVE Packed(c)[c] = want[c]
<1>1. c \in Dirs
  BY DEF Inv, FilesOK
<1>2. asset[c].t \in Nat /\ form[c].t \in Nat
  BY <1>1, Numbers
<1> QED
  BY <1>1, <1>2, PackedSelf DEF NewestWins, Encodes

(* In a run, an asset goes into its container with the last version.        *)
LEMMA SelfArrives ==
  ASSUME Inv, Kept, Local, pc # "idle", NEW c \in tree \ lost, c \notin imgs
  PROVE  Packed(c)[c] = want[c]
<1>1. c \in Dirs
  BY DEF Inv, FilesOK
<1>2. CASE asset[c].v = want[c]
  BY <1>2, SelfWants DEF Kept
<1>3. CASE Edited(c)
  <2>1. form[c].t \in Nat /\ asset[c].t \in Nat
    BY <1>1, Numbers
  <2>2. form[c] # Gone
    BY <1>3, <2>1, NothingIsOld DEF Edited
  <2>3. Form[c] \in {"txt", "obj"}
    BY <1>1, <2>2, RepackAssumption DEF RepackAssumption, Kept, Forms
  <2>4. Encodes(c)
    BY <1>3, <2>3 DEF Edited, Encodes
  <2> QED
    BY <1>1, <1>3, <2>4, PackedSelf DEF Edited
<1> QED
  BY <1>2, <1>3 DEF Local

(* When everything below c is finished, its container gets everything.      *)
LEMMA AllArrives ==
  ASSUME Inv, Kept, Local, Finished, pc # "idle", NEW c \in tree, c \notin imgs,
         Below[c] \cap tree = {c}
  PROVE  \A d \in Below[c] \ lost : Packed(c)[d] = want[d]
<1> SUFFICES ASSUME NEW d \in Below[c] \ lost PROVE Packed(c)[d] = want[d]
  OBVIOUS
<1>1. c \in Dirs
  BY DEF Inv, FilesOK
<1>2. CASE d = c
  BY <1>2, SelfArrives
<1>3. CASE d # c
  <2>1. PICK f \in Children(c) : d \in Below[f]
    BY <1>1, <1>3, TreeFacts
  <2>2. f \in Nested /\ Parent[f] = c /\ f \in Below[c] /\ f # c
    BY <1>1, <2>1, TreeFacts DEF Children
  <2>3. box[f].v[d] = want[d]
    BY <2>1, <2>2 DEF Finished
  <2> QED
    BY <1>1, <2>1, <2>3, PackedChild
<1> QED
  BY <1>2, <1>3

(* Encoding puts the last version into the asset if it was there before.    *)
LEMMA EncodeKeeps ==
  ASSUME Inv, Kept, NEW c \in tree, Encode(c)
  PROVE  /\ \A d \in Dirs \ {c} : asset'[d] = asset[d]
         /\ asset[c].v = want[c] => asset'[c].v = want[c]
         /\ \/ asset'[c] = asset[c]
            \/ Encodes(c) /\ asset'[c].v = form[c].v /\ asset'[c].t = now /\ now # 0
<1>1. c \in Dirs
  BY DEF Inv, FilesOK
<1>2. \A d \in Dirs \ {c} : asset'[d] = asset[d]
  BY DEF Encode, Inv, FilesOK
<1>3. asset[c].t \in Nat /\ form[c].t \in Nat /\ now \in Nat /\ form[c].t <= now
  BY <1>1, Numbers DEF Kept, Past
<1>4. CASE Encodes(c) /\ ~test
  <2>1. asset'[c].v = form[c].v /\ asset'[c].t = now
    BY <1>1, <1>4 DEF Encode, Inv, FilesOK
  <2>2. now # 0 /\ (asset[c].v = want[c] => form[c].v = want[c])
    BY <1>3, <1>4 DEF Encodes, Kept, NewestWins
  <2> QED
    BY <1>2, <1>4, <2>1, <2>2
<1>5. CASE ~(Encodes(c) /\ ~test)
  BY <1>2, <1>5 DEF Encode
<1> QED
  BY <1>4, <1>5

(* In the turn of c, without an error, nothing else is there below c.       *)
LEMMA TurnAlone ==
  ASSUME Inv, Kept, Good, NEW c \in Nested, Turn(c)
  PROVE  /\ c \in Dirs /\ c \in tree /\ c \notin imgs /\ pc = "tree"
         /\ Below[c] \cap tree = {c}
         /\ Form[c] \in {"png", "none"} => form[c] = Gone
<1>1. c \in Dirs /\ pc = "tree" /\ c \in left /\ c \in tree /\ c \in Below[c]
  BY NestedFacts, TreeFacts DEF Turn, Ready, Inv, Walk
<1>2. c \notin imgs /\ Below[c] \cap left = {c}
  BY <1>1, TurnDone
<1>3. Below[c] \cap tree = {c}
  BY <1>1, <1>2, NestedFacts DEF Good, InRun
<1>4. Form[c] \in {"png", "none"} => form[c] = Gone
  BY <1>1, <1>2 DEF Kept, Forms
<1> QED
  BY <1>1, <1>2, <1>3, <1>4

-----------------------------------------------------------------------------
(* Every step keeps account of every edit.                                  *)

(* Steps that change no content of a container and lose no version.         *)
LEMMA FromBelowStays ==
  ASSUME Inv, FromBelow, UNCHANGED <<tree, want>>, lost \subseteq lost',
         \A c \in Dirs : box'[c].v = box[c].v,
         \A d \in tree : asset[d].v = want[d] => asset'[d].v = want[d]
  PROVE  FromBelow'
<1> SUFFICES ASSUME NEW c \in Nested \cap tree, NEW d \in Below[c] \ lost',
                    box'[c].v[d] = want[d]
             PROVE  /\ \A e \in Below[c] : d \in Below[e] /\ Above(e) => box'[e].v[d] = want[d]
                    /\ d \in tree => asset'[d].v = want[d]
  BY DEF FromBelow, Above
<1>1. c \in Dirs /\ \A e \in Below[c] : e \in Dirs
  BY NestedFacts, TreeFacts
<1>2. /\ \A e \in Below[c] : d \in Below[e] /\ Above(e) => box[e].v[d] = want[d]
      /\ d \in tree => asset[d].v = want[d]
  BY <1>1 DEF FromBelow
<1> QED
  BY <1>1, <1>2

LEMMA LossInit == Init => LossInv
<1> SUFFICES ASSUME Init, Inv PROVE Kept /\ Good
  BY InitInv DEF LossInv, Accounted
<1>1. PICK late \in 0 .. Window :
        /\ now = 1 + late
        /\ asset = [d \in Dirs |-> [v |-> 0, t |-> IF d \in legacy THEN 1 + late ELSE 1]]
        /\ form = [d \in Dirs |->
             IF Form[d] = "none" \/ (d \in legacy /\ Form[d] # "png") THEN Gone ELSE asset[d]]
        /\ box = [c \in Dirs |->
             [v |-> [d \in Dirs |-> IF d \in Below[c] THEN 0 ELSE Junk],
              t |-> IF c = Root THEN 1 ELSE IF Parent[c] \in legacy THEN 1 + late ELSE 1]]
  BY DEF Init
<1>2. /\ setupT = [d \in Dirs |-> IF d \in legacy THEN 0 ELSE 1] /\ tree = Dirs
      /\ want = [d \in Dirs |-> 0] /\ pc = "idle" /\ imgs = {} /\ ~err /\ ~test
  BY DEF Init
<1>3. late \in Nat
  OBVIOUS
<1>4. /\ \A c, d \in Dirs : box[c].v[d] = IF d \in Below[c] THEN 0 ELSE Junk
      /\ \A d \in Dirs : /\ asset[d].v = 0 /\ want[d] = 0 /\ asset[d].t \in {1, 1 + late}
                         /\ form[d] = Gone \/ form[d] = asset[d]
                         /\ setupT[d] \in {0, 1} /\ box[d].t \in {1, 1 + late}
  BY <1>1, <1>2
<1>5. Past
  <2> SUFFICES ASSUME NEW d \in Dirs
               PROVE  /\ asset[d].v <= want[d] /\ form[d].v <= want[d]
                      /\ asset[d].t <= now /\ form[d].t <= now /\ setupT[d] <= now /\ box[d].t <= now
                      /\ \A c \in Dirs : box[c].v[d] <= want[d]
    BY DEF Past
  <2>1. \A c \in Dirs : box[c].v[d] = 0 \/ box[c].v[d] = Junk
    BY <1>4
  <2>2. form[d].v \in {0, Junk} /\ (form[d].t = 0 \/ form[d].t = asset[d].t)
    BY <1>4, NothingIsOld
  <2>3. /\ asset[d].v = 0 /\ want[d] = 0 /\ asset[d].t \in {1, 1 + late}
        /\ setupT[d] \in {0, 1} /\ box[d].t \in {1, 1 + late} /\ now = 1 + late
    BY <1>1, <1>4
  <2>4. \A c \in Dirs : box[c].v[d] <= want[d]
    BY <2>1, <2>3 DEF Junk
  <2>5. form[d].v <= want[d] /\ form[d].t <= now
    BY <1>3, <2>2, <2>3 DEF Junk
  <2> QED
    BY <1>3, <2>3, <2>4, <2>5
<1>6. Forms
  BY <1>1, <1>2, <1>3, <1>4 DEF Forms
<1>7. NewestWins
  <2>1. \A d \in Dirs : form[d].t = 0 \/ form[d].t = asset[d].t
    BY <1>4, NothingIsOld
  <2> QED
    BY <1>2, <1>3, <1>4, <2>1 DEF NewestWins
<1>8. FromBelow
  BY <1>2, <1>4, TreeFacts DEF FromBelow, Nested
<1>9. Stages
  BY <1>2, RepackAssumption DEF Stages, RepackAssumption
<1>10. Local /\ Finished
  BY <1>2, <1>4 DEF Local, Finished, Nested
<1>11. Rising
  BY <1>2, <1>4, TreeFacts DEF Rising, Passed, Nested
<1>12. InRun
  BY <1>2 DEF InRun
<1> QED
  BY <1>5, <1>6, <1>7, <1>8, <1>9, <1>10, <1>11, <1>12 DEF Kept, Good

LEMMA EditLoss ==
  ASSUME Inv, Inv', Kept, Good, NEW d0 \in Dirs, Edit(d0) PROVE Kept' /\ Good'
<1>1. /\ d0 \in tree /\ pc = "idle" /\ now' = now + 1 /\ lost' = lost \ {d0}
      /\ want'[d0] = want[d0] + 1 /\ \A d \in Dirs \ {d0} : want'[d] = want[d]
      /\ UNCHANGED <<tree, setupT, box, pc, imgs, err, test, pack>>
  BY DEF Edit, Inv, RunOK, walk, opts
<1>2. \A d \in Dirs \ {d0} : asset'[d] = asset[d] /\ form'[d] = form[d]
  BY DEF Edit, Inv, FilesOK
<1>3. \/ asset'[d0].v = want'[d0] /\ asset'[d0].t = now' /\ form'[d0] = form[d0]
      \/ /\ form[d0] # Gone /\ asset'[d0] = asset[d0]
         /\ form'[d0].v = want'[d0] /\ form'[d0].t = now'
  BY <1>1 DEF Edit, Inv, FilesOK
<1>4. \A d \in Dirs :
        /\ asset[d].v \in Int /\ form[d].v \in Int /\ want[d] \in Nat /\ now \in Nat
        /\ asset[d].t \in Nat /\ form[d].t \in Nat /\ setupT[d] \in Nat /\ box[d].t \in Nat
        /\ \A c \in Dirs : box[c].v[d] \in Int
  BY Numbers
<1>5. \A d \in Dirs :
        /\ asset[d].v <= want[d] /\ form[d].v <= want[d]
        /\ asset[d].t <= now /\ form[d].t <= now /\ setupT[d] <= now /\ box[d].t <= now
        /\ \A c \in Dirs : box[c].v[d] <= want[d]
  BY DEF Kept, Past
<1>6. \A c \in Dirs : box[c].v[d0] # want'[d0]
  BY <1>1, <1>4, <1>5
<1>7. Past'
  <2> SUFFICES ASSUME NEW d \in Dirs
               PROVE  /\ asset'[d].v <= want'[d] /\ form'[d].v <= want'[d]
                      /\ asset'[d].t <= now' /\ form'[d].t <= now'
                      /\ setupT'[d] <= now' /\ box'[d].t <= now'
                      /\ \A c \in Dirs : box'[c].v[d] <= want'[d]
    BY DEF Past
  <2>1. want[d] <= want'[d] /\ want'[d] \in Nat /\ now <= now' /\ now' \in Nat
    BY <1>1, <1>4
  <2>2. asset'[d].v <= want'[d] /\ form'[d].v <= want'[d] /\ asset'[d].t <= now' /\ form'[d].t <= now'
    <3>1. CASE d = d0
      BY <1>3, <1>4, <1>5, <2>1, <3>1
    <3>2. CASE d # d0
      BY <1>2, <1>4, <1>5, <2>1, <3>2
    <3> QED
      BY <3>1, <3>2
  <2> QED
    BY <1>1, <1>4, <1>5, <2>1, <2>2
<1>8. Forms'
  <2>1. \A d \in Dirs : form'[d] # Gone => form[d] # Gone
    BY <1>2, <1>3
  <2>2. \A d \in tree : asset'[d].t # 0
    <3> SUFFICES ASSUME NEW d \in tree PROVE asset'[d].t # 0
      OBVIOUS
    <3>1. d \in Dirs /\ asset[d].t # 0
      BY DEF Kept, Forms, Inv, FilesOK
    <3>2. asset'[d] = asset[d] \/ asset'[d].t = now'
      BY <1>2, <1>3, <3>1
    <3>3. now \in Nat
      BY <1>4
    <3> QED
      BY <1>1, <3>1, <3>2, <3>3
  <2> QED
    BY <1>1, <2>1, <2>2 DEF Kept, Forms, Inv, FilesOK
<1>9. NewestWins'
  <2> SUFFICES ASSUME NEW d \in tree, asset'[d].v = want'[d], form'[d].v # want'[d]
               PROVE  form'[d].t <= asset'[d].t
    BY <1>1 DEF NewestWins
  <2>1. d \in Dirs
    BY DEF Inv, FilesOK
  <2>2. CASE d # d0
    BY <1>1, <1>2, <2>1, <2>2 DEF Kept, NewestWins
  <2>3. CASE d = d0
    BY <1>1, <1>3, <1>4, <1>5, <2>1, <2>3
  <2> QED
    BY <2>2, <2>3
<1>10. FromBelow'
  <2> SUFFICES ASSUME NEW c \in Nested \cap tree, NEW d \in Below[c] \ lost',
                      box[c].v[d] = want'[d]
               PROVE  /\ \A e \in Below[c] : d \in Below[e] /\ Above(e) => box[e].v[d] = want'[d]
                      /\ d \in tree => asset'[d].v = want'[d]
    BY <1>1 DEF FromBelow, Above
  <2>1. c \in Dirs /\ d \in Dirs /\ d # d0
    BY <1>6, NestedFacts, TreeFacts
  <2> QED
    BY <1>1, <1>2, <2>1 DEF Kept, FromBelow
<1>11. Stages'
  BY <1>1 DEF Kept, Stages
<1>12. Local'
  <2> SUFFICES ASSUME NEW d \in tree \ lost' PROVE asset'[d].v = want'[d] \/ Edited(d)'
    BY <1>1 DEF Local
  <2>1. d \in Dirs
    BY DEF Inv, FilesOK
  <2>2. CASE d # d0
    BY <1>1, <1>2, <2>1, <2>2 DEF Good, Local, Edited
  <2>3. CASE d = d0
    <3> SUFFICES ASSUME form[d] # Gone, asset'[d] = asset[d],
                        form'[d].v = want'[d], form'[d].t = now'
                 PROVE  Edited(d)'
      BY <1>3, <2>3
    <3>1. form'[d].t > asset'[d].t /\ form'[d].t > setupT'[d]
      BY <1>1, <1>4, <1>5, <2>1
    <3>2. Form[d] # "png" => setupT'[d] # 0
      BY <1>1, <2>1, RepackAssumption DEF RepackAssumption, Kept, Forms
    <3> QED
      BY <3>1, <3>2 DEF Edited
  <2> QED
    BY <2>2, <2>3
<1>13. Finished'
  <2>1. \A e \in Nested \ tree : d0 \notin Below[e]
    BY <1>1 DEF Inv, Walk
  <2>2. \A e \in Nested : \A d \in Below[e] : d \in Dirs
    BY NestedFacts, TreeFacts
  <2> QED
    BY <1>1, <2>1, <2>2 DEF Good, Finished
<1>14. Rising'
  <2> SUFFICES ASSUME NEW c \in Nested \cap tree PROVE Fresh(c)' \/ Passed(c)'
    BY <1>1 DEF Rising
  <2>1. /\ c \in Dirs /\ Ref(c)' = Ref(c) /\ Ref(c) \in Nat /\ Ref(c) <= now
        /\ \A f \in Children(c) : f \in Dirs /\ c \notin Below[f] /\ Below[f] \subseteq Dirs
    BY <1>1, <1>4, <1>5, NestedFacts, TreeFacts DEF Ref
  <2>2. Fresh(c) \/ Passed(c)
    BY DEF Good, Rising
  <2>3. \A f \in Children(c) : \A d \in Below[f] \ lost' :
          box[f].v[d] = want'[d] => d # d0 /\ d \notin lost /\ box[f].v[d] = want[d]
    BY <1>1, <1>6, <2>1
  <2>4. CASE c # d0
    BY <1>1, <1>2, <2>1, <2>2, <2>3, <2>4 DEF Fresh, Passed
  <2>5. CASE c = d0
    <3>1. CASE asset'[c].t = now'
      BY <1>1, <1>4, <2>1, <3>1 DEF Fresh
    <3>2. CASE form'[c].t = now' /\ Form[c] # "obj"
      BY <1>1, <1>4, <2>1, <3>2 DEF Fresh
    <3>3. CASE form'[c].t = now' /\ Form[c] = "obj" /\ asset'[c] = asset[c]
      <4>1. CASE Fresh(c)
        BY <1>1, <2>1, <3>3, <4>1 DEF Fresh
      <4>2. CASE Passed(c)
        <5>1. asset'[c].v # want'[c]
          BY <1>1, <1>4, <1>5, <2>1, <2>5, <3>3
        <5> QED
          BY <1>1, <2>1, <2>3, <2>5, <3>3, <4>2, <5>1 DEF Passed
      <4> QED
        BY <2>2, <4>1, <4>2
    <3> QED
      BY <1>3, <2>5, <3>1, <3>2, <3>3
  <2> QED
    BY <2>4, <2>5
<1>15. InRun'
  BY <1>1 DEF InRun
<1> QED
  BY <1>7, <1>8, <1>9, <1>10, <1>11, <1>12, <1>13, <1>14, <1>15 DEF Kept, Good

LEMMA StartLoss ==
  ASSUME Inv, Inv', Kept, Good, NEW p \in BOOLEAN, NEW t \in Tests, Start(p, t)
  PROVE  Kept' /\ Good'
<1>1. /\ pc = "idle" /\ pc' = "tree" /\ Root \in tree /\ now' = now + 1
      /\ imgs' = Previews /\ left' = tree \ {Root}
      /\ UNCHANGED <<tree, asset, form, setupT, box, want, lost>>
  BY DEF Start, disk, members, history
<1>2. Past'
  <2> SUFFICES ASSUME NEW d \in Dirs
               PROVE  asset[d].t <= now' /\ form[d].t <= now' /\ setupT[d] <= now' /\ box[d].t <= now'
    BY <1>1 DEF Past, Kept
  <2>1. /\ asset[d].t \in Nat /\ form[d].t \in Nat /\ setupT[d] \in Nat /\ box[d].t \in Nat
        /\ now \in Nat
    BY Numbers
  <2> QED
    BY <1>1, <2>1 DEF Kept, Past
<1>3. Forms'
  BY <1>1 DEF Kept, Forms, Previews, Gone
<1>4. NewestWins' /\ FromBelow' /\ Local' /\ Finished'
  BY <1>1 DEF Kept, Good, NewestWins, FromBelow, Above, Local, Edited, Finished
<1>5. Stages'
  BY <1>1 DEF Stages
<1>6. Rising'
  BY <1>1 DEF Good, Rising, Fresh, Passed, Ref
<1>7. InRun'
  <2>1. \A c \in Nested \cap tree : setupT[c] < now' /\ box[c].t < now'
    <3> SUFFICES ASSUME NEW c \in Nested \cap tree PROVE setupT[c] < now' /\ box[c].t < now'
      OBVIOUS
    <3>1. c \in Dirs
      BY NestedFacts
    <3>2. setupT[c] \in Nat /\ box[c].t \in Nat /\ now \in Nat
      BY <3>1, Numbers
    <3> QED
      BY <1>1, <3>1, <3>2 DEF Kept, Past
  <2> QED
    BY <1>1, <2>1 DEF InRun, Nested
<1> QED
  BY <1>2, <1>3, <1>4, <1>5, <1>6, <1>7 DEF Kept, Good

LEMMA ImageLoss ==
  ASSUME Inv, Inv', Accounted, NEW d0 \in Dirs, Image(d0) PROVE Accounted'
<1> DEFINE edited == form[d0].t > MaxOf(asset[d0].t, setupT[d0])
<1>1. /\ pc = "tree" /\ d0 \in imgs /\ d0 \in tree /\ imgs' = imgs \ {d0}
      /\ form' = [form EXCEPT ![d0] = Gone]
      /\ \/ edited /\ asset' = [asset EXCEPT ![d0] = form[d0]]
         \/ edited /\ err' /\ UNCHANGED asset
         \/ ~edited /\ UNCHANGED asset
      /\ err => err'
      /\ UNCHANGED <<now, tree, setupT, box, pc, left, cur, pack, test, want, lost>>
  BY DEF Image, Ready, Inv, Walk, opts, history
<1>2. \A d \in Dirs \ {d0} : asset'[d] = asset[d] /\ form'[d] = form[d]
  BY <1>1 DEF Inv, FilesOK
<1>3. form'[d0] = Gone /\ (asset'[d0] = asset[d0] \/ (edited /\ asset'[d0] = form[d0]))
  BY <1>1 DEF Inv, FilesOK
<1>4. /\ asset[d0].t \in Nat /\ form[d0].t \in Nat /\ setupT[d0] \in Nat /\ now \in Nat
      /\ want[d0] \in Nat /\ box[d0].t \in Nat
  BY Numbers
<1>5. edited => form[d0].t > asset[d0].t /\ form[d0].t > setupT[d0]
  BY <1>4 DEF MaxOf
<1>6. ~edited => form[d0].t <= asset[d0].t \/ form[d0].t <= setupT[d0]
  BY <1>4 DEF MaxOf
<1>7. Form[d0] = "png" /\ Kept /\ Past /\ Forms /\ NewestWins /\ FromBelow /\ Stages
  BY <1>1 DEF Accounted, Kept, Forms
<1>8. asset[d0].v = want[d0] => asset'[d0].v = want[d0]
  BY <1>1, <1>3, <1>4, <1>5, <1>7 DEF NewestWins
<1> HIDE DEF edited
<1>9. Past'
  <2> SUFFICES ASSUME NEW d \in Dirs
               PROVE  /\ asset'[d].v <= want[d] /\ form'[d].v <= want[d]
                      /\ asset'[d].t <= now /\ form'[d].t <= now
    BY <1>1, <1>7 DEF Past
  <2>1. CASE d = d0
    BY <1>3, <1>4, <1>7, <2>1, NothingIsOld DEF Past, Junk
  <2>2. CASE d # d0
    BY <1>2, <1>7, <2>2 DEF Past
  <2> QED
    BY <2>1, <2>2
<1>10. Forms'
  <2>1. asset'[d0].t # 0
    BY <1>1, <1>3, <1>4, <1>5, <1>7 DEF Forms
  <2> QED
    BY <1>1, <1>2, <1>3, <1>7, <2>1 DEF Forms, Inv, FilesOK
<1>11. NewestWins'
  <2>1. asset'[d0].t \in Nat
    BY NumbersNext
  <2>2. form'[d0].t <= asset'[d0].t
    BY <1>3, <2>1, NothingIsOld
  <2> QED
    BY <1>1, <1>2, <1>7, <2>2 DEF NewestWins, Inv, FilesOK
<1>12. FromBelow'
  BY <1>1, <1>2, <1>7, <1>8, FromBelowStays DEF Inv, FilesOK
<1>13. Stages'
  BY <1>1, <1>7 DEF Stages
<1>14. ASSUME ~err', ~test' PROVE Good'
  <2>1. Good /\ (edited => asset'[d0] = form[d0]) /\ (~edited => asset'[d0] = asset[d0])
    BY <1>1, <1>3, <1>14 DEF Accounted, Inv, FilesOK
  <2>2. Local'
    <3> SUFFICES ASSUME NEW d \in tree \ lost PROVE asset'[d].v = want[d] \/ Edited(d)'
      BY <1>1 DEF Local
    <3>1. asset[d].v = want[d] \/ Edited(d)
      BY <2>1 DEF Good, Local
    <3>2. CASE d # d0
      BY <1>1, <1>2, <3>1, <3>2 DEF Edited, Inv, FilesOK
    <3>3. CASE d = d0
      BY <1>4, <1>6, <1>7, <1>8, <2>1, <3>1, <3>3 DEF Edited
    <3> QED
      BY <3>2, <3>3
  <2>3. Finished' /\ InRun'
    BY <1>1, <2>1 DEF Good, Finished, InRun
  <2>4. Rising'
    <3> SUFFICES ASSUME NEW c \in Nested \cap tree PROVE Fresh(c)' \/ Passed(c)'
      BY <1>1 DEF Rising
    <3>1. c \in Dirs /\ (Fresh(c) \/ Passed(c)) /\ Ref(c)' = Ref(c)
      BY <1>1, <2>1, NestedFacts DEF Good, Rising, Ref
    <3>2. CASE c # d0
      BY <1>1, <1>2, <3>1, <3>2 DEF Fresh, Passed
    <3>3. CASE c = d0
      <4>1. Passed(c) => Passed(c)'
        BY <1>1, <1>7, <3>3 DEF Passed
      <4>2. Ref(c) \in Nat /\ (setupT[c] # 0 => Ref(c) = setupT[c])
        BY <1>4, <3>3 DEF Ref
      <4>3. asset[c].t > Ref(c) \/ form[c].t > Ref(c) => asset'[c].t > Ref(c)
        BY <1>4, <1>5, <1>6, <2>1, <3>3, <4>2
      <4>4. Fresh(c) => Fresh(c)'
        BY <1>1, <3>1, <4>3 DEF Fresh
      <4> QED
        BY <3>1, <4>1, <4>4
    <3> QED
      BY <3>2, <3>3
  <2> QED
    BY <2>2, <2>3, <2>4 DEF Good
<1> QED
  BY <1>9, <1>10, <1>11, <1>12, <1>13, <1>14 DEF Accounted, Kept

LEMMA UpToDateLoss ==
  ASSUME Inv, Inv', Accounted, NEW c \in Nested, UpToDate(c) PROVE Accounted'
<1>1. /\ Turn(c) /\ ~NeedsRebuild(c) /\ pc = "tree" /\ pc' = "remove" /\ cur' = c
      /\ lost' = IF Form[c] = "obj" THEN lost \cup (Missing(c) \cap {c}) ELSE lost
      /\ UNCHANGED <<now, tree, setupT, asset, form, box, imgs, left, err, pack, test, want>>
  BY DEF UpToDate, Decide, Turn, Ready, Release, opts
<1>2. lost \subseteq lost' /\ Kept
  BY <1>1 DEF Accounted
<1>3. Past' /\ Forms' /\ NewestWins' /\ Stages'
  BY <1>1, <1>2 DEF Kept, Past, Forms, NewestWins, Stages
<1>4. FromBelow'
  BY <1>1, <1>2, FromBelowStays DEF Kept
<1>5. ASSUME ~err', ~test' PROVE Good'
  <2>1. Good
    BY <1>1, <1>5 DEF Accounted
  <2>2. Local' /\ Finished'
    BY <1>1, <1>2, <2>1 DEF Good, Local, Edited, Finished
  <2>3. Rising'
    <3>1. ASSUME NEW e \in Nested \cap tree PROVE Fresh(e)' \/ Passed(e)'
      <4>1. Fresh(e) \/ Passed(e)
        BY <2>1 DEF Good, Rising
      <4>2. Fresh(e) => Fresh(e)'
        BY <1>1 DEF Fresh, Ref
      <4>3. Passed(e) => Passed(e)'
        BY <1>1, <1>2 DEF Passed
      <4> QED
        BY <4>1, <4>2, <4>3
    <3> QED
      BY <1>1, <3>1 DEF Rising
  <2>4. /\ c \in Dirs /\ c \in tree /\ c \notin imgs /\ c \in Below[c]
        /\ Below[c] \cap tree = {c} /\ (Form[c] \in {"png", "none"} => form[c] = Gone)
    BY <1>1, <1>2, <2>1, TurnAlone, TreeFacts
  <2>5. Passed(c)
    <3>1. ~NewerThan(c, Ref(c), asset, form, box)
      BY <1>1 DEF NeedsRebuild
    <3>2. Ref(c) \in Nat /\ form[c].t \in Nat /\ (Form[c] \in {"png", "none"} => form[c].t = 0)
      BY <2>4, Numbers, NothingIsOld DEF Ref
    <3>3. Form[c] \in {"none", "png", "txt", "obj"}
      BY <2>4, RepackAssumption DEF RepackAssumption
    <3>4. ~Fresh(c)
      BY <2>4, <3>1, <3>2, <3>3 DEF NewerThan, Fresh
    <3> QED
      BY <2>1, <2>4, <3>4 DEF Good, Rising
  <2>6. \A d \in Below[c] \ lost' : box[c].v[d] = want[d]
    <3> SUFFICES ASSUME NEW d \in Below[c] \ lost' PROVE box[c].v[d] = want[d]
      OBVIOUS
    <3>1. CASE d = c
      <4>1. CASE Form[c] = "obj" /\ asset[c].v # want[c]
        <5>1. Packed(c)[c] = box[c].v[c]
          BY <1>1, <2>4, <3>1, <4>1 DEF Missing
        <5>2. Packed(c)[c] = want[c]
          BY <1>1, <1>2, <2>1, <2>4, <3>1, SelfArrives DEF Good
        <5> QED
          BY <3>1, <5>1, <5>2
      <4>2. CASE ~(Form[c] = "obj" /\ asset[c].v # want[c])
        BY <1>2, <2>5, <3>1, <4>2 DEF Passed
      <4> QED
        BY <4>1, <4>2
    <3>2. CASE d # c
      <4>1. PICK f \in Children(c) : d \in Below[f]
        BY <2>4, <3>2, TreeFacts
      <4>2. f \in Nested \ tree /\ Parent[f] = c
        BY <2>4, <4>1, TreeFacts DEF Children
      <4>3. box[f].v[d] = want[d]
        BY <1>2, <2>1, <2>4, <4>1, <4>2 DEF Good, Finished
      <4> QED
        BY <1>2, <2>5, <4>1, <4>3 DEF Passed
    <3> QED
      BY <3>1, <3>2
  <2>7. InRun'
    BY <1>1, <2>1, <2>6 DEF Good, InRun
  <2> QED
    BY <2>2, <2>3, <2>7 DEF Good
<1> QED
  BY <1>3, <1>4, <1>5 DEF Accounted, Kept

(* The baseline keeps all versions, and the order of the times.             *)
LEMMA BaselineFiles ==
  ASSUME Inv, Inv', Past, NEW c \in Nested, Baseline(c)
  PROVE  /\ \A d \in Dirs : /\ asset'[d].v = asset[d].v /\ form'[d].v = form[d].v
                            /\ box'[d].v = box[d].v
                            /\ asset'[d].t <= now /\ form'[d].t <= now
                            /\ setupT'[d] <= now /\ box'[d].t <= now
                            /\ asset'[d].t = 0 <=> asset[d].t = 0
                            /\ form'[d] = Gone <=> form[d] = Gone
                            /\ setupT'[d] = 0 <=> setupT[d] = 0
                            /\ form[d].t <= asset[d].t => form'[d].t <= asset'[d].t
         /\ \A d \in Dirs \ (Below[c] \cap tree) :
              asset'[d] = asset[d] /\ form'[d] = form[d] /\ setupT'[d] = setupT[d]
         /\ \A e \in Dirs : e = Root \/ Parent[e] \notin Below[c] \cap tree => box'[e] = box[e]
<1> DEFINE ref == box[c].t
           D == Below[c] \cap tree
           Time(t) == IF t # 0 /\ t <= ref + Window THEN ref ELSE t
           Reset(F, S) == [d \in Dirs |-> IF d \in S THEN [F[d] EXCEPT !.t = Time(@)] ELSE F[d]]
<1>1. /\ asset' = Reset(asset, D) /\ form' = Reset(form, D)
      /\ setupT' = [d \in Dirs |-> IF d \in D THEN Time(setupT[d]) ELSE setupT[d]]
      /\ box' = Reset(box, {e \in Nested : Parent[e] \in D})
  BY DEF Baseline
<1>2. c \in Dirs
  BY NestedFacts
<1>3. ref \in Nat /\ ref # 0 /\ Window \in Nat /\ now \in Nat /\ ref <= now
  BY <1>2, Numbers, RepackAssumption DEF RepackAssumption, Baseline, NeedsBaseline, Past
<1>4. \A t \in Nat : (Time(t) = 0 <=> t = 0) /\ (t <= now => Time(t) <= now)
  BY <1>3
<1>5. \A t, u \in Nat : t <= u => Time(t) <= Time(u)
  BY <1>3
<1> HIDE DEF Time
<1>6. ASSUME NEW d \in Dirs
      PROVE  /\ asset'[d].v = asset[d].v /\ form'[d].v = form[d].v /\ box'[d].v = box[d].v
             /\ asset'[d].t = IF d \in D THEN Time(asset[d].t) ELSE asset[d].t
             /\ form'[d].t = IF d \in D THEN Time(form[d].t) ELSE form[d].t
             /\ box'[d].t \in {box[d].t, Time(box[d].t)}
  <2>1. /\ asset[d] = [v |-> asset[d].v, t |-> asset[d].t]
        /\ form[d] = [v |-> form[d].v, t |-> form[d].t]
        /\ box[d] = [v |-> box[d].v, t |-> box[d].t]
    BY DEF Inv, FilesOK
  <2>2. asset'[d] = IF d \in D THEN [v |-> asset[d].v, t |-> Time(asset[d].t)] ELSE asset[d]
    BY <1>1, <2>1
  <2>3. form'[d] = IF d \in D THEN [v |-> form[d].v, t |-> Time(form[d].t)] ELSE form[d]
    BY <1>1, <2>1
  <2>4. box'[d] \in {box[d], [v |-> box[d].v, t |-> Time(box[d].t)]}
    BY <1>1, <2>1
  <2> QED
    BY <2>2, <2>3, <2>4
<1>7. ASSUME NEW d \in Dirs
      PROVE  /\ asset'[d].t <= now /\ form'[d].t <= now /\ setupT'[d] <= now /\ box'[d].t <= now
             /\ asset'[d].t = 0 <=> asset[d].t = 0
             /\ form'[d].t = 0 <=> form[d].t = 0
             /\ setupT'[d] = 0 <=> setupT[d] = 0
             /\ form[d].t <= asset[d].t => form'[d].t <= asset'[d].t
  <2>1. /\ asset[d].t \in Nat /\ form[d].t \in Nat /\ setupT[d] \in Nat /\ box[d].t \in Nat
    BY Numbers
  <2>2. asset[d].t <= now /\ form[d].t <= now /\ setupT[d] <= now /\ box[d].t <= now
    BY DEF Past
  <2>3. setupT'[d] = IF d \in D THEN Time(setupT[d]) ELSE setupT[d]
    BY <1>1
  <2> QED
    BY <1>4, <1>5, <1>6, <2>1, <2>2, <2>3
<1>8. ASSUME NEW d \in Dirs PROVE form'[d] = Gone <=> form[d] = Gone
  <2>1. form[d] \in [v : Versions, t : Times] /\ form'[d] \in [v : Versions, t : Times]
    BY DEF Inv, FilesOK
  <2> QED
    BY <1>6, <1>7, <2>1, IsGone
<1>9. \A d \in Dirs \ D : asset'[d] = asset[d] /\ form'[d] = form[d] /\ setupT'[d] = setupT[d]
  BY <1>1
<1>10. \A e \in Dirs : e = Root \/ Parent[e] \notin D => box'[e] = box[e]
  BY <1>1 DEF Nested
<1> QED
  BY <1>6, <1>7, <1>8, <1>9, <1>10

LEMMA BaselineLoss ==
  ASSUME Inv, Inv', Accounted, NEW c \in Nested, Baseline(c) PROVE Accounted'
<1>1. /\ Turn(c) /\ setupT[c] = 0 /\ pc = "tree"
      /\ lost' = IF /\ NewerThan(c, box[c].t, asset, form, box)
                    /\ ~NewerThan(c, box'[c].t, asset', form', box')
                 THEN lost \cup Missing(c) ELSE lost
      /\ UNCHANGED <<now, tree, pc, imgs, left, cur, err, pack, test, want>>
  <2>1. box'[c].t = box[c].t
    <3>1. c \in Dirs /\ Parent[c] \notin Below[c]
      BY NestedFacts
    <3> QED
      BY <3>1 DEF Baseline, Inv, FilesOK
  <2> QED
    BY <2>1 DEF Baseline, NeedsBaseline, Turn, Ready, walk, opts
<1>2. lost \subseteq lost' /\ Kept
  BY <1>1 DEF Accounted
<1>3. \A d \in Dirs : /\ asset'[d].v = asset[d].v /\ form'[d].v = form[d].v
                      /\ box'[d].v = box[d].v
                      /\ asset'[d].t <= now /\ form'[d].t <= now
                      /\ setupT'[d] <= now /\ box'[d].t <= now
                      /\ asset'[d].t = 0 <=> asset[d].t = 0
                      /\ form'[d] = Gone <=> form[d] = Gone
                      /\ setupT'[d] = 0 <=> setupT[d] = 0
                      /\ form[d].t <= asset[d].t => form'[d].t <= asset'[d].t
  BY <1>2, BaselineFiles DEF Kept
<1>4. /\ \A d \in Dirs \ (Below[c] \cap tree) :
           asset'[d] = asset[d] /\ form'[d] = form[d] /\ setupT'[d] = setupT[d]
      /\ \A e \in Dirs : e = Root \/ Parent[e] \notin Below[c] \cap tree => box'[e] = box[e]
  BY <1>2, BaselineFiles DEF Kept
<1>5. tree \subseteq Dirs
  BY DEF Inv, FilesOK
<1>6. Past'
  BY <1>1, <1>2, <1>3 DEF Kept, Past
<1>7. Forms'
  BY <1>1, <1>2, <1>3, <1>5 DEF Kept, Forms
<1>8. NewestWins'
  BY <1>1, <1>2, <1>3, <1>5 DEF Kept, NewestWins
<1>9. FromBelow'
  BY <1>1, <1>2, <1>3, <1>5, FromBelowStays DEF Kept
<1>10. Stages'
  BY <1>1, <1>2 DEF Kept, Stages
<1>11. ASSUME ~err', ~test' PROVE Good'
  <2>1. Good
    BY <1>1, <1>11 DEF Accounted
  <2>2. /\ c \in Dirs /\ c \in tree /\ c \notin imgs /\ c \in Below[c]
        /\ Below[c] \cap tree = {c} /\ Parent[c] # c
    BY <1>1, <1>2, <2>1, TurnAlone, TreeFacts, NestedFacts
  <2>3. form[c] = Gone /\ ~Edited(c) /\ ~Encodes(c) /\ asset[c].t \in Nat /\ box[c].t \in Nat
    <3>1. form[c] = Gone
      BY <1>1, <1>2, <2>1, <2>2, TurnAlone, RepackAssumption DEF RepackAssumption, Kept, Forms
    <3>2. asset[c].t \in Nat /\ box[c].t \in Nat
      BY <2>2, Numbers
    <3> QED
      BY <3>1, <3>2, NothingIsOld DEF Edited, Encodes
  <2>4. \A d \in Dirs \ {c} : asset'[d] = asset[d] /\ form'[d] = form[d] /\ setupT'[d] = setupT[d]
    BY <1>4, <2>2
  <2>5. \A e \in Nested : Parent[e] # c => box'[e] = box[e]
    BY <1>4, <2>2, NestedFacts
  <2>6. \A e \in Nested \cap tree : Parent[e] # c
    <3> SUFFICES ASSUME NEW e \in Nested \cap tree, Parent[e] = c PROVE FALSE
      OBVIOUS
    <3>1. e \in Below[c] /\ e # c
      BY <2>2, NestedFacts, TreeFacts
    <3> QED
      BY <2>2, <3>1
  <2>7. Local'
    <3> SUFFICES ASSUME NEW d \in tree \ lost' PROVE asset'[d].v = want[d] \/ Edited(d)'
      BY <1>1 DEF Local
    <3>1. asset[d].v = want[d] \/ Edited(d)
      BY <1>2, <2>1 DEF Good, Local
    <3> QED
      BY <1>1, <1>3, <1>5, <2>3, <2>4, <3>1 DEF Edited
  <2>8. Finished'
    BY <1>1, <1>2, <1>3, <2>1 DEF Good, Finished, Nested
  <2>9. ASSUME NEW e \in Nested \cap tree, e # c PROVE Fresh(e)' \/ Passed(e)'
    <3>1. /\ e \in Dirs /\ box'[e] = box[e] /\ asset'[e] = asset[e]
          /\ form'[e] = form[e] /\ setupT'[e] = setupT[e]
          /\ \A f \in Children(e) : box'[f] = box[f]
      BY <1>5, <2>4, <2>5, <2>6, <2>9 DEF Children
    <3>2. Fresh(e) \/ Passed(e)
      BY <2>1, <2>9 DEF Good, Rising
    <3> QED
      BY <1>1, <1>2, <3>1, <3>2 DEF Fresh, Passed, Ref
  <2>10. Fresh(c)' \/ Passed(c)'
    <3>1. /\ box'[c] = box[c] /\ Ref(c) = box[c].t /\ Ref(c)' = box[c].t /\ setupT'[c] = 0
          /\ form'[c] = Gone
      BY <1>1, <1>3, <2>2, <2>3, <2>5 DEF Ref
    <3>2. NewerThan(c, box[c].t, asset, form, box) <=> Fresh(c)
      BY <2>2, <2>3, <3>1, NothingIsOld DEF NewerThan, Fresh
    <3>3. NewerThan(c, box'[c].t, asset', form', box') <=> Fresh(c)'
      BY <1>1, <2>2, <2>3, <3>1, NothingIsOld DEF NewerThan, Fresh
    <3>4. \A f \in Children(c) : f \in Dirs /\ box'[f].v = box[f].v
      BY <1>3, <2>2, TreeFacts
    <3>5. CASE Passed(c)
      BY <1>1, <1>2, <1>3, <2>2, <3>1, <3>4, <3>5 DEF Passed
    <3>6. CASE Fresh(c) /\ ~Fresh(c)'
      <4>1. lost' = lost \cup Missing(c)
        BY <1>1, <3>2, <3>3, <3>6
      <4>2. \A d \in Below[c] \ lost' : box[c].v[d] = Packed(c)[d]
        BY <4>1 DEF Missing
      <4>3. c \notin lost' => box[c].v[c] = want[c]
        BY <1>2, <2>1, <2>2, <2>3, <4>2, PackedSelf DEF Good, Local
      <4>4. \A f \in Children(c) : \A d \in Below[f] \ lost' : box[f].v[d] = box[c].v[d]
        BY <2>2, <4>2, PackedChild, TreeFacts
      <4> QED
        BY <1>1, <3>1, <3>4, <4>3, <4>4 DEF Passed
    <3> QED
      BY <2>1, <2>2, <3>5, <3>6 DEF Good, Rising
  <2>11. Rising'
    BY <1>1, <2>9, <2>10 DEF Rising
  <2>12. InRun'
    <3>1. \A e \in Nested \cap tree : setupT'[e] < now /\ box'[e].t < now
      BY <1>1, <1>3, <1>5, <2>1, <2>2, <2>4, <2>5, <2>6 DEF Good, InRun
    <3> QED
      BY <1>1, <2>1, <3>1 DEF Good, InRun
  <2> QED
    BY <2>7, <2>8, <2>11, <2>12 DEF Good
<1> QED
  BY <1>6, <1>7, <1>8, <1>9, <1>10, <1>11 DEF Accounted, Kept

LEMMA PackedPast ==
  ASSUME Inv, Past, NEW c \in Dirs, NEW d \in Dirs PROVE Packed(c)[d] <= want[d]
<1>1. CASE d = c
  BY <1>1, PackedSelf DEF Past
<1>2. CASE d # c /\ d \in Below[c]
  <2>1. PICK f \in Children(c) : d \in Below[f]
    BY <1>2, TreeFacts
  <2> QED
    BY <2>1, PackedChild, TreeFacts DEF Past
<1>3. CASE d # c /\ d \notin Below[c]
  <2>1. Packed(c)[d] = Junk /\ want[d] \in Nat
    BY <1>3, Numbers DEF Packed
  <2> QED
    BY <2>1 DEF Junk
<1> QED
  BY <1>1, <1>2, <1>3

(* What encoding the member of c, and a new container for it, keep.         *)
LEMMA EncodeKept ==
  ASSUME Inv, Inv', Kept, NEW c \in tree, Encode(c), pc # "idle",
         UNCHANGED <<now, tree, form, setupT, want, imgs>>,
         \A d \in Dirs : box'[d].t <= now /\ \A e \in Dirs : box'[e].v[d] <= want[d]
  PROVE  Past' /\ Forms' /\ NewestWins'
<1>1. c \in Dirs /\ tree \subseteq Dirs
  BY DEF Inv, FilesOK
<1>2. /\ \A d \in Dirs \ {c} : asset'[d] = asset[d]
      /\ asset[c].v = want[c] => asset'[c].v = want[c]
      /\ \/ asset'[c] = asset[c]
         \/ Encodes(c) /\ asset'[c].v = form[c].v /\ asset'[c].t = now /\ now # 0
  BY EncodeKeeps
<1>3. now \in Nat /\ form[c].t \in Nat
  BY <1>1, Numbers
<1>4. Past'
  BY <1>1, <1>2, <1>3 DEF Kept, Past
<1>5. Forms'
  BY <1>1, <1>2 DEF Kept, Forms
<1>6. NewestWins'
  BY <1>1, <1>2 DEF Kept, NewestWins
<1> QED
  BY <1>4, <1>5, <1>6

LEMMA EncodeLocal ==
  ASSUME Inv, Kept, Local, NEW c \in tree, Encode(c),
         UNCHANGED <<tree, form, setupT, want>>, lost \subseteq lost'
  PROVE  Local'
<1>1. c \in Dirs /\ tree \subseteq Dirs
  BY DEF Inv, FilesOK
<1>2. /\ \A d \in Dirs \ {c} : asset'[d] = asset[d]
      /\ asset[c].v = want[c] => asset'[c].v = want[c]
      /\ asset'[c] = asset[c] \/ asset'[c].v = form[c].v
  BY EncodeKeeps
<1> SUFFICES ASSUME NEW d \in tree \ lost' PROVE asset'[d].v = want[d] \/ Edited(d)'
  BY DEF Local
<1>3. asset[d].v = want[d] \/ Edited(d)
  BY DEF Local
<1> QED
  BY <1>1, <1>2, <1>3 DEF Edited

(* Within a run, an encoded member is newer than its container.             *)
LEMMA EncodeRising ==
  ASSUME Inv, Kept, Good, NEW c \in Nested \cap tree, Encode(c), pc = "tree",
         UNCHANGED <<now, tree, form, setupT, box, want>>, lost \subseteq lost'
  PROVE  Rising'
<1>1. /\ \A d \in Dirs \ {c} : asset'[d] = asset[d]
      /\ asset'[c] = asset[c] \/ asset'[c].t = now
  BY EncodeKeeps
<1> SUFFICES ASSUME NEW e \in Nested \cap tree PROVE Fresh(e)' \/ Passed(e)'
  BY DEF Rising
<1>2. e \in Dirs /\ (Fresh(e) \/ Passed(e)) /\ Ref(e)' = Ref(e)
  BY NestedFacts DEF Good, Rising, Ref
<1>3. CASE asset'[e] = asset[e]
  BY <1>2, <1>3 DEF Fresh, Passed
<1>4. CASE e = c /\ asset'[c].t = now
  <2>1. setupT[e] < now /\ box[e].t < now /\ now \in Nat
    BY <1>2, Numbers DEF Good, InRun
  <2>2. Ref(e) < now
    BY <2>1 DEF Ref
  <2>3. Ref(e) \in Nat
    BY <1>2, Numbers DEF Ref
  <2> QED
    BY <1>2, <1>4, <2>1, <2>2, <2>3 DEF Fresh
<1> QED
  BY <1>1, <1>2, <1>3, <1>4

(* The new container of c has what those below it have.                     *)
LEMMA WriteFromBelow ==
  ASSUME Inv, Kept, NEW c0 \in Nested \cap tree, Encode(c0), ~test, Write(c0, Packed(c0)),
         UNCHANGED <<tree, want>>, lost \subseteq lost'
  PROVE  FromBelow'
<1>1. /\ \A d \in Dirs \ {c0} : asset'[d] = asset[d]
      /\ asset[c0].v = want[c0] => asset'[c0].v = want[c0]
  BY EncodeKeeps
<1>2. c0 \in Dirs /\ c0 \in Below[c0]
  BY NestedFacts, TreeFacts
<1>3. box'[c0].v = Packed(c0) /\ \A e \in Dirs \ {c0} : box'[e] = box[e]
  BY <1>2 DEF Write, Inv, FilesOK
<1>4. ASSUME Packed(c0)[c0] = want[c0] PROVE asset'[c0].v = want[c0]
  <2>1. CASE Encodes(c0)
    BY <1>2, <1>4, <2>1, PackedSelf DEF Encode, Inv, FilesOK
  <2>2. CASE ~Encodes(c0)
    BY <1>1, <1>2, <1>4, <2>2, PackedSelf
  <2> QED
    BY <2>1, <2>2
<1> SUFFICES ASSUME NEW c \in Nested \cap tree, NEW d \in Below[c] \ lost,
                    box'[c].v[d] = want[d]
             PROVE  /\ \A e \in Below[c] : d \in Below[e] /\ Above(e) => box'[e].v[d] = want[d]
                    /\ d \in tree => asset'[d].v = want[d]
  BY DEF FromBelow, Above
<1>5. c \in Dirs /\ d \in Dirs /\ \A e \in Below[c] : e \in Dirs /\ Below[e] \subseteq Below[c]
  BY NestedFacts, TreeFacts
<1>6. CASE c = c0
  <2>1. Packed(c0)[d] = want[d]
    BY <1>3, <1>6
  <2>2. CASE d = c0
    <3>1. \A e \in Below[c] : d \in Below[e] => e = c0
      BY <1>2, <1>5, <1>6, <2>2, NotBelowEachOther
    <3> QED
      BY <1>3, <1>4, <2>1, <2>2, <3>1
  <2>3. CASE d # c0
    <3>1. PICK f \in Children(c0) : d \in Below[f]
      BY <1>2, <1>6, <2>3, TreeFacts
    <3>2. f \in Nested /\ f \in Dirs /\ Parent[f] = c0 /\ f \in Below[f]
      BY <1>2, <3>1, TreeFacts DEF Children
    <3>3. box[f].v[d] = want[d]
      BY <1>2, <2>1, <3>1, PackedChild
    <3>4. ASSUME NEW e \in Below[c], d \in Below[e], Above(e) PROVE box'[e].v[d] = want[d]
      <4>1. CASE e = c0
        BY <1>3, <2>1, <4>1
      <4>2. CASE e # c0
        <5>1. e \in Below[f]
          <6>1. PICK g \in Children(c0) : e \in Below[g]
            BY <1>2, <1>6, <4>2, TreeFacts
          <6>2. d \in Below[g]
            BY <1>2, <3>4, <6>1, TreeFacts
          <6>3. g = f
            BY <1>2, <3>1, <6>1, <6>2, RepackAssumption DEF RepackAssumption
          <6> QED
            BY <6>1, <6>3
        <5>2. box[e].v[d] = want[d]
          <6>1. CASE f \in tree
            BY <3>1, <3>2, <3>3, <3>4, <5>1, <6>1 DEF Kept, FromBelow
          <6>2. CASE f \notin tree
            <7>1. Below[f] \cap tree = {}
              BY <3>2, <6>2 DEF Inv, Walk
            <7>2. e \notin tree /\ Parent[e] \in tree
              BY <3>4, <5>1, <7>1 DEF Above
            <7>3. e = f
              BY <3>2, <5>1, <7>1, <7>2, ParentBelow
            <7> QED
              BY <3>3, <7>3
          <6> QED
            BY <6>1, <6>2
        <5> QED
          BY <1>3, <1>5, <4>2, <5>2
      <4> QED
        BY <4>1, <4>2
    <3>5. ASSUME d \in tree PROVE asset'[d].v = want[d]
      <4>1. f \in tree
        BY <3>1, <3>2, <3>5 DEF Inv, Walk
      <4>2. asset[d].v = want[d]
        BY <3>1, <3>2, <3>3, <3>5, <4>1 DEF Kept, FromBelow
      <4> QED
        BY <1>1, <1>5, <2>3, <4>2
    <3> QED
      BY <3>4, <3>5
  <2> QED
    BY <2>2, <2>3
<1>7. CASE c # c0
  <2>1. box[c].v[d] = want[d]
    BY <1>3, <1>5, <1>7
  <2>2. /\ \A e \in Below[c] : d \in Below[e] /\ Above(e) => box[e].v[d] = want[d]
        /\ d \in tree => asset[d].v = want[d]
    BY <2>1 DEF Kept, FromBelow
  <2>3. d \in tree => asset'[d].v = want[d]
    BY <1>1, <1>5, <2>2
  <2>4. ASSUME NEW e \in Below[c], d \in Below[e], Above(e) PROVE box'[e].v[d] = want[d]
    <3>1. CASE e # c0
      BY <1>3, <1>5, <2>2, <2>4, <3>1
    <3>2. CASE e = c0
      <4>1. CASE d = c0
        BY <1>3, <2>2, <3>2, <4>1, SelfWants DEF Kept
      <4>2. CASE d # c0
        <5>1. PICK f \in Children(c0) : d \in Below[f]
          BY <1>2, <2>4, <3>2, <4>2, TreeFacts
        <5>2. f \in Below[c] /\ Above(f)
          BY <1>2, <1>5, <2>4, <3>2, <5>1, TreeFacts DEF Children, Above
        <5>3. box[f].v[d] = want[d]
          BY <2>2, <5>1, <5>2
        <5> QED
          BY <1>2, <1>3, <3>2, <5>1, <5>3, PackedChild
      <4> QED
        BY <4>1, <4>2
    <3> QED
      BY <3>1, <3>2
  <2> QED
    BY <2>3, <2>4
<1> QED
  BY <1>6, <1>7

LEMMA RebuiltLoss ==
  ASSUME Inv, Inv', Accounted, NEW c0 \in Nested, Rebuilt(c0) PROVE Accounted'
<1>1. /\ Turn(c0) /\ Encode(c0) /\ pc = "tree" /\ pc' = "remove" /\ cur' = c0
      /\ UNCHANGED <<now, tree, setupT, form, imgs, left, err, pack, test, want, lost>>
  BY DEF Rebuilt, Rebuild, Decide, Turn, Ready, Release, opts
<1>2. /\ c0 \in Dirs /\ c0 \in tree /\ c0 \in Below[c0] /\ Kept /\ c0 \in Nested \cap tree
      /\ now \in Nat
  BY <1>1, NestedFacts, TreeFacts, Numbers DEF Accounted, Inv, Walk, Turn
<1>3. \/ UNCHANGED box /\ (test \/ Missing(c0) = {})
      \/ ~test /\ Write(c0, Packed(c0))
  BY DEF Rebuilt
<1>4. ASSUME Write(c0, Packed(c0))
      PROVE  /\ box'[c0].v = Packed(c0) /\ box'[c0].t = now
             /\ \A e \in Dirs \ {c0} : box'[e] = box[e]
  BY <1>2, <1>4 DEF Write, Inv, FilesOK
<1>5. \A d \in Dirs : box'[d].t <= now /\ \A e \in Dirs : box'[e].v[d] <= want[d]
  BY <1>2, <1>3, <1>4, PackedPast DEF Kept, Past
<1>6. Past' /\ Forms' /\ NewestWins'
  BY <1>1, <1>2, <1>5, EncodeKept
<1>7. Stages'
  BY <1>1, <1>2 DEF Kept, Stages
<1>8. FromBelow'
  <2>1. CASE UNCHANGED box
    BY <1>1, <1>2, <2>1, EncodeKeeps, FromBelowStays DEF Kept, Inv, FilesOK
  <2>2. CASE ~test /\ Write(c0, Packed(c0))
    BY <1>1, <1>2, <2>2, WriteFromBelow
  <2> QED
    BY <1>3, <2>1, <2>2
<1>9. ASSUME ~err', ~test' PROVE Good'
  <2>1. Good /\ ((UNCHANGED box /\ Missing(c0) = {}) \/ Write(c0, Packed(c0)))
    BY <1>1, <1>3, <1>9 DEF Accounted
  <2>2. c0 \notin imgs /\ Below[c0] \cap tree = {c0}
    BY <1>1, <1>2, <2>1, TurnAlone
  <2>3. Local'
    BY <1>1, <1>2, <2>1, EncodeLocal DEF Good
  <2>4. \A d \in Below[c0] \ lost : Packed(c0)[d] = want[d]
    BY <1>1, <1>2, <2>1, <2>2, AllArrives DEF Good
  <2>5. \A d \in Below[c0] \ lost : box'[c0].v[d] = want[d]
    BY <1>3, <1>4, <2>1, <2>4 DEF Missing
  <2>6. Finished'
    BY <1>1, <1>2, <1>3, <1>4, <2>1 DEF Good, Finished, Nested
  <2>7. Rising'
    <3>1. CASE UNCHANGED box
      BY <1>1, <1>2, <2>1, <3>1, EncodeRising
    <3>2. CASE Write(c0, Packed(c0))
      <4> SUFFICES ASSUME NEW e \in Nested \cap tree PROVE Fresh(e)' \/ Passed(e)'
        BY <1>1 DEF Rising
      <4>1. e \in Dirs /\ (Fresh(e) \/ Passed(e)) /\ \A f \in Children(e) : f \in Dirs /\ f # e
        BY <2>1, NestedFacts, TreeFacts DEF Good, Rising
      <4>2. CASE e = c0
        <5>1. c0 \notin lost => box'[c0].v[c0] = want[c0]
          BY <1>2, <2>5
        <5>2. \A f \in Children(c0) : Below[f] \subseteq Below[c0]
          BY <1>2, TreeFacts
        <5> QED
          BY <1>1, <2>5, <4>2, <5>1, <5>2 DEF Passed
      <4>3. CASE e # c0 /\ c0 \in Children(e)
        <5>1. setupT[e] < now /\ box[e].t < now /\ Ref(e)' = Ref(e)
          BY <1>1, <1>4, <2>1, <3>2, <4>1, <4>3 DEF Good, InRun, Ref
        <5>2. Ref(e) \in Nat /\ Ref(e) < now
          BY <4>1, <5>1, Numbers DEF Ref
        <5> QED
          BY <1>2, <1>4, <3>2, <4>3, <5>1, <5>2 DEF Fresh
      <4>4. CASE e # c0 /\ c0 \notin Children(e)
        <5>1. /\ asset'[e] = asset[e] /\ box'[e] = box[e]
              /\ \A f \in Children(e) : box'[f] = box[f]
          BY <1>1, <1>2, <1>4, <3>2, <4>1, <4>4, EncodeKeeps
        <5> QED
          BY <1>1, <4>1, <5>1 DEF Fresh, Passed, Ref
      <4> QED
        BY <4>2, <4>3, <4>4
    <3> QED
      BY <1>3, <3>1, <3>2
  <2>8. InRun'
    <3>1. \A e \in Nested \cap tree : setupT[e] < now /\ (e # c0 => box'[e].t < now)
      BY <1>1, <1>2, <1>3, <1>4, <2>1, NestedFacts DEF Good, InRun
    <3> QED
      BY <1>1, <2>1, <2>5, <3>1 DEF Good, InRun
  <2> QED
    BY <2>3, <2>6, <2>7, <2>8 DEF Good
<1> QED
  BY <1>6, <1>7, <1>8, <1>9 DEF Accounted, Kept

LEMMA UnopenedLoss ==
  ASSUME Inv, Inv', Accounted, NEW c0 \in Nested, Unopened(c0) PROVE Accounted'
<1>1. /\ Turn(c0) /\ Encode(c0) /\ pc = "tree" /\ pc' = "remove" /\ cur' = c0
      /\ lost' = lost \cup Missing(c0)
      /\ UNCHANGED <<now, tree, setupT, form, box, imgs, left, err, pack, test, want>>
  BY DEF Unopened, Rebuild, Decide, Turn, Ready, Release, opts
<1>2. c0 \in Dirs /\ c0 \in tree /\ Kept /\ c0 \in Nested \cap tree /\ lost \subseteq lost'
  BY <1>1, NestedFacts DEF Accounted, Inv, Walk, Turn
<1>3. Past' /\ Forms' /\ NewestWins'
  BY <1>1, <1>2, EncodeKept DEF Kept, Past
<1>4. Stages'
  BY <1>1, <1>2 DEF Kept, Stages
<1>5. FromBelow'
  BY <1>1, <1>2, EncodeKeeps, FromBelowStays DEF Kept, Inv, FilesOK
<1>6. ASSUME ~err', ~test' PROVE Good'
  <2>1. Good
    BY <1>1, <1>6 DEF Accounted
  <2>2. c0 \notin imgs /\ Below[c0] \cap tree = {c0}
    BY <1>1, <1>2, <2>1, TurnAlone
  <2>3. Local'
    BY <1>1, <1>2, <2>1, EncodeLocal DEF Good
  <2>4. Finished'
    BY <1>1, <1>2, <2>1 DEF Good, Finished
  <2>5. Rising'
    BY <1>1, <1>2, <2>1, EncodeRising
  <2>6. \A d \in Below[c0] \ lost : Packed(c0)[d] = want[d]
    BY <1>1, <1>2, <2>1, <2>2, AllArrives DEF Good
  <2>7. \A d \in Below[c0] \ lost' : box[c0].v[d] = want[d]
    BY <1>1, <2>6 DEF Missing
  <2>8. InRun'
    BY <1>1, <2>1, <2>7 DEF Good, InRun
  <2> QED
    BY <2>3, <2>4, <2>5, <2>8 DEF Good
<1> QED
  BY <1>3, <1>4, <1>5, <1>6 DEF Accounted, Kept

LEMMA RebuildFailsLoss ==
  ASSUME Inv, Inv', Accounted, NEW c0 \in Nested, RebuildFails(c0) PROVE Accounted'
<1>1. /\ err' /\ pc = "tree"
      /\ \/ UNCHANGED <<asset, box, lost>>
         \/ Encode(c0) /\ Write(c0, Torn) /\ lost' = lost \cup Below[c0]
      /\ UNCHANGED <<now, tree, form, setupT, pc, imgs, pack, test, want>>
  BY DEF RebuildFails, Rebuild, Decide, Turn, Ready, opts
<1>2. c0 \in Dirs /\ c0 \in tree /\ Kept /\ lost \subseteq lost'
  BY <1>1, NestedFacts DEF Accounted, Inv, Walk, RebuildFails, Rebuild, Decide, Turn
<1>3. Stages'
  BY <1>1, <1>2 DEF Kept, Stages
<1>4. CASE UNCHANGED <<asset, box, lost>>
  BY <1>1, <1>2, <1>3, <1>4 DEF Accounted, Kept, Past, Forms, NewestWins, FromBelow, Above
<1>5. CASE Encode(c0) /\ Write(c0, Torn) /\ lost' = lost \cup Below[c0]
  <2>1. /\ box'[c0].v = Torn /\ box'[c0].t = now /\ now \in Nat
        /\ \A e \in Dirs \ {c0} : box'[e] = box[e]
    BY <1>2, <1>5, Numbers DEF Write, Inv, FilesOK
  <2>2. \A d \in Dirs : Torn[d] <= want[d]
    <3>1. \A d \in Dirs : want[d] \in Nat /\ Torn[d] = Junk
      BY Numbers, NothingIsOld
    <3> QED
      BY <3>1 DEF Junk
  <2>3. \A d \in Dirs : box'[d].t <= now /\ \A e \in Dirs : box'[e].v[d] <= want[d]
    BY <1>2, <2>1, <2>2 DEF Kept, Past
  <2>4. Past' /\ Forms' /\ NewestWins'
    BY <1>1, <1>2, <1>5, <2>3, EncodeKept
  <2>5. FromBelow'
    <3> SUFFICES ASSUME NEW c \in Nested \cap tree, NEW d \in Below[c] \ lost',
                        box'[c].v[d] = want[d]
                 PROVE  /\ \A e \in Below[c] : d \in Below[e] /\ Above(e) => box'[e].v[d] = want[d]
                        /\ d \in tree => asset'[d].v = want[d]
      BY <1>1 DEF FromBelow, Above
    <3>1. c \in Dirs /\ d \in Dirs /\ d \notin Below[c0] /\ d # c0 /\ c # c0
      BY <1>2, <1>5, NestedFacts, TreeFacts
    <3>2. \A e \in Below[c] : d \in Below[e] => e \in Dirs /\ e # c0
      BY <3>1, TreeFacts
    <3>3. /\ \A e \in Below[c] : d \in Below[e] /\ Above(e) => box[e].v[d] = want[d]
          /\ d \in tree => asset[d].v = want[d]
      BY <1>2, <2>1, <3>1 DEF Kept, FromBelow
    <3> QED
      BY <1>2, <1>5, <2>1, <3>1, <3>2, <3>3, EncodeKeeps
  <2> QED
    BY <1>1, <1>3, <2>4, <2>5 DEF Accounted, Kept
<1> QED
  BY <1>1, <1>4, <1>5

(* Unlinking directories D and the forms of T.                              *)
LEMMA WithoutKept ==
  ASSUME Inv, Inv', Kept, NEW D, NEW T, Without(D, T), UNCHANGED <<now, want, imgs>>, pc # "idle"
  PROVE  /\ Past' /\ Forms' /\ NewestWins'
         /\ \A d \in tree' : /\ d \in tree /\ d \in Dirs /\ d \notin D
                             /\ asset'[d] = asset[d] /\ setupT'[d] = setupT[d]
                             /\ d \notin T => form'[d] = form[d]
         /\ \A e \in Dirs : e = Root \/ Parent[e] \notin D => box'[e] = box[e]
<1>1. \A d \in tree' : d \in tree /\ d \in Dirs /\ d \notin D
  BY DEF Without, Inv, FilesOK
<1>2. \A d \in Dirs : /\ asset'[d] = IF d \in D THEN Gone ELSE asset[d]
                      /\ form'[d] = IF d \in D \cup T THEN Gone ELSE form[d]
                      /\ setupT'[d] = IF d \in D THEN 0 ELSE setupT[d]
                      /\ box'[d] \in {box[d], [v |-> Torn, t |-> 0]}
                      /\ d = Root \/ Parent[d] \notin D => box'[d] = box[d]
  BY DEF Without
<1>3. Past'
  <2> SUFFICES ASSUME NEW d \in Dirs
               PROVE  /\ asset'[d].v <= want[d] /\ form'[d].v <= want[d]
                      /\ asset'[d].t <= now /\ form'[d].t <= now
                      /\ setupT'[d] <= now /\ box'[d].t <= now
                      /\ \A c \in Dirs : box'[c].v[d] <= want[d]
    BY DEF Past
  <2>1. /\ asset[d].v <= want[d] /\ form[d].v <= want[d]
        /\ asset[d].t <= now /\ form[d].t <= now /\ setupT[d] <= now /\ box[d].t <= now
        /\ \A c \in Dirs : box[c].v[d] <= want[d]
    BY DEF Kept, Past
  <2>2. Junk <= want[d] /\ 0 <= now
    <3>1. want[d] \in Nat /\ now \in Nat
      BY Numbers
    <3> QED
      BY <3>1 DEF Junk
  <2>3. Gone.v = Junk /\ Gone.t = 0 /\ Torn[d] = Junk
    BY NothingIsOld
  <2>4. \A c \in Dirs : box'[c].v[d] \in {box[c].v[d], Torn[d]}
    BY <1>2
  <2>5. box'[d].t \in {box[d].t, 0}
    BY <1>2
  <2> QED
    BY <1>2, <2>1, <2>2, <2>3, <2>4, <2>5
<1>4. Forms'
  BY <1>1, <1>2 DEF Kept, Forms, Without
<1>5. NewestWins'
  <2> SUFFICES ASSUME NEW d \in tree', asset'[d].v = want[d], form'[d].v # want[d]
               PROVE  form'[d].t <= asset'[d].t
    BY DEF NewestWins
  <2>1. d \in tree /\ asset'[d] = asset[d] /\ (form'[d] = form[d] \/ form'[d].t = 0)
    BY <1>1, <1>2, NothingIsOld
  <2>2. asset'[d].t \in Nat
    BY <1>1, NumbersNext
  <2> QED
    BY <2>1, <2>2 DEF Kept, NewestWins
<1> QED
  BY <1>1, <1>2, <1>3, <1>4, <1>5

LEMMA RemoveLoss == ASSUME Inv, Inv', Accounted, Remove PROVE Accounted'
<1>1. /\ Without(Below[cur], {}) /\ pc = "remove" /\ pc' = "tree" /\ tree' = tree \ Below[cur]
      /\ left' = left \ {cur}
      /\ UNCHANGED <<now, imgs, cur, err, pack, test, want, lost>>
  BY DEF Remove, Without, opts, history
<1>2. /\ Kept /\ cur \in Dirs /\ cur \in Nested /\ Root \notin Below[cur]
      /\ Parent[cur] \notin Below[cur]
  BY <1>1, NestedFacts DEF Accounted, Inv, RunOK, Walk, Nested
<1>3. /\ Past' /\ Forms' /\ NewestWins'
      /\ \A d \in tree' : /\ d \in tree /\ d \in Dirs /\ d \notin Below[cur]
                          /\ asset'[d] = asset[d] /\ setupT'[d] = setupT[d]
                          /\ form'[d] = form[d]
      /\ \A e \in Dirs : e = Root \/ Parent[e] \notin Below[cur] => box'[e] = box[e]
  BY <1>1, <1>2, WithoutKept
<1>4. \A c \in Nested \cap tree' : Parent[c] \notin Below[cur] /\ box'[c] = box[c]
  <2> SUFFICES ASSUME NEW c \in Nested \cap tree'
               PROVE  Parent[c] \notin Below[cur]
    BY <1>3
  <2> QED
    BY <1>2, <1>3, NestedFacts, TreeFacts
<1>5. FromBelow'
  <2> SUFFICES ASSUME NEW c \in Nested \cap tree', NEW d \in Below[c] \ lost,
                      box'[c].v[d] = want[d]
               PROVE  /\ \A e \in Below[c] : d \in Below[e] /\ Above(e)' => box'[e].v[d] = want[d]
                      /\ d \in tree' => asset'[d].v = want[d]
    BY <1>1 DEF FromBelow
  <2>1. /\ \A e \in Below[c] : d \in Below[e] /\ Above(e) => box[e].v[d] = want[d]
        /\ d \in tree => asset[d].v = want[d]
    BY <1>2, <1>3, <1>4 DEF Kept, FromBelow
  <2>2. \A e \in Below[c] : Above(e)' => Above(e) /\ box'[e] = box[e]
    BY <1>3, <1>4, NestedFacts DEF Above
  <2> QED
    BY <1>3, <2>1, <2>2
<1>6. Stages'
  BY <1>1, <1>2 DEF Kept, Stages
<1>7. ASSUME ~err', ~test' PROVE Good'
  <2>1. Good
    BY <1>1, <1>7 DEF Accounted
  <2>2. Local'
    BY <1>1, <1>3, <2>1 DEF Good, Local, Edited
  <2>3. Finished'
    <3> SUFFICES ASSUME NEW e \in Nested \ tree', Parent[e] \in tree', NEW d \in Below[e] \ lost
                 PROVE  box'[e].v[d] = want[d]
      BY <1>1 DEF Finished
    <3>1. box'[e] = box[e] /\ Parent[e] \in tree /\ Parent[e] \notin Below[cur]
      BY <1>3, NestedFacts
    <3>2. CASE e \notin tree
      BY <2>1, <3>1, <3>2 DEF Good, Finished
    <3>3. CASE e \in tree
      <4>1. e = cur
        BY <1>1, <1>2, <3>1, <3>3, ParentBelow
      <4> QED
        BY <1>1, <2>1, <3>1, <4>1 DEF Good, InRun
    <3> QED
      BY <3>2, <3>3
  <2>4. Rising'
    <3> SUFFICES ASSUME NEW c \in Nested \cap tree' PROVE Fresh(c)' \/ Passed(c)'
      BY DEF Rising
    <3>1. Fresh(c) \/ Passed(c)
      BY <1>3, <2>1 DEF Good, Rising
    <3>2. \A f \in Children(c) : box'[f] = box[f]
      BY <1>3 DEF Children, Nested
    <3> QED
      BY <1>1, <1>3, <1>4, <3>1, <3>2 DEF Fresh, Passed, Ref
  <2>5. InRun'
    <3>1. Nested \cap tree' \subseteq left' /\ cur \notin tree'
      BY <1>1, <1>2, <2>1, TreeFacts DEF Good, InRun
    <3>2. \A c \in Nested \cap tree' : setupT'[c] < now /\ box'[c].t < now
      BY <1>1, <1>3, <1>4, <2>1, <3>1 DEF Good, InRun
    <3> QED
      BY <1>1, <3>1, <3>2 DEF InRun
  <2> QED
    BY <2>2, <2>3, <2>4, <2>5 DEF Good
<1> QED
  BY <1>3, <1>5, <1>6, <1>7 DEF Accounted, Kept

LEMMA CleanupLoss == ASSUME Inv, Inv', Accounted, Cleanup PROVE Accounted'
<1> DEFINE texts == {d \in {Root} : Form[d] = "txt" /\ form[d] # Gone /\ asset[d] # Gone}
<1>1. /\ pc = "tree" /\ left = {} /\ Without(tree \ {Root}, texts)
      /\ lost' = IF Encodes(Root) THEN lost \cup texts ELSE lost
      /\ pc' = IF pack THEN "pack" ELSE "done"
      /\ UNCHANGED <<now, imgs, left, cur, err, pack, test, want>>
  BY DEF Cleanup, walk, opts
<1>2. Kept /\ Root \in tree /\ Root \in Dirs /\ lost \subseteq lost'
  BY <1>1 DEF Accounted, Kept, Stages, Inv, FilesOK
<1>3. tree' = {Root}
  BY <1>1, <1>2 DEF Without
<1>4. /\ Past' /\ Forms' /\ NewestWins'
      /\ asset'[Root] = asset[Root] /\ setupT'[Root] = setupT[Root]
      /\ Root \notin texts => form'[Root] = form[Root]
      /\ \A e \in Dirs : e = Root \/ Parent[e] \notin tree \ {Root} => box'[e] = box[e]
  <2> HIDE DEF texts
  <2> QED
    BY <1>1, <1>2, <1>3, WithoutKept
<1>5. FromBelow'
  BY <1>3 DEF FromBelow, Nested
<1>6. Stages'
  BY <1>1, <1>2, <1>3 DEF Kept, Stages
<1>7. ASSUME ~err', ~test' PROVE Good'
  <2>1. Good
    BY <1>1, <1>7 DEF Accounted
  <2>2. Local'
    <3> SUFFICES ASSUME Root \notin lost', asset[Root].v # want[Root] PROVE Edited(Root)'
      BY <1>1, <1>3, <1>4 DEF Local
    <3>1. Edited(Root)
      BY <1>2, <2>1 DEF Good, Local
    <3>2. Root \notin texts
      <4> SUFFICES ASSUME Root \in texts PROVE FALSE
        OBVIOUS
      <4>1. Encodes(Root)
        BY <3>1 DEF Edited, Encodes
      <4> QED
        BY <1>1, <4>1
    <3> QED
      BY <1>1, <1>4, <3>1, <3>2 DEF Edited
  <2>3. Finished'
    <3> SUFFICES ASSUME NEW e \in Nested, Parent[e] = Root, NEW d \in Below[e] \ lost'
                 PROVE  box'[e].v[d] = want[d]
      BY <1>1, <1>3 DEF Finished
    <3>1. e \notin tree
      BY <1>1, <2>1 DEF Good, InRun
    <3>2. box'[e] = box[e]
      BY <1>4 DEF Nested
    <3> QED
      BY <1>2, <2>1, <3>1, <3>2 DEF Good, Finished
  <2>4. Rising' /\ InRun'
    BY <1>1, <1>3 DEF Rising, InRun, Nested
  <2> QED
    BY <2>2, <2>3, <2>4 DEF Good
<1> QED
  BY <1>4, <1>5, <1>6, <1>7 DEF Accounted, Kept

LEMMA DropLoss == ASSUME Inv, Inv', Accounted, Drop PROVE Accounted'
<1>1. /\ pc = "drop" /\ pc' = "done"
      /\ (Without(tree, {}) /\ tree' = {}) \/ UNCHANGED disk
      /\ UNCHANGED <<now, imgs, left, cur, err, pack, test, want, lost>>
  BY DEF Drop, Without, walk, opts, history
<1>2. Kept /\ pack
  BY <1>1 DEF Accounted, Kept, Stages
<1>3. CASE UNCHANGED disk
  <2>1. UNCHANGED <<tree, asset, form, setupT, box>>
    BY <1>3 DEF disk, members
  <2>2. Past' /\ Forms' /\ NewestWins' /\ FromBelow' /\ Stages'
    BY <1>1, <1>2, <2>1 DEF Kept, Past, Forms, NewestWins, FromBelow, Above, Stages
  <2>3. ASSUME Good PROVE Good'
    <3>1. Local' /\ Finished'
      BY <1>1, <2>1, <2>3 DEF Good, Local, Edited, Finished
    <3>2. Rising'
      BY <1>1, <2>1, <2>3 DEF Good, Rising, Fresh, Passed, Ref
    <3>3. InRun'
      BY <1>1, <2>1, <2>3 DEF Good, InRun
    <3> QED
      BY <3>1, <3>2, <3>3 DEF Good
  <2> QED
    BY <1>1, <2>2, <2>3 DEF Accounted, Kept
<1>4. CASE Without(tree, {}) /\ tree' = {}
  <2>1. Past' /\ Forms' /\ NewestWins'
    BY <1>1, <1>2, <1>4, WithoutKept
  <2>2. FromBelow' /\ Stages'
    BY <1>1, <1>2, <1>4 DEF FromBelow, Stages
  <2>3. ASSUME Good PROVE Good'
    <3>1. box'[Root] = box[Root]
      BY <1>4, RepackAssumption DEF RepackAssumption, Without
    <3> QED
      BY <1>1, <1>4, <2>3, <3>1 DEF Good, Local, Finished, Rising, InRun
  <2> QED
    BY <1>1, <2>1, <2>2, <2>3 DEF Accounted, Kept
<1> QED
  BY <1>1, <1>3, <1>4

LEMMA PackLoss == ASSUME Inv, Inv', Accounted, Pack PROVE Accounted'
<1>1. /\ pc = "pack" /\ pc' \in {"drop", "done"}
      /\ UNCHANGED <<now, tree, form, setupT, imgs, left, cur, pack, test, want>>
      /\ UNCHANGED <<asset, box>> \/ Encode(Root)
      /\ UNCHANGED box \/ Write(Root, Packed(Root)) \/ Write(Root, Torn)
      /\ lost \subseteq lost' /\ (err => err')
      /\ ~err' /\ ~test' =>
           /\ pc' = "drop" /\ ~err /\ ~test /\ Encode(Root)
           /\ \/ UNCHANGED box /\ Missing(Root) \subseteq lost'
              \/ Write(Root, Packed(Root))
  BY DEF Pack, walk, opts
<1>2. Kept /\ Root \in tree /\ Root \in Dirs /\ pack /\ tree \subseteq Dirs /\ Below[Root] = Dirs
  BY <1>1, RepackAssumption DEF RepackAssumption, Accounted, Kept, Stages, Inv, FilesOK
<1>3. \A d \in Dirs : asset'[d] = asset[d] \/ d = Root
  BY <1>1, <1>2, EncodeKeeps
<1>4. \A e \in Nested : box'[e] = box[e]
  BY <1>1 DEF Write, Nested, Inv, FilesOK
<1>5. box'[Root] = box[Root] \/ (box'[Root].t = now /\ box'[Root].v \in {Packed(Root), Torn})
  BY <1>1, <1>2 DEF Write, Inv, FilesOK
<1>6. \A d \in Dirs : box'[d].t <= now /\ \A e \in Dirs : box'[e].v[d] <= want[d]
  <2> SUFFICES ASSUME NEW d \in Dirs, NEW e \in Dirs
               PROVE  box'[e].t <= now /\ box'[e].v[d] <= want[d]
    OBVIOUS
  <2>1. Torn[d] <= want[d]
    <3>1. want[d] \in Nat /\ Torn[d] = Junk
      BY Numbers, NothingIsOld
    <3> QED
      BY <3>1 DEF Junk
  <2>2. now \in Nat /\ Packed(Root)[d] <= want[d]
    BY <1>2, Numbers, PackedPast DEF Kept
  <2>3. CASE e = Root
    BY <1>2, <1>5, <2>1, <2>2, <2>3 DEF Kept, Past
  <2>4. CASE e # Root
    BY <1>2, <1>4, <2>4 DEF Kept, Past, Nested
  <2> QED
    BY <2>3, <2>4
<1>7. Past' /\ Forms' /\ NewestWins'
  <2>1. CASE Encode(Root)
    BY <1>1, <1>2, <1>6, <2>1, EncodeKept
  <2>2. CASE UNCHANGED <<asset, box>>
    BY <1>1, <1>2, <2>2 DEF Kept, Past, Forms, NewestWins
  <2> QED
    BY <1>1, <2>1, <2>2
<1>8. FromBelow'
  <2> SUFFICES ASSUME NEW c \in Nested \cap tree, NEW d \in Below[c] \ lost',
                      box'[c].v[d] = want[d]
               PROVE  /\ \A e \in Below[c] : d \in Below[e] /\ Above(e) => box'[e].v[d] = want[d]
                      /\ d \in tree => asset'[d].v = want[d]
    BY <1>1 DEF FromBelow, Above
  <2>1. d \in Dirs /\ d # Root /\ \A e \in Below[c] : e \in Nested
    BY NestedFacts DEF Nested
  <2>2. /\ \A e \in Below[c] : d \in Below[e] /\ Above(e) => box[e].v[d] = want[d]
        /\ d \in tree => asset[d].v = want[d]
    BY <1>1, <1>2, <1>4 DEF Kept, FromBelow
  <2> QED
    BY <1>3, <1>4, <2>1, <2>2
<1>9. Stages'
  BY <1>1, <1>2 DEF Stages
<1>10. ASSUME ~err', ~test' PROVE Good'
  <2>1. /\ Good /\ pc' = "drop" /\ ~test /\ Encode(Root)
        /\ (UNCHANGED box /\ Missing(Root) \subseteq lost') \/ Write(Root, Packed(Root))
    BY <1>1, <1>10 DEF Accounted
  <2>2. Nested \cap tree = {}
    BY <1>1, <2>1 DEF Good, InRun
  <2>3. Local'
    BY <1>1, <1>2, <2>1, EncodeLocal DEF Good
  <2>4. Finished'
    BY <1>1, <1>4, <2>1 DEF Good, Finished
  <2>5. Rising'
    BY <1>1, <2>2 DEF Rising
  <2>6. \A d \in Dirs \ lost : Packed(Root)[d] = want[d]
    <3>1. Root \notin imgs
      BY <1>1 DEF Inv, Walk
    <3>2. Below[Root] \cap tree = {Root}
      BY <1>2, <2>2 DEF Nested
    <3> QED
      BY <1>1, <1>2, <2>1, <3>1, <3>2, AllArrives DEF Good
  <2>7. \A d \in Dirs \ lost' : box'[Root].v[d] = want[d]
    <3>1. CASE UNCHANGED box /\ Missing(Root) \subseteq lost'
      BY <1>1, <1>2, <2>6, <3>1 DEF Missing
    <3>2. CASE Write(Root, Packed(Root))
      <4>1. box'[Root].v = Packed(Root)
        BY <1>2, <3>2 DEF Write, Inv, FilesOK
      <4> QED
        BY <1>1, <2>6, <4>1
    <3> QED
      BY <2>1, <3>1, <3>2
  <2>8. InRun'
    BY <1>1, <2>1, <2>2, <2>7 DEF InRun
  <2> QED
    BY <2>3, <2>4, <2>5, <2>8 DEF Good
<1> QED
  BY <1>7, <1>8, <1>9, <1>10 DEF Accounted, Kept

(* What the root has got is in all the containers it came through.          *)
LEMMA ThroughRoot ==
  ASSUME Inv, Kept, NEW c \in Nested, Above(c), NEW d \in Below[c] \ lost,
         Packed(Root)[d] = want[d]
  PROVE  box[c].v[d] = want[d] /\ (d \in tree => asset[d].v = want[d])
<1>1. Root \in Dirs /\ c \in Below[Root] \ {Root}
  BY NestedFacts, RepackAssumption DEF RepackAssumption
<1>2. PICK f \in Children(Root) : c \in Below[f]
  BY <1>1, TreeFacts
<1>3. f \in Nested /\ f \in Dirs /\ d \in Below[f]
  BY <1>1, <1>2, TreeFacts
<1>4. box[f].v[d] = want[d]
  BY <1>1, <1>2, <1>3, PackedChild
<1>5. CASE f \in tree
  BY <1>2, <1>3, <1>4, <1>5 DEF Kept, FromBelow
<1>6. CASE f \notin tree
  <2>1. Below[f] \cap tree = {}
    BY <1>3, <1>6 DEF Inv, Walk
  <2>2. c = f
    BY <1>2, <1>3, <2>1, ParentBelow DEF Above
  <2> QED
    BY <1>3, <1>4, <2>1, <2>2
<1> QED
  BY <1>5, <1>6

LEMMA EndLoss == ASSUME Inv, Inv', Accounted, End, UNCHANGED disk PROVE Accounted'
<1>1. /\ pc' = "idle" /\ imgs' = {} /\ ~err' /\ ~test'
      /\ lost' = IF err \/ test
                  THEN lost \cup {d \in Dirs : want[d] \notin {Output(d)} \cap {Packed(Root)[d]}}
                  ELSE lost
      /\ UNCHANGED <<now, tree, asset, form, setupT, box, want>>
  BY DEF End, disk, members
<1>2. Kept /\ lost \subseteq lost' /\ tree \subseteq Dirs
  BY <1>1 DEF Accounted, Inv, FilesOK
<1>3. Past' /\ Forms' /\ NewestWins' /\ FromBelow' /\ Stages'
  BY <1>1, <1>2 DEF Kept, Past, Forms, NewestWins, FromBelow, Above, Stages
<1>4. InRun'
  BY <1>1 DEF InRun
<1>5. CASE ~err /\ ~test
  <2>1. Good /\ lost' = lost
    BY <1>1, <1>5 DEF Accounted
  <2>2. Local' /\ Finished'
    BY <1>1, <2>1 DEF Good, Local, Edited, Finished
  <2>3. Rising'
    BY <1>1, <2>1 DEF Good, Rising, Fresh, Passed, Ref
  <2> QED
    BY <1>3, <1>4, <2>2, <2>3 DEF Accounted, Kept, Good
<1>6. CASE err \/ test
  <2>1. \A d \in Dirs \ lost' : d \notin lost /\ Packed(Root)[d] = want[d]
    BY <1>1, <1>2, <1>6
  <2>2. Local'
    <3> SUFFICES ASSUME NEW d \in tree \ lost' PROVE asset[d].v = want[d] \/ Edited(d)
      BY <1>1 DEF Local, Edited
    <3>1. d \in Dirs /\ d \notin lost /\ Packed(Root)[d] = want[d]
      BY <1>2, <2>1
    <3>2. CASE d = Root
      <4>1. CASE Encodes(Root)
        <5>1. form[d].v = want[d]
          BY <3>1, <3>2, <4>1, PackedSelf
        <5> QED
          BY <3>2, <4>1, <5>1 DEF Encodes, Edited
      <4>2. CASE ~Encodes(Root)
        BY <3>1, <3>2, <4>2, PackedSelf
      <4> QED
        BY <4>1, <4>2
    <3>3. CASE d # Root
      <4>1. d \in Nested /\ d \in Below[d] /\ Above(d)
        BY <3>1, <3>3, TreeFacts DEF Nested, Above
      <4> QED
        BY <1>2, <3>1, <4>1, ThroughRoot
    <3> QED
      BY <3>2, <3>3
  <2>3. Finished'
    <3> SUFFICES ASSUME NEW e \in Nested \ tree, Parent[e] \in tree, NEW d \in Below[e] \ lost'
                 PROVE  box[e].v[d] = want[d]
      BY <1>1 DEF Finished
    <3>1. d \in Dirs /\ Above(e)
      BY NestedFacts, TreeFacts DEF Above
    <3> QED
      BY <1>2, <2>1, <3>1, ThroughRoot
  <2>4. Rising'
    <3> SUFFICES ASSUME NEW c \in Nested \cap tree PROVE Passed(c)'
      BY <1>1 DEF Rising
    <3>1. c \in Dirs /\ c \in Below[c] /\ Above(c) /\ \A f \in Children(c) : Below[f] \subseteq Below[c]
      BY NestedFacts, TreeFacts DEF Above
    <3>2. \A d \in Below[c] \ lost' : box[c].v[d] = want[d]
      BY <1>2, <2>1, <3>1, ThroughRoot, TreeFacts
    <3> QED
      BY <1>1, <3>1, <3>2 DEF Passed
  <2> QED
    BY <1>3, <1>4, <2>2, <2>3, <2>4 DEF Accounted, Kept, Good
<1> QED
  BY <1>5, <1>6

(* Every edit stays accounted for, whatever step is next.                   *)
LEMMA LossNext == Inv /\ Inv' /\ LossInv /\ [Next]_vars => LossInv'
<1> SUFFICES ASSUME Inv, Inv', LossInv, [Next]_vars, ~cut' PROVE Accounted'
  BY DEF LossInv
<1>1. cut \in BOOLEAN
  BY DEF Inv, RunOK
<1>2. CASE \E d \in Dirs : Edit(d) \/ Image(d)
  <2>1. Accounted
    BY <1>2 DEF LossInv, Edit, Image, history
  <2>2. ASSUME NEW d \in Dirs, Edit(d) PROVE Accounted'
    <3>1. Kept /\ Good
      BY <2>1, <2>2 DEF Accounted, Kept, Stages, Edit
    <3> QED
      BY <2>2, <3>1, EditLoss DEF Accounted
  <2> QED
    BY <1>2, <2>1, <2>2, ImageLoss
<1>3. CASE \E p \in BOOLEAN, t \in Tests : Start(p, t)
  <2>1. Kept /\ Good
    BY <1>3 DEF LossInv, Accounted, Kept, Stages, Start, history
  <2> QED
    BY <1>3, <2>1, StartLoss DEF Accounted
<1>4. CASE \E c \in Nested : Baseline(c) \/ UpToDate(c) \/ Rebuilt(c) \/ Unopened(c) \/ RebuildFails(c)
  <2>1. Accounted
    BY <1>4 DEF LossInv, Baseline, UpToDate, Rebuilt, Unopened, RebuildFails, Release
  <2> QED
    BY <1>4, <2>1, BaselineLoss, UpToDateLoss, RebuiltLoss, UnopenedLoss, RebuildFailsLoss
<1>5. CASE Remove \/ Cleanup \/ Pack \/ Drop
  <2>1. Accounted
    BY <1>5 DEF LossInv, Remove, Cleanup, Pack, Drop, history
  <2> QED
    BY <1>5, <2>1, RemoveLoss, CleanupLoss, PackLoss, DropLoss
<1>6. CASE Leave \/ Crash
  <2>1. Accounted /\ End /\ UNCHANGED disk
    BY <1>6 DEF LossInv, Leave, Crash, Die
  <2> QED
    BY <2>1, EndLoss
<1>7. CASE CrashInRemoval \/ \E d \in Dirs : CrashInImage(d) \/ CrashInWrite(d)
  BY <1>7 DEF CrashInRemoval, CrashInImage, CrashInWrite
<1>8. CASE UNCHANGED vars
  <2>1. Accounted /\ UNCHANGED <<now, tree, asset, form, setupT, box, pc, imgs, left, cur, err,
                                 pack, test, want, lost>>
    BY <1>8 DEF LossInv, vars, disk, members, walk, opts, history
  <2>2. ASSUME Kept PROVE Kept'
    BY <2>1, <2>2 DEF Kept, Past, Forms, NewestWins, FromBelow, Above, Stages
  <2>3. ASSUME Good PROVE Good'
    <3>1. Local' /\ Finished' /\ InRun'
      BY <2>1, <2>3 DEF Good, Local, Edited, Finished, InRun
    <3>2. Rising'
      BY <2>1, <2>3 DEF Good, Rising, Fresh, Passed, Ref
    <3> QED
      BY <3>1, <3>2 DEF Good
  <2> QED
    BY <2>1, <2>2, <2>3 DEF Accounted
<1> QED
  BY <1>2, <1>3, <1>4, <1>5, <1>6, <1>7, <1>8 DEF Next

(* An edit that CREATE does not report as lost is in the output of every run*)
(* that ends without an error: however deep the tree is, and whatever runs  *)
(* have failed, were killed between two steps or only tested before.        *)
THEOREM NothingLostSilently == Spec => []NoSilentLoss
<1>1. Inv /\ LossInv => NoSilentLoss
  <2> SUFFICES ASSUME Inv, LossInv, pc = "done", ~err, ~test, ~cut, NEW d \in Dirs \ lost,
                      pack \/ d # Root
               PROVE  Output(d) = want[d]
    BY DEF NoSilentLoss
  <2>1. Kept /\ Good
    BY DEF LossInv, Accounted
  <2>2. CASE pack
    BY <2>1, <2>2 DEF Good, InRun, Output
  <2>3. CASE ~pack
    <3>1. Root \in tree /\ Nested \cap tree = {}
      BY <2>1, <2>3 DEF Kept, Stages, Good, InRun
    <3>2. Root \in Dirs /\ d \in Below[Root] \ {Root}
      BY <2>3, RepackAssumption DEF RepackAssumption
    <3>3. PICK f \in Children(Root) : d \in Below[f]
      BY <3>2, TreeFacts
    <3>4. f \in Nested \ tree /\ Parent[f] = Root
      BY <3>1, <3>2, <3>3, TreeFacts DEF Children
    <3>5. box[f].v[d] = want[d]
      BY <2>1, <3>1, <3>3, <3>4 DEF Good, Finished
    <3> QED
      BY <2>3, <3>2, <3>3, <3>5, PackedChild DEF Output
  <2> QED
    BY <2>2, <2>3
<1> QED
  BY <1>1, AlwaysInv, LossInit, LossNext, PTL DEF Spec

-----------------------------------------------------------------------------
(* Between two runs.                                                        *)

(* Between two runs, every edit that is not lost is where the next run of   *)
(* repack_tree_bottom_up() looks for it: in the asset, in a form that is    *)
(* seen to be newer, or in the container that has replaced its directory.   *)
EditsSurvive ==
  pc = "idle" /\ ~cut =>
    /\ \A d \in tree \ lost : asset[d].v = want[d] \/ Edited(d)
    /\ \A c \in Dirs \ tree : c = Root \/ Parent[c] \in tree =>
         \A d \in Below[c] \ lost : box[c].v[d] = want[d]

(* When the directory of the root is gone, its archive has everything.      *)
RootGone ==
  ~cut /\ Root \notin tree =>
    /\ tree = {} /\ pc \in {"idle", "done"}
    /\ pc = "idle" => \A d \in Dirs \ lost : box[Root].v[d] = want[d]

LEMMA RootGoneNext ==
  Inv /\ LossInv /\ RootGone /\ [Next]_vars => RootGone'
<1> SUFFICES ASSUME Inv, LossInv, RootGone, [Next]_vars, ~cut', Root \notin tree'
             PROVE  /\ tree' = {} /\ pc' \in {"idle", "done"}
                    /\ pc' = "idle" => \A d \in Dirs \ lost' : box'[Root].v[d] = want'[d]
  BY DEF RootGone
<1>1. CASE \E d \in Dirs : Edit(d) \/ Image(d)
  BY <1>1 DEF Edit, Image, RootGone, history, opts, Inv, Walk
<1>2. CASE \E p \in BOOLEAN, t \in Tests : Start(p, t)
  BY <1>2 DEF Start, disk
<1>3. CASE \E c \in Nested : Baseline(c) \/ UpToDate(c) \/ Rebuilt(c) \/ Unopened(c) \/ RebuildFails(c)
  <2>1. pc = "tree" /\ tree' = tree /\ ~cut
    BY <1>3 DEF Baseline, UpToDate, Rebuilt, Unopened, RebuildFails, Rebuild, Decide, Turn, Ready, Release
  <2> QED
    BY <2>1 DEF RootGone
<1>4. CASE Remove \/ Cleanup \/ Pack
  <2>1. ~cut /\ pc \in {"tree", "remove", "pack"}
    BY <1>4 DEF Remove, Cleanup, Pack, history
  <2>2. Root \in tree
    BY <2>1 DEF RootGone
  <2>3. CASE Remove
    <3>1. cur \in Nested
      BY <2>3 DEF Remove, Inv, Walk, Nested, FilesOK
    <3> QED
      BY <2>2, <2>3, <3>1, NestedFacts DEF Remove, Without
  <2>4. CASE Cleanup
    BY <2>2, <2>4 DEF Cleanup, Without
  <2>5. CASE Pack
    BY <2>2, <2>5 DEF Pack
  <2> QED
    BY <1>4, <2>3, <2>4, <2>5
<1>5. CASE Drop
  BY <1>5 DEF Drop, Without, RootGone, history, disk
<1>6. CASE Leave \/ Crash
  <2>1. ~cut /\ pc # "idle" /\ End /\ UNCHANGED <<tree, box, want>> /\ Accounted
    BY <1>6 DEF LossInv, Leave, Crash, Die, End, disk
  <2>2. tree = {} /\ pc = "done" /\ pack
    BY <2>1 DEF RootGone, Accounted, Kept, Stages
  <2>3. \A d \in Dirs \ lost' : box[Root].v[d] = want[d]
    <3>1. CASE err \/ test
      BY <2>1, <2>2, <3>1 DEF End, Output
    <3>2. CASE ~err /\ ~test
      BY <2>1, <2>2, <3>2 DEF End, Accounted, Good, InRun
    <3> QED
      BY <3>1, <3>2
  <2> QED
    BY <2>1, <2>2, <2>3 DEF End
<1>7. CASE CrashInRemoval \/ \E d \in Dirs : CrashInImage(d) \/ CrashInWrite(d)
  BY <1>7 DEF CrashInRemoval, CrashInImage, CrashInWrite
<1>8. CASE UNCHANGED vars
  BY <1>8 DEF RootGone, vars, disk, history
<1> QED
  BY <1>1, <1>2, <1>3, <1>4, <1>5, <1>6, <1>7, <1>8 DEF Next

(* No run takes the last copy of an edit away from the next one without a   *)
(* word, not even a run that is killed between two steps.  (An error, like  *)
(* --test, stands for the edits that have not arrived at the root by then.) *)
THEOREM NoLastCopyDestroyed == Spec => []EditsSurvive
<1>1. Init => RootGone
  BY RepackAssumption DEF RepackAssumption, Init, RootGone
<1>2. Inv /\ LossInv /\ RootGone => EditsSurvive
  <2> SUFFICES ASSUME Inv, LossInv, RootGone, pc = "idle", ~cut
               PROVE  /\ \A d \in tree \ lost : asset[d].v = want[d] \/ Edited(d)
                      /\ \A c \in Dirs \ tree : c = Root \/ Parent[c] \in tree =>
                           \A d \in Below[c] \ lost : box[c].v[d] = want[d]
    BY DEF EditsSurvive
  <2>1. Local /\ Finished
    BY DEF LossInv, Accounted, Kept, Stages, Good
  <2>2. ASSUME NEW c \in Dirs \ tree, c = Root \/ Parent[c] \in tree, NEW d \in Below[c] \ lost
        PROVE  box[c].v[d] = want[d]
    <3>1. CASE c = Root
      BY <2>2, <3>1, TreeFacts DEF RootGone
    <3>2. CASE c # Root
      BY <2>1, <2>2, <3>2 DEF Finished, Nested
    <3> QED
      BY <3>1, <3>2
  <2> QED
    BY <2>1, <2>2 DEF Local
<1> QED
  BY <1>1, <1>2, AlwaysInv, LossInit, LossNext, RootGoneNext, PTL DEF Spec
=============================================================================
