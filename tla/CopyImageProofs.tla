--------------------------- MODULE CopyImageProofs ---------------------------
(***************************************************************************)
(* Theorems about CopyImage, for any images, any number of parts and       *)
(* blocks, and any way the buffer stretches over blocks.                   *)
(***************************************************************************)
EXTENDS CopyImage, TLAPS

(* What has its name, whether the source exists, which lists are empty.     *)
PhaseInv ==
  /\ pc = "create" => place = "none" /\ map = NoInode.map /\ used = {}
  /\ pc \in Copying \cup Rewriting \cup Closing => place = "temp"
  /\ place = "final" => pc = "done"
  /\ ~source => pc \in Closing \cup {"done", "died"}
  /\ pc \in {"create", "copy", "rewrite"} => left = {}
  /\ pc \in Rewriting \cup Closing => todo = {}
  /\ pc = "patch" => ~atHead /\ left \subseteq UNION image.items

(* Parts have blocks of their own; what is not in use is empty.             *)
MapInv ==
  /\ \A p \in Parts : map[p] = 0 \/ map[p] \in used
  /\ \A p, q \in Parts : map[p] # 0 /\ map[p] = map[q] => p = q
  /\ \A b \in Blocks \ used : dData[b] = Fresh[b]

Copied == \A u \in DiscUnits : ReadWBFS(map, u) = Final(u)

(* What has been copied reads as the source was read, what has been written *)
(* again reads as it is to be, and from then on the whole disc does.        *)
DataInv ==
  /\ pc \in Copying =>
       \A u \in DiscUnits \ (todo \cup left) : ReadWBFS(map, u) = Read(u)
  /\ pc \in Rewriting =>
       \A u \in DiscUnits :
         /\ u \notin UNION image.items => ReadWBFS(map, u) = Read(u)
         /\ u \in (UNION (image.items \ items)) \ left => ReadWBFS(map, u) = Final(u)
  /\ pc \in Closing \/ place = "final" \/ ~source => Copied

InPartZero == \A u \in Chunk(First) : u[1] = 0
HeaderOk   == header = Read(First) <=> InPartZero

(* The header of the inode against the chunk of it, also halfway through    *)
(* its write.                                                               *)
HeaderInv ==
  /\ pc = "write" /\ First \in left => atHead /\ left = Chunk(First)
  /\ pc = "write" /\ atHead /\ First \notin left =>
       left \subseteq Chunk(First) /\ \A v \in left : v[1] # 0
  /\ pc = "write" /\ atHead => First \notin todo
  /\ pc \in Copying \cup Rewriting \cup Closing /\ First \notin todo
       /\ ~(pc = "write" /\ atHead) => HeaderOk
  /\ place = "final" => HeaderOk

(* The tables that have been written are those in memory, unless the write  *)
(* failed silently.                                                         *)
CloseInv ==
  /\ (pc \in Closing \ {"inode"} \/ place = "final") /\ "inode" \notin lost =>
       dInode = [map |-> map, header |-> header]
  /\ (pc \in Closing \ {"inode", "head"} \/ place = "final") /\ "head" \notin lost =>
       dHead = [size |-> size, table |-> TRUE]
  /\ (pc \in {"cut", "close"} \/ place = "final") /\ "fbt" \notin lost /\ HasTable(size) =>
       dFbt = [size |-> size, free |-> (1 .. Numbered(size) - 1) \ used]
  /\ pc \in {"trimFbt", "cut", "close"} \/ place = "final" => \A b \in used : b < size

-----------------------------------------------------------------------------
(* The geometry *)

LEMMA Division ==
  ASSUME NEW a \in Nat, NEW b \in Nat \ {0}
  PROVE  a \div b \in Nat
OBVIOUS

LEMMA Product ==
  ASSUME NEW a \in Nat, NEW b \in Nat
  PROVE  a * b \in Nat
OBVIOUS

(* A size has a whole number of numbered blocks.                            *)
LEMMA NumberedNat ==
  ASSUME NEW n \in Nat
  PROVE  Numbered(n) \in Nat
<1> DEFINE old == (n \div Round) * Round
           sectors == (old + FbtBits - 1) \div FbtBits
<1>1. Round \in Nat \ {0} /\ FbtBits \in Nat \ {0}
  BY CopyAssumption
<1>2. old \in Nat
  BY <1>1, Division, Product
<1>3. old + FbtBits - 1 \in Nat
  <2> HIDE DEF old
  <2> QED BY <1>1, <1>2
<1>4. sectors \in Nat
  <2> HIDE DEF old
  <2> QED BY <1>1, <1>3, Division
<1>5. TableBits(n) \in Nat
  <2>1. TableBits(n) = FbtBits * sectors
    BY DEF TableBits
  <2> HIDE DEF sectors
  <2> QED BY <1>1, <1>4, <2>1, Product
<1> QED
  BY <1>5 DEF Numbered

-----------------------------------------------------------------------------
(* The image *)

LEMMA ImageFacts ==
  ASSUME image \in Images
  PROVE  /\ First \in image.data /\ image.data \subseteq SourceUnits
         /\ SourceUnits \subseteq Units /\ First \in SourceUnits
         /\ \A it \in image.items : it \subseteq SourceUnits \ {First}
         /\ image.mode \in {"sectors", "raw", "blocks"}
         /\ image.remove \in BOOLEAN
<1>1. image.size \in 1 .. PerDisc + 1 /\ PerDisc \in Nat /\ PerBlock \in Nat \ {0}
  BY CopyAssumption
<1>2. SourceUnits \subseteq Units
  BY <1>1 DEF SourceUnits, Units
<1>3. First \in image.data /\ image.data \subseteq SourceUnits
  BY CopyAssumption DEF SourceUnits
<1> QED
  BY <1>2, <1>3, CopyAssumption

LEMMA UnitFacts ==
  ASSUME image \in Images, NEW u \in SourceUnits
  PROVE  /\ u = <<u[1], u[2]>> /\ u[1] \in Nat /\ u[2] \in InBlock
         /\ u[1] < PerDisc => u[1] \in Parts /\ u \in DiscUnits
<1>1. image.size \in Nat /\ PerDisc \in Nat
  BY CopyAssumption
<1> QED
  BY <1>1 DEF SourceUnits, Parts, DiscUnits

LEMMA ChunkFacts ==
  ASSUME image \in Images, NEW u \in SourceUnits
  PROVE  /\ Chunk(u) \subseteq SourceUnits /\ u \in Chunk(u)
         /\ First \in Chunk(u) => Chunk(u) = Chunk(First)
<1>1. CASE image.mode = "sectors"
  BY <1>1 DEF Chunk
<1>2. CASE image.mode # "sectors"
  <2>1. \A w : Chunk(w) = {v \in SourceUnits : v[1] \div Group = w[1] \div Group}
    BY <1>2 DEF Chunk
  <2> QED
    BY <2>1
<1> QED
  BY <1>1, <1>2

LEMMA ToCopyFacts ==
  ASSUME image \in Images
  PROVE  image.data \subseteq ToCopy /\ ToCopy \subseteq SourceUnits
<1>1. \A u \in image.data : u \in Chunk(u) /\ Chunk(u) \subseteq SourceUnits
  BY ImageFacts, ChunkFacts
<1>2. CASE image.mode = "sectors"
  BY <1>2, ImageFacts DEF ToCopy
<1>3. CASE image.mode = "raw"
  BY <1>3, ImageFacts DEF ToCopy
<1>4. CASE image.mode = "blocks"
  <2>1. ToCopy = UNION {Chunk(u) : u \in image.data}
    BY <1>4 DEF ToCopy
  <2> QED
    BY <1>1, <2>1
<1> QED
  BY <1>2, <1>3, <1>4, ImageFacts

(* Nothing comes before the disc header. *)
LEMMA FirstIsLowest ==
  ASSUME image \in Images, NEW S \in SUBSET SourceUnits, First \in S,
         NEW u, IsLowest(u, S)
  PROVE  u = First
<1>1. SUFFICES ASSUME u # First PROVE FALSE
  OBVIOUS
<1>2. u \in SourceUnits /\ Before(u, First)
  BY <1>1 DEF IsLowest
<1>3. u[1] \in Nat /\ u[2] \in Nat
  BY <1>2, UnitFacts, CopyAssumption DEF InBlock
<1> QED
  BY <1>2, <1>3 DEF Before, First

LEMMA ReadFacts ==
  ASSUME image \in Images
  PROVE  /\ \A u \in SourceUnits : Read(u) \in Contents /\ Final(u) \in Contents
         /\ \A u : u \notin UNION image.items => Final(u) = Read(u)
         /\ \A u \in SourceUnits : u # First => Read(u) # Read(First)
         /\ \A u : u \notin image.data => Read(u) = Empty
         /\ Final(First) = Read(First)
<1>1. SourceUnits \subseteq Units /\ First \in image.data /\ First \notin UNION image.items
  BY ImageFacts
<1>2. \A u : <<u, "read">> # Empty
  BY DEF Empty
<1>3. \A u, v : <<u, "read">> = <<v, "read">> => u = v
  OBVIOUS
<1>4. Read(First) = <<First, "read">>
  BY <1>1 DEF Read
<1>5. \A u \in SourceUnits : Read(u) \in Contents /\ Final(u) \in Contents
  BY <1>1 DEF Read, Final, Contents
<1>6. \A u : u # First => Read(u) # Read(First)
  BY <1>2, <1>3, <1>4 DEF Read
<1> QED
  BY <1>1, <1>5, <1>6 DEF Read, Final

LEMMA FirstType ==
  ASSUME image \in Images
  PROVE  /\ NoHead \in [size : Nat, table : BOOLEAN]
         /\ NoInode \in [map : [Parts -> 0 .. NBlocks - 1], header : Contents]
         /\ Fresh \in [Blocks -> [InBlock -> Contents]] /\ Empty \in Contents
<1>1. 0 \in 0 .. NBlocks - 1
  BY CopyAssumption
<1> QED
  BY <1>1 DEF NoHead, NoInode, Fresh, Contents

(* Only the image says what its parts contain and where they belong.        *)
LEMMA ImageTerms ==
  ASSUME image' = image
  PROVE  /\ SourceUnits' = SourceUnits /\ ToCopy' = ToCopy /\ InPartZero' = InPartZero
         /\ Chunk(First)' = Chunk(First)
         /\ \A u : Read(u)' = Read(u) /\ Final(u)' = Final(u)
BY DEF SourceUnits, ToCopy, Chunk, InPartZero, Read, Final

LEMMA ImageStays == [Next]_vars => image' = image
BY DEF vars, Next, Step, Interrupt, Die, Create, CreateFails, Abort, CopyChunk, CopyFails,
       CopyEnd, RewriteItem, RewriteFails, RemoveSource, Interrupted,
       WriteTurn, WriteFails, CloseDisc, SyncHead, SyncFbt, Trim, Cut, Close

-----------------------------------------------------------------------------
(* Types *)

(* One turn of the loop of WriteWBFS(). *)
Turn(u, b) ==
  LET us == {v \in left : v[1] = u[1]}
  IN  /\ IsLowest(u, left) /\ u[1] < PerDisc /\ IsBlockOf(u[1], b)
      /\ map' = [map EXCEPT ![u[1]] = b] /\ used' = used \cup {b}
      /\ dData' = [dData EXCEPT ![b] = Stored(u[1], us, b)]
      /\ left' = left \ us
      /\ header' = NewHeader(u)

LEMMA TurnFacts ==
  ASSUME TypeOK, WriteTurn
  PROVE  /\ \E u \in left, b \in Blocks : Turn(u, b)
         /\ pc \in {"write", "patch"}
         /\ pc' = IF left' # {} THEN pc ELSE IF pc = "write" THEN "copy" ELSE "rewrite"
BY DEF WriteTurn, Turn

LEMMA ContentFacts ==
  ASSUME TypeOK, NEW u \in SourceUnits
  PROVE  Content(u) \in Contents
BY ReadFacts DEF TypeOK, Content

LEMMA TurnTypes ==
  ASSUME TypeOK, NEW u \in left, NEW b \in Blocks, Turn(u, b)
  PROVE  /\ u[1] \in Parts
         /\ map' \in [Parts -> 0 .. NBlocks - 1] /\ used' \in SUBSET Blocks
         /\ left' \in SUBSET SourceUnits /\ header' \in Contents
         /\ dData' \in [Blocks -> [InBlock -> Contents]]
<1>1. u \in SourceUnits /\ image \in Images
  BY DEF TypeOK
<1>2. u[1] \in Parts
  BY <1>1, UnitFacts DEF Turn
<1>3. b \in 0 .. NBlocks - 1
  BY CopyAssumption DEF Blocks
<1>4. map' \in [Parts -> 0 .. NBlocks - 1]
  BY <1>2, <1>3 DEF TypeOK, Turn
<1>5. header' \in Contents
  BY <1>1, ContentFacts DEF Turn, NewHeader, TypeOK
<1>6. ASSUME NEW us \in SUBSET left
      PROVE  Stored(u[1], us, b) \in [InBlock -> Contents]
  <2>1. SUFFICES ASSUME NEW k \in InBlock
                 PROVE  (IF <<u[1], k>> \in us THEN Content(<<u[1], k>>) ELSE dData[b][k])
                           \in Contents
    BY DEF Stored
  <2>2. CASE <<u[1], k>> \in us
    BY <2>2, ContentFacts DEF TypeOK
  <2>3. CASE <<u[1], k>> \notin us
    BY <2>3 DEF TypeOK
  <2> QED
    BY <2>2, <2>3
<1>7. dData' \in [Blocks -> [InBlock -> Contents]]
  BY <1>6 DEF TypeOK, Turn
<1> QED
  BY <1>2, <1>4, <1>5, <1>7 DEF TypeOK, Turn

LEMMA InitType == Init => TypeOK
<1> SUFFICES ASSUME Init PROVE TypeOK
  OBVIOUS
<1>1. image \in Images /\ NBlocks \in Nat
  BY CopyAssumption DEF Init
<1> QED
  BY <1>1, FirstType DEF Init, TypeOK, NoInode, NoHead

LEMMA Typing == TypeOK /\ [Next]_vars => TypeOK'
<1> SUFFICES ASSUME TypeOK, [Next]_vars PROVE TypeOK'
  OBVIOUS
<1> USE DEF TypeOK, file, memory
<1>1. image' = image /\ SourceUnits' = SourceUnits
  BY ImageStays, ImageTerms
<1>2. ASSUME NEW err \in {"ok", "error"}, Abort(err) PROVE TypeOK'
  BY <1>1, <1>2 DEF Abort
<1>3. ASSUME NEW h \in BOOLEAN, NEW f \in BOOLEAN, Create(h, f) PROVE TypeOK'
  <2>1. Blocks \in SUBSET Nat
    BY CopyAssumption DEF Blocks
  <2>2. dHead' \in [size : Nat, table : BOOLEAN] /\ dFbt' \in [size : Nat, free : SUBSET Nat]
    BY <1>3, <2>1, FirstType DEF Create
  <2> QED
    BY <1>1, <1>3, <2>2, ToCopyFacts DEF Create, Copying
<1>4. ASSUME CopyChunk PROVE TypeOK'
  <2>1. left' \in SUBSET SourceUnits
    BY <1>4, ChunkFacts DEF CopyChunk
  <2> QED
    BY <1>1, <1>4, <2>1 DEF CopyChunk, Copying
<1>5. ASSUME CopyEnd PROVE TypeOK'
  BY <1>1, <1>5 DEF CopyEnd, Rewriting
<1>6. ASSUME RewriteItem PROVE TypeOK'
  <2>1. left' \in SUBSET SourceUnits
    BY <1>6, ImageFacts DEF RewriteItem
  <2> QED
    BY <1>1, <1>6, <2>1 DEF RewriteItem, Rewriting
<1>7. ASSUME RemoveSource PROVE TypeOK'
  BY <1>1, <1>7, ImageFacts DEF RemoveSource, Closing
<1>8. ASSUME WriteTurn PROVE TypeOK'
  <2>1. PICK u \in left, b \in Blocks : Turn(u, b)
    BY <1>8, TurnFacts
  <2>2. /\ map' \in [Parts -> 0 .. NBlocks - 1] /\ used' \in SUBSET Blocks
        /\ left' \in SUBSET SourceUnits /\ header' \in Contents
        /\ dData' \in [Blocks -> [InBlock -> Contents]]
    BY <2>1, TurnTypes
  <2>3. pc' \in Copying \cup Rewriting
    BY <1>8, TurnFacts DEF Copying, Rewriting
  <2> QED
    BY <1>1, <1>8, <2>2, <2>3 DEF WriteTurn
<1>9. ASSUME NEW ok \in BOOLEAN, CloseDisc(ok) PROVE TypeOK'
  BY <1>1, <1>9 DEF CloseDisc, Written, Closing
<1>10. ASSUME NEW ok \in BOOLEAN, SyncHead(ok) PROVE TypeOK'
  BY <1>1, <1>10 DEF SyncHead, Written, Closing
<1>11. ASSUME NEW ok \in BOOLEAN, SyncFbt(ok) PROVE TypeOK'
  <2>1. Numbered(size) \in Nat
    BY NumberedNat
  <2>2. (1 .. Numbered(size) - 1) \ used \in SUBSET Nat
    BY <2>1
  <2> QED
    BY <1>1, <1>11, <2>2 DEF SyncFbt, Written, Closing
<1>12. ASSUME NEW ok \in BOOLEAN, Trim(ok) PROVE TypeOK'
  <2>1. size' \in Nat
    BY <1>12, CopyAssumption DEF Trim, Blocks
  <2> QED
    BY <1>1, <1>12, <2>1 DEF Trim, Written, Closing
<1>13. ASSUME NEW ok \in BOOLEAN, Cut(ok) PROVE TypeOK'
  BY <1>1, <1>13, FirstType DEF Cut, Closing
<1>14. ASSUME NEW c \in BOOLEAN, NEW r \in BOOLEAN, Close(c, r) PROVE TypeOK'
  BY <1>1, <1>14 DEF Close
<1>15. CASE Interrupt
  BY <1>1, <1>15 DEF Interrupt
<1>16. CASE Die
  BY <1>1, <1>16 DEF Die
<1>17. CASE UNCHANGED vars
  BY <1>1, <1>17 DEF vars
<1>18. ASSUME CreateFails \/ CopyFails \/ RewriteFails \/ WriteFails \/ Interrupted
       PROVE  TypeOK'
  <2>1. Abort("error") \/ Abort("ok")
    BY <1>18 DEF CreateFails, CopyFails, RewriteFails, Interrupted, WriteFails
  <2> QED
    BY <1>2, <2>1
<1> QED
  BY <1>3, <1>4, <1>5, <1>6, <1>7, <1>8, <1>9, <1>10, <1>11, <1>12, <1>13, <1>14,
     <1>15, <1>16, <1>17, <1>18 DEF Next, Step

-----------------------------------------------------------------------------
(* Phases and blocks *)

LEMMA Phases == TypeOK /\ PhaseInv /\ [Next]_vars => PhaseInv'
<1> SUFFICES ASSUME TypeOK, PhaseInv, [Next]_vars PROVE PhaseInv'
  OBVIOUS
<1> USE DEF PhaseInv, Copying, Rewriting, Closing, file, memory
<1>1. image' = image
  BY ImageStays
<1>2. ASSUME CreateFails \/ CopyFails \/ RewriteFails \/ WriteFails \/ Interrupted
       PROVE  PhaseInv'
  BY <1>1, <1>2 DEF CreateFails, CopyFails, RewriteFails, WriteFails, Interrupted, Abort
<1>3. ASSUME NEW h \in BOOLEAN, NEW f \in BOOLEAN, Create(h, f) PROVE PhaseInv'
  BY <1>1, <1>3 DEF Create
<1>4. ASSUME CopyChunk \/ CopyEnd \/ RemoveSource PROVE PhaseInv'
  BY <1>1, <1>4 DEF CopyChunk, CopyEnd, RemoveSource
<1>5. ASSUME RewriteItem PROVE PhaseInv'
  <2>1. left' \subseteq UNION image'.items
    BY <1>1, <1>5 DEF RewriteItem, TypeOK
  <2> QED
    BY <1>1, <1>5, <2>1 DEF RewriteItem
<1>6. ASSUME WriteTurn PROVE PhaseInv'
  <2>1. PICK u \in left, b \in Blocks : Turn(u, b)
    BY <1>6, TurnFacts
  <2>2. left' \subseteq left /\ pc \in {"write", "patch"}
        /\ pc' = IF left' # {} THEN pc ELSE IF pc = "write" THEN "copy" ELSE "rewrite"
    BY <1>6, <2>1, TurnFacts DEF Turn
  <2> QED
    BY <1>1, <1>6, <2>2 DEF WriteTurn
<1>7. ASSUME NEW ok \in BOOLEAN,
             CloseDisc(ok) \/ SyncHead(ok) \/ SyncFbt(ok) \/ Trim(ok) \/ Cut(ok)
      PROVE  PhaseInv'
  BY <1>1, <1>7 DEF CloseDisc, SyncHead, SyncFbt, Trim, Cut
<1>8. ASSUME NEW c \in BOOLEAN, NEW r \in BOOLEAN, Close(c, r) PROVE PhaseInv'
  BY <1>1, <1>8 DEF Close
<1>9. CASE Interrupt \/ Die
  BY <1>1, <1>9 DEF Interrupt, Die, Running
<1>10. CASE UNCHANGED vars
  BY <1>10 DEF vars
<1> QED
  BY <1>2, <1>3, <1>4, <1>5, <1>6, <1>7, <1>8, <1>9, <1>10 DEF Next, Step

LEMMA TurnBlock ==
  ASSUME TypeOK, MapInv, NEW u \in left, NEW b \in Blocks, Turn(u, b)
  PROVE  /\ u[1] \in Parts /\ b # 0
         /\ \/ map[u[1]] = b /\ b \in used
            \/ map[u[1]] = 0 /\ b \notin used
         /\ map'[u[1]] = b /\ \A q \in Parts \ {u[1]} : map'[q] = map[q]
         /\ \A c \in Blocks \ {b} : dData'[c] = dData[c]
         /\ \A q \in Parts \ {u[1]} : map[q] # b
<1>1. u[1] \in Parts
  BY TurnTypes
<1>2. b # 0
  BY CopyAssumption DEF Blocks
<1>3. (map[u[1]] = b /\ b \in used) \/ (map[u[1]] = 0 /\ b \notin used)
  <2>1. IsBlockOf(u[1], b)
    BY DEF Turn
  <2>2. map[u[1]] = 0 => b \notin used
    BY <2>1 DEF IsBlockOf, IsNearest
  <2> QED
    BY <1>1, <2>1, <2>2 DEF IsBlockOf, MapInv
<1> QED
  BY <1>1, <1>2, <1>3 DEF Turn, TypeOK, MapInv

LEMMA Blocking == TypeOK /\ MapInv /\ [Next]_vars => MapInv'
<1> SUFFICES ASSUME TypeOK, MapInv, [Next]_vars PROVE MapInv'
  OBVIOUS
<1>1. CASE WriteTurn
  <2>1. PICK u \in left, b \in Blocks : Turn(u, b)
    BY <1>1, TurnFacts
  <2>2. used' = used \cup {b}
    BY <2>1 DEF Turn
  <2> QED
    BY <2>1, <2>2, TurnBlock DEF MapInv
<1>2. ASSUME NEW ok \in BOOLEAN, Cut(ok) PROVE MapInv'
  BY <1>2 DEF Cut, memory, MapInv
<1>3. CASE UNCHANGED <<map, used, dData>>
  BY <1>3 DEF MapInv
<1>4. ASSUME ~WriteTurn, ~\E ok \in BOOLEAN : Cut(ok) PROVE UNCHANGED <<map, used, dData>>
  BY <1>4 DEF vars, Next, Step, Interrupt, Die, Create, CreateFails, Abort, CopyChunk,
     CopyFails, CopyEnd, RewriteItem, RewriteFails, RemoveSource,
     Interrupted, WriteFails, CloseDisc, SyncHead, SyncFbt, Trim, Close, file, memory
<1> QED
  BY <1>1, <1>2, <1>3, <1>4

(* A turn writes its units and leaves the others as they are. *)
LEMMA TurnReads ==
  ASSUME TypeOK, MapInv, NEW u \in left, NEW b \in Blocks, Turn(u, b), NEW v \in DiscUnits
  PROVE  ReadWBFS(map, v)' =
           IF v \in left /\ v[1] = u[1] THEN Content(v) ELSE ReadWBFS(map, v)
<1> DEFINE us == {w \in left : w[1] = u[1]}
<1>1. v[1] \in Parts /\ v[2] \in InBlock /\ v = <<v[1], v[2]>>
  BY DEF DiscUnits
<1>2. ReadWBFS(map, v)' = IF map'[v[1]] = 0 THEN Empty ELSE dData'[map'[v[1]]][v[2]]
  BY DEF ReadWBFS
<1>3. CASE v[1] = u[1]
  <2>1. dData'[b][v[2]] = IF v \in us THEN Content(v) ELSE dData[b][v[2]]
    BY <1>1, <1>3 DEF Turn, Stored, TypeOK
  <2>2. ReadWBFS(map, v)' = IF v \in us THEN Content(v) ELSE dData[b][v[2]]
    BY <1>2, <1>3, <2>1, TurnBlock
  <2>3. dData[b][v[2]] = ReadWBFS(map, v)
    <3>1. CASE map[u[1]] = b /\ b \in used
      BY <1>3, <3>1, TurnBlock DEF ReadWBFS
    <3>2. CASE map[u[1]] = 0 /\ b \notin used
      BY <1>1, <1>3, <3>2 DEF ReadWBFS, MapInv, Fresh
    <3> QED
      BY <3>1, <3>2, TurnBlock
  <2> QED
    BY <1>3, <2>2, <2>3
<1>4. CASE v[1] # u[1]
  <2>1. map'[v[1]] = map[v[1]] /\ map[v[1]] # b
    BY <1>1, <1>4, TurnBlock
  <2>2. map[v[1]] # 0 => dData'[map[v[1]]] = dData[map[v[1]]]
    BY <1>1, <2>1, TurnBlock DEF MapInv, TypeOK
  <2> QED
    BY <1>2, <1>4, <2>1, <2>2 DEF ReadWBFS
<1> QED
  BY <1>3, <1>4

-----------------------------------------------------------------------------
(* What can be read *)

LEMMA ReadsStay ==
  ASSUME UNCHANGED <<map, dData>>
  PROVE  \A v : ReadWBFS(map, v)' = ReadWBFS(map, v)
BY DEF ReadWBFS

LEMMA CutReads ==
  ASSUME TypeOK, MapInv, CloseInv, NEW ok \in BOOLEAN, Cut(ok), NEW v \in DiscUnits
  PROVE  ReadWBFS(map, v)' = ReadWBFS(map, v)
<1>1. v[1] \in Parts /\ map' = map
  BY DEF DiscUnits, Cut, memory
<1>2. CASE map[v[1]] = 0
  BY <1>1, <1>2 DEF ReadWBFS
<1>3. CASE map[v[1]] # 0
  <2>1. map[v[1]] \in used
    BY <1>1, <1>3 DEF MapInv
  <2>2. map[v[1]] \in Blocks /\ map[v[1]] < size
    BY <2>1 DEF TypeOK, CloseInv, Cut
  <2>3. ~(map[v[1]] >= size)
    BY <2>2, CopyAssumption DEF TypeOK, Blocks
  <2>4. dData'[map[v[1]]] = dData[map[v[1]]]
    BY <2>2, <2>3 DEF Cut
  <2> QED
    BY <1>1, <1>3, <2>4 DEF ReadWBFS
<1> QED
  BY <1>2, <1>3

LEMMA Contained ==
  TypeOK /\ PhaseInv /\ MapInv /\ DataInv /\ CloseInv /\ [Next]_vars => DataInv'
<1> SUFFICES ASSUME TypeOK, PhaseInv, MapInv, DataInv, CloseInv, [Next]_vars
             PROVE  DataInv'
  OBVIOUS
<1> USE DEF Copying, Rewriting, Closing, Copied, DataInv, PhaseInv
<1>1. image' = image /\ \A u : Read(u)' = Read(u) /\ Final(u)' = Final(u)
  BY ImageStays, ImageTerms
<1>2. \A u : u \notin UNION image.items => Final(u) = Read(u)
  BY ReadFacts DEF TypeOK
<1>3. ASSUME CreateFails \/ CopyFails \/ RewriteFails \/ WriteFails \/ Interrupted
       PROVE  DataInv'
  BY <1>3 DEF CreateFails, CopyFails, RewriteFails, WriteFails, Interrupted, Abort
<1>4. ASSUME NEW h \in BOOLEAN, NEW f \in BOOLEAN, Create(h, f) PROVE DataInv'
  <2>1. pc' = "copy" /\ todo' = ToCopy /\ place' = "temp" /\ source' = source
        /\ map' = NoInode.map
    BY <1>4 DEF Create
  <2>2. ASSUME NEW u \in DiscUnits \ ToCopy PROVE ReadWBFS(map, u)' = Read(u)'
    <3>1. Read(u)' = Empty
      BY <1>1, <2>2, ToCopyFacts, ReadFacts DEF TypeOK
    <3>2. map'[u[1]] = 0
      BY <2>1 DEF DiscUnits, NoInode
    <3> QED
      BY <3>1, <3>2 DEF ReadWBFS
  <2> QED
    BY <1>4, <2>1, <2>2 DEF Create
<1>5. ASSUME CopyChunk \/ CopyEnd PROVE DataInv'
  <2>1. \A v : ReadWBFS(map, v)' = ReadWBFS(map, v)
    BY <1>5, ReadsStay DEF CopyChunk, CopyEnd, file
  <2>2. CASE CopyChunk
    <3>1. todo \subseteq todo' \cup left' /\ left = {}
      BY <2>2 DEF CopyChunk
    <3> QED
      BY <1>1, <2>1, <2>2, <3>1 DEF CopyChunk
  <2>3. CASE CopyEnd
    <3>1. UNION (image'.items \ items') = {}
      BY <1>1, <2>3 DEF CopyEnd
    <3> QED
      BY <1>1, <2>1, <2>3, <3>1 DEF CopyEnd
  <2> QED
    BY <1>5, <2>2, <2>3
<1>6. CASE RewriteItem
  <2>1. \A v : ReadWBFS(map, v)' = ReadWBFS(map, v)
    BY <1>6, ReadsStay DEF RewriteItem, file
  <2>2. (UNION (image'.items \ items')) \ left' \subseteq UNION (image.items \ items)
        /\ left = {}
    <3>1. PICK it \in items : left' = it /\ items' = items \ {it}
      BY <1>6 DEF RewriteItem
    <3>2. ASSUME NEW w \in (UNION (image.items \ items')) \ it
          PROVE  w \in UNION (image.items \ items)
      <4>1. PICK s \in image.items \ items' : w \in s
        BY <3>2
      <4>2. s # it
        BY <3>2, <4>1
      <4>3. s \in image.items \ items
        BY <3>1, <4>1, <4>2
      <4> QED
        BY <4>1, <4>3
    <3> QED
      BY <1>1, <1>6, <3>1, <3>2 DEF RewriteItem
  <2> QED
    BY <1>1, <1>6, <2>1, <2>2 DEF RewriteItem
<1>7. CASE RemoveSource
  <2>1. \A v : ReadWBFS(map, v)' = ReadWBFS(map, v)
    BY <1>7, ReadsStay DEF RemoveSource, file, memory
  <2>2. ASSUME NEW u \in DiscUnits PROVE ReadWBFS(map, u) = Final(u)
    <3>1. items = {} /\ left = {}
      BY <1>7 DEF RemoveSource
    <3> QED
      BY <1>2, <1>7, <3>1 DEF RemoveSource
  <2> QED
    BY <1>1, <1>7, <2>1, <2>2 DEF RemoveSource
<1>8. CASE WriteTurn
  <2>1. PICK u \in left, b \in Blocks : Turn(u, b)
    BY <1>8, TurnFacts
  <2> DEFINE us == {w \in left : w[1] = u[1]}
  <2>2. left' = left \ us
    BY <2>1 DEF Turn
  <2>3. \A v \in DiscUnits :
          ReadWBFS(map, v)' = IF v \in us THEN Content(v) ELSE ReadWBFS(map, v)
    BY <2>1, TurnReads
  <2>4. pc \in {"write", "patch"} /\ UNCHANGED <<todo, items, source, place>>
        /\ pc' = IF left' # {} THEN pc ELSE IF pc = "write" THEN "copy" ELSE "rewrite"
    BY <1>8, TurnFacts DEF WriteTurn
  <2>5. CASE pc = "write"
    <3>1. \A v : Content(v) = Read(v)
      BY <2>5 DEF Content
    <3> QED
      BY <1>1, <2>2, <2>3, <2>4, <2>5, <3>1
  <2>6. CASE pc = "patch"
    <3>1. \A v : Content(v) = Final(v)
      BY <2>6 DEF Content
    <3>2. ASSUME NEW v \in DiscUnits, v \notin UNION image.items
          PROVE  ReadWBFS(map, v)' = Read(v)
      <4>1. v \notin us
        BY <2>6, <3>2
      <4> QED
        BY <2>3, <2>6, <3>2, <4>1
    <3>3. ASSUME NEW v \in DiscUnits, v \in (UNION (image.items \ items)) \ left'
          PROVE  ReadWBFS(map, v)' = Final(v)
      BY <2>2, <2>3, <2>6, <3>1, <3>3
    <3>4. pc' \in Rewriting /\ place' = "temp" /\ source'
      BY <2>4, <2>6 DEF TypeOK
    <3> QED
      BY <1>1, <2>4, <3>2, <3>3, <3>4
  <2> QED
    BY <2>4, <2>5, <2>6
<1>9. ASSUME NEW ok \in BOOLEAN,
             CloseDisc(ok) \/ SyncHead(ok) \/ SyncFbt(ok) \/ Trim(ok) \/ Cut(ok)
      PROVE  DataInv'
  <2>1. pc \in Closing /\ pc' \in Closing
    BY <1>9 DEF CloseDisc, SyncHead, SyncFbt, Trim, Cut
  <2>2. \A v \in DiscUnits : ReadWBFS(map, v)' = ReadWBFS(map, v)
    BY <1>9, ReadsStay, CutReads DEF CloseDisc, SyncHead, SyncFbt, Trim, memory
  <2> QED
    BY <1>1, <2>1, <2>2
<1>10. ASSUME NEW c \in BOOLEAN, NEW r \in BOOLEAN, Close(c, r) PROVE DataInv'
  <2>1. \A v : ReadWBFS(map, v)' = ReadWBFS(map, v)
    BY <1>10, ReadsStay DEF Close, file, memory
  <2> QED
    BY <1>1, <1>10, <2>1 DEF Close
<1>11. CASE Interrupt \/ Die \/ UNCHANGED vars
  <2>1. \A v : ReadWBFS(map, v)' = ReadWBFS(map, v)
    BY <1>11, ReadsStay DEF Interrupt, Die, vars, file, memory
  <2>2. UNCHANGED <<todo, left, items, source, place>> /\ pc' \in {pc, "died"}
    BY <1>11 DEF Interrupt, Die, vars, file, memory
  <2> QED
    BY <1>1, <2>1, <2>2
<1> QED
  BY <1>3, <1>4, <1>5, <1>6, <1>7, <1>8, <1>9, <1>10, <1>11 DEF Next, Step

-----------------------------------------------------------------------------
(* The header copy *)

LEMMA HeaderStays ==
  ASSUME image' = image, header' = header
  PROVE  HeaderOk' = HeaderOk
BY ImageTerms DEF HeaderOk

LEMMA HeaderTurn ==
  ASSUME TypeOK, PhaseInv, HeaderInv, WriteTurn
  PROVE  HeaderInv'
<1>1. PICK u \in left, b \in Blocks : Turn(u, b)
  BY TurnFacts
<1> DEFINE us == {w \in left : w[1] = u[1]}
<1>2. /\ left' = left \ us /\ IsLowest(u, left) /\ u \in us
      /\ header' = NewHeader(u)
  BY <1>1 DEF Turn
<1>3. /\ pc \in {"write", "patch"}
      /\ pc' = IF left' # {} THEN pc ELSE IF pc = "write" THEN "copy" ELSE "rewrite"
      /\ UNCHANGED <<image, todo, atHead, place>>
  BY TurnFacts DEF WriteTurn
<1>4. image' = image /\ Chunk(First)' = Chunk(First) /\ image \in Images
  BY <1>3, ImageTerms DEF TypeOK
<1>5. HeaderOk' <=> (header' = Read(First) <=> InPartZero)
  BY <1>4, ImageTerms DEF HeaderOk
<1>6. place' # "final"
  BY <1>3 DEF PhaseInv, Copying, Rewriting
<1>7. CASE pc = "patch"
  <2>1. header' = header
    BY <1>2, <1>7 DEF NewHeader, PhaseInv
  <2>2. HeaderOk' = HeaderOk
    BY <1>4, <2>1, HeaderStays
  <2> QED
    BY <1>3, <1>6, <1>7, <2>2 DEF HeaderInv, Rewriting, Copying, Closing
<1>8. CASE pc = "write" /\ ~atHead
  <2>1. header' = header /\ First \notin left
    BY <1>2, <1>8 DEF NewHeader, HeaderInv
  <2>2. HeaderOk' = HeaderOk
    BY <1>4, <2>1, HeaderStays
  <2> QED
    BY <1>2, <1>3, <1>6, <1>8, <2>1, <2>2 DEF HeaderInv, Rewriting, Copying, Closing
<1>9. CASE pc = "write" /\ atHead /\ First \in left
  <2>1. u = First /\ left = Chunk(First) /\ First \notin todo
    BY <1>2, <1>4, <1>9, FirstIsLowest DEF HeaderInv, TypeOK
  <2>2. header' = Read(First)
    BY <1>2, <1>9, <2>1 DEF NewHeader, Content
  <2>3. left' = {v \in Chunk(First) : v[1] # 0}
    BY <1>2, <2>1 DEF First
  <2>4. left' = {} <=> InPartZero
    BY <2>3 DEF InPartZero
  <2>5. First \notin left'
    BY <1>2, <2>1
  <2> QED
    BY <1>3, <1>4, <1>5, <1>6, <1>9, <2>1, <2>2, <2>3, <2>4, <2>5 DEF HeaderInv
<1>10. CASE pc = "write" /\ atHead /\ First \notin left
  <2>1. u \in Chunk(First) /\ u[1] # 0 /\ left' \subseteq left /\ left \subseteq Chunk(First)
        /\ First \notin todo /\ \A v \in left : v[1] # 0
    BY <1>2, <1>10 DEF HeaderInv
  <2>2. ~InPartZero
    BY <2>1 DEF InPartZero
  <2>3. u # First /\ u \in SourceUnits
    BY <1>10 DEF TypeOK
  <2>4. header' = Read(u) /\ Read(u) # Read(First)
    BY <1>2, <1>4, <1>10, <2>3, ReadFacts DEF NewHeader, Content
  <2> QED
    BY <1>3, <1>4, <1>5, <1>6, <1>10, <2>1, <2>2, <2>4 DEF HeaderInv
<1> QED
  BY <1>3, <1>7, <1>8, <1>9, <1>10 DEF TypeOK

LEMMA Heading == TypeOK /\ PhaseInv /\ HeaderInv /\ [Next]_vars => HeaderInv'
<1> SUFFICES ASSUME TypeOK, PhaseInv, HeaderInv, [Next]_vars PROVE HeaderInv'
  OBVIOUS
<1>1. CASE WriteTurn
  BY <1>1, HeaderTurn
<1>2. CASE ~WriteTurn
  <2> USE DEF HeaderInv, PhaseInv, Copying, Rewriting, Closing, file, memory
  <2>1. image' = image /\ Chunk(First)' = Chunk(First) /\ image \in Images
    BY ImageStays, ImageTerms DEF TypeOK
  <2>2. header' = header
    BY <1>2 DEF vars, Next, Step, Interrupt, Die, Create, CreateFails, Abort, CopyChunk,
       CopyFails, CopyEnd, RewriteItem, RewriteFails, RemoveSource,
       Interrupted, WriteFails, CloseDisc, SyncHead, SyncFbt, Trim, Cut, Close
  <2>3. HeaderOk' = HeaderOk
    BY <2>1, <2>2, HeaderStays
  <2>4. ASSUME CreateFails \/ CopyFails \/ RewriteFails \/ WriteFails \/ Interrupted
        PROVE  HeaderInv'
    BY <2>4 DEF CreateFails, CopyFails, RewriteFails, WriteFails, Interrupted, Abort
  <2>5. ASSUME NEW h \in BOOLEAN, NEW f \in BOOLEAN, Create(h, f) PROVE HeaderInv'
    <3>1. First \in todo'
      BY <2>1, <2>5, ToCopyFacts, ImageFacts DEF Create
    <3> QED
      BY <2>5, <3>1 DEF Create
  <2>6. CASE CopyChunk
    <3>1. PICK u \in todo : left' = Chunk(u)
      BY <2>6 DEF CopyChunk, IsLowest
    <3>2. First \in left' => left' = Chunk(First)
      BY <2>1, <3>1, ChunkFacts DEF TypeOK
    <3>3. /\ atHead' = (First \in left') /\ todo' = todo \ left' /\ pc = "copy"
          /\ pc' = "write" /\ place' = place
      BY <2>6 DEF CopyChunk
    <3>4. First \notin todo' /\ ~atHead' => First \notin todo
      BY <3>3
    <3> QED
      BY <2>1, <2>3, <3>2, <3>3, <3>4
  <2>7. CASE CopyEnd \/ RewriteItem \/ RemoveSource
    BY <2>1, <2>3, <2>7 DEF CopyEnd, RewriteItem, RemoveSource
  <2>8. ASSUME NEW ok \in BOOLEAN,
               CloseDisc(ok) \/ SyncHead(ok) \/ SyncFbt(ok) \/ Trim(ok) \/ Cut(ok)
        PROVE  HeaderInv'
    BY <2>1, <2>3, <2>8 DEF CloseDisc, SyncHead, SyncFbt, Trim, Cut
  <2>9. ASSUME NEW c \in BOOLEAN, NEW r \in BOOLEAN, Close(c, r) PROVE HeaderInv'
    BY <2>1, <2>3, <2>9 DEF Close
  <2>10. CASE Interrupt \/ Die \/ UNCHANGED vars
    BY <2>1, <2>3, <2>10 DEF Interrupt, Die, vars
  <2> QED
    BY <1>2, <2>4, <2>5, <2>6, <2>7, <2>8, <2>9, <2>10 DEF Next, Step
<1> QED
  BY <1>1, <1>2

-----------------------------------------------------------------------------
(* Closing *)

LEMMA Closes == TypeOK /\ PhaseInv /\ CloseInv /\ [Next]_vars => CloseInv'
<1> SUFFICES ASSUME TypeOK, PhaseInv, CloseInv, [Next]_vars PROVE CloseInv'
  OBVIOUS
<1> USE DEF CloseInv, PhaseInv, Copying, Rewriting, Closing, file, memory
<1>1. ASSUME CreateFails \/ CopyFails \/ RewriteFails \/ WriteFails \/ Interrupted
       PROVE  CloseInv'
  BY <1>1 DEF CreateFails, CopyFails, RewriteFails, WriteFails, Interrupted, Abort
<1>2. ASSUME NEW h \in BOOLEAN, NEW f \in BOOLEAN, Create(h, f) PROVE CloseInv'
  BY <1>2 DEF Create
<1>3. CASE CopyChunk \/ CopyEnd \/ RewriteItem \/ RemoveSource
  BY <1>3 DEF CopyChunk, CopyEnd, RewriteItem, RemoveSource
<1>4. CASE WriteTurn
  <2>1. pc' \in Copying \cup Rewriting /\ place' = "temp"
    BY <1>4, TurnFacts DEF WriteTurn
  <2> QED
    BY <2>1
<1>5. ASSUME NEW ok \in BOOLEAN, CloseDisc(ok) PROVE CloseInv'
  BY <1>5 DEF CloseDisc, Written
<1>6. ASSUME NEW ok \in BOOLEAN, SyncHead(ok) PROVE CloseInv'
  BY <1>6 DEF SyncHead, Written
<1>7. ASSUME NEW ok \in BOOLEAN, SyncFbt(ok) PROVE CloseInv'
  BY <1>7 DEF SyncFbt, Written
<1>8. ASSUME NEW ok \in BOOLEAN, Trim(ok) PROVE CloseInv'
  <2>1. \A b \in used' : b < size'
    <3>1. PICK b \in used : (\A c \in used : c <= b) /\ size' = b + 1 /\ used' = used
      BY <1>8 DEF Trim
    <3>2. \A c \in used : c \in Int
      BY CopyAssumption DEF TypeOK, Blocks
    <3> QED
      BY <3>1, <3>2
  <2> QED
    BY <1>8, <2>1 DEF Trim, Written
<1>9. ASSUME NEW ok \in BOOLEAN, Cut(ok) PROVE CloseInv'
  BY <1>9 DEF Cut
<1>10. ASSUME NEW c \in BOOLEAN, NEW r \in BOOLEAN, Close(c, r) PROVE CloseInv'
  BY <1>10 DEF Close
<1>11. CASE Interrupt \/ Die \/ UNCHANGED vars
  BY <1>11 DEF Interrupt, Die, vars
<1> QED
  BY <1>1, <1>2, <1>3, <1>4, <1>5, <1>6, <1>7, <1>8, <1>9, <1>10, <1>11 DEF Next, Step

-----------------------------------------------------------------------------
(* Theorems *)

Inv == TypeOK /\ PhaseInv /\ MapInv /\ DataInv /\ HeaderInv /\ CloseInv

LEMMA Initially == Init => Inv
<1> SUFFICES ASSUME Init PROVE Inv
  OBVIOUS
<1>1. TypeOK
  BY InitType
<1>2. PhaseInv
  BY DEF Init, PhaseInv, Copying, Rewriting, Closing
<1>3. MapInv
  BY DEF Init, MapInv, NoInode
<1>4. DataInv /\ HeaderInv /\ CloseInv
  BY DEF Init, DataInv, HeaderInv, CloseInv, Copying, Rewriting, Closing
<1> QED
  BY <1>1, <1>2, <1>3, <1>4 DEF Inv

LEMMA Always == Spec => []Inv
<1>1. Init => Inv
  BY Initially
<1>2. Inv /\ [Next]_vars => Inv'
  BY Typing, Phases, Blocking, Contained, Heading, Closes DEF Inv
<1> QED
  BY <1>1, <1>2, PTL DEF Spec

(* All variables keep their types: WriteWBFS() never leaves the table of    *)
(* the disc or the blocks of the file.                                      *)
THEOREM TypeCorrect == Spec => []TypeOK
<1>1. Inv => TypeOK
  BY DEF Inv
<1> QED
  BY <1>1, Always, PTL

(* If no closing write has failed, the file that CopyImage() renames reads  *)
(* back as the final source, and its tables agree with its blocks.          *)
THEOREM WholeWhenNamed == Spec => []NamedFileIsWhole
<1>1. Inv => NamedFileIsWhole
  <2> SUFFICES ASSUME Inv, place = "final", lost = {}
               PROVE  /\ \A u \in DiscUnits : ReadWBFS(dInode.map, u) = Final(u)
                      /\ dHead.table
                      /\ HasTable(dHead.size) => dFbt.size = dHead.size
                      /\ \A p, q \in Parts :
                           dInode.map[p] # 0 =>
                             /\ dInode.map[p] < dHead.size
                             /\ HasTable(dHead.size) => dInode.map[p] \notin dFbt.free
                             /\ dInode.map[p] = dInode.map[q] => p = q
    BY DEF NamedFileIsWhole
  <2>1. /\ dInode.map = map /\ dHead.table /\ dHead.size = size
        /\ HasTable(size) =>
             dFbt.size = size /\ dFbt.free = (1 .. Numbered(size) - 1) \ used
        /\ \A b \in used : b < size
    BY DEF Inv, CloseInv
  <2>2. Copied
    BY DEF Inv, DataInv
  <2>3. ASSUME NEW p \in Parts, NEW q \in Parts, map[p] # 0
        PROVE  /\ map[p] < size /\ map[p] \in used
               /\ map[p] = map[q] => p = q
    BY <2>1, <2>3 DEF Inv, MapInv
  <2> QED
    BY <2>1, <2>2, <2>3 DEF Copied
<1> QED
  BY <1>1, Always, PTL

(* When the inode holds a copy of the disc header, exactly.                 *)
THEOREM HeaderCopied == Spec => []HeaderIsCopy
<1>1. Inv => HeaderIsCopy
  <2> SUFFICES ASSUME Inv, place = "final", lost \cap {"inode", "close"} = {}
               PROVE  dInode.header = Final(First) <=> \A u \in Chunk(First) : u[1] = 0
    BY DEF HeaderIsCopy
  <2>1. dInode.header = header
    BY DEF Inv, CloseInv
  <2>2. HeaderOk
    BY DEF Inv, HeaderInv
  <2> QED
    BY <2>1, <2>2, ReadFacts DEF HeaderOk, InPartZero, Inv, TypeOK
<1> QED
  BY <1>1, Always, PTL

(* --remove deletes the source only when the copy is complete, and then only*)
(* a failing rename takes the copy away.                                    *)
THEOREM SourceSafe == Spec => []SourceOrCopy
<1> DEFINE Gone == ~source /\ place = "none" => pc = "done" /\ result = "error"
<1>1. Inv => (~source => Copied)
  BY DEF Inv, DataInv
<1>2. Init => Gone
  BY DEF Init
<1>3. Inv /\ Gone /\ [Next]_vars => Gone'
  <2> SUFFICES ASSUME Inv, Gone, [Next]_vars, ~source', place' = "none"
               PROVE  pc' = "done" /\ result' = "error"
    OBVIOUS
  <2>1. Inv'
    BY Typing, Phases, Blocking, Contained, Heading, Closes DEF Inv
  <2>2. pc' \in {"done", "died"}
    BY <2>1 DEF Inv, PhaseInv
  <2>3. CASE source
    <3>1. pc' = "inode"
      BY <2>3 DEF vars, Next, Step, Interrupt, Die, Create, CreateFails, Abort, CopyChunk,
         CopyFails, CopyEnd, RewriteItem, RewriteFails, RemoveSource,
         Interrupted, WriteTurn, WriteFails, CloseDisc, SyncHead, SyncFbt, Trim, Cut,
         Close
    <3> QED
      BY <2>2, <3>1
  <2>4. CASE ~source
    <3>1. pc \in Closing \cup {"done", "died"} /\ (pc \in Closing => place = "temp")
      BY <2>4 DEF Inv, PhaseInv
    <3>2. CASE \E c, r \in BOOLEAN : Close(c, r)
      BY <3>2 DEF Close
    <3>3. CASE ~\E c, r \in BOOLEAN : Close(c, r)
      <4>1. place' = place /\ (pc = "done" => pc' = pc /\ result' = result)
        BY <3>1, <3>3 DEF vars, Next, Step, Interrupt, Die, Running, Create, CreateFails,
           Abort, CopyChunk, CopyFails, CopyEnd, RewriteItem, RewriteFails,
           RemoveSource, Interrupted, WriteTurn, WriteFails, CloseDisc, SyncHead,
           SyncFbt, Trim, Cut, Closing
      <4> QED
        BY <2>4, <3>1, <4>1
    <3> QED
      BY <3>2, <3>3
  <2> QED
    BY <2>3, <2>4 DEF Inv, TypeOK
<1>4. (~source => Copied) /\ Gone => SourceOrCopy
  BY DEF SourceOrCopy, Copied
<1> QED
  BY <1>1, <1>2, <1>3, <1>4, Always, PTL DEF Spec

(* CopyImage() leaves no temporary file, and returns success without a copy *)
(* only if it was interrupted while the source is still there.              *)
THEOREM CleanedUp == Spec => []FailureCleansUp
<1>1. Init => FailureCleansUp
  BY DEF Init, FailureCleansUp
<1>2. Inv /\ FailureCleansUp /\ [Next]_vars => FailureCleansUp'
  <2> SUFFICES ASSUME Inv, FailureCleansUp, [Next]_vars, pc' = "done"
               PROVE  /\ place' # "temp"
                      /\ result' = "error" => place' = "none" \/ "close" \in lost'
                      /\ result' = "ok" =>
                           place' = "final" \/ (sigint' /\ place' = "none" /\ source')
    BY DEF FailureCleansUp
  <2>1. CASE Abort("error")
    BY <2>1 DEF Abort
  <2>2. CASE Interrupted
    <3>1. source
      BY <2>2 DEF Interrupted, Inv, PhaseInv, Closing
    <3> QED
      BY <2>2, <3>1 DEF Interrupted, Abort
  <2>3. ASSUME NEW c \in BOOLEAN, NEW r \in BOOLEAN, Close(c, r)
        PROVE  /\ place' # "temp"
               /\ result' = "error" => place' = "none" \/ "close" \in lost'
               /\ result' = "ok" => place' = "final"
    BY <2>3 DEF Close
  <2>4. CASE UNCHANGED vars
    BY <2>4 DEF vars, FailureCleansUp
  <2>5. ASSUME ~Abort("error"), ~Interrupted, ~\E c, r \in BOOLEAN : Close(c, r),
               ~UNCHANGED vars
        PROVE  FALSE
    <3>1. WriteTurn => pc' # "done"
      BY DEF WriteTurn
    <3> QED
      BY <2>5, <3>1 DEF Next, Step, Interrupt, Die, Running, Create, CreateFails, CopyChunk,
         CopyFails, CopyEnd, RewriteItem, RewriteFails, RemoveSource, WriteFails, CloseDisc,
         SyncHead, SyncFbt, Trim, Cut
  <2> QED
    BY <2>1, <2>2, <2>3, <2>4, <2>5
<1> QED
  BY <1>1, <1>2, Always, PTL DEF Spec
=============================================================================
