-------------------------- MODULE WbfsBlocksProofs --------------------------
(***************************************************************************)
(* Theorems about WbfsBlocks, for every number of blocks, every width of a *)
(* word and every set of free blocks: the loops return what BlockChoice    *)
(* promises.  And about WbfsGeometry, for every size of a partition: the   *)
(* blocks and the table that the loops work on are there.                  *)
(***************************************************************************)
EXTENDS WbfsBlocks, WbfsGeometry, FiniteSetTheorems, WellFoundedInduction, TLAPS

(* Every variable holds what its C variable can hold. *)
TypeOK ==
  /\ free \subseteq Blocks /\ words \in [Words -> SUBSET Bits]
  /\ pc \in {"idle", "window", "slide", "found", "probe", "full", "sync", "pack"}
  /\ kind \in {"none", "add", "phantom", "write"}
  /\ need \in 0 .. NBlocks /\ count \in 0 .. NBlocks
  /\ p1 \in 0 .. NBlocks /\ p2 \in 0 .. NBlocks
  /\ found \in 0 .. NBlocks /\ range \in 0 .. NBlocks
  /\ start \in 0 .. NBlocks /\ bl \in 0 .. NBlocks /\ map \in Seq(Blocks)
  /\ idx \in 0 .. Size - 1 /\ mask \subseteq Bits

(* The window begins at the first free block and lacks count blocks. *)
WindowInv ==
  pc = "window" =>
    /\ p1 \in free \cup {NBlocks} /\ p1 <= p2 /\ \A b \in free : p1 <= b
    /\ count >= 1 /\ need = count + Cardinality({b \in free : b < p2})

(* The window is a range, and the one to return is the first of the         *)
(* shortest that begin no later.                                            *)
SlideInv ==
  pc = "slide" =>
    /\ need >= 1 /\ found <= p1
    /\ IsRange(free, need, <<p1, p2>>)
    /\ IsRange(free, need, <<found, found + range>>)
    /\ \A a, b \in free :
         IsRange(free, need, <<a, b>>) /\ a <= p1 =>
           range < b - a \/ (range = b - a /\ found <= a)

(* No free block lies between start and the block looked at; an ADD has as  *)
(* many free blocks as it still needs.                                      *)
ProbeInv ==
  /\ pc = "probe" =>
       /\ start \in Blocks /\ bl \in Blocks /\ Len(map) < need
       /\ \A c \in free : Distance(NBlocks, start, bl) <= Distance(NBlocks, start, c)
       /\ map = <<>> /\ found \in Blocks => start = found
  /\ pc \in {"window", "slide", "found"} => map = <<>> /\ need >= 1
  /\ pc \in {"idle", "pack"} => map = <<>> /\ found = 0
  /\ kind = "add" /\ pc \in {"window", "slide", "found", "probe"} =>
       need <= Cardinality(free) + Len(map)

(* The bits of word w that stand for free blocks before n. *)
Packed(n, w) == {k \in Bits : \E b \in free : b < n /\ Word(b) = w /\ Bit(b) = k}

(* The words before idx are stored, mask is the beginning of word idx. *)
PackInv ==
  pc = "pack" =>
    /\ bl >= 1
    /\ \A b \in free : b < bl => Word(b) <= idx
    /\ \A b \in Blocks : b >= bl => idx <= Word(b)
    /\ mask = Packed(bl, idx)
    /\ \A w \in Words : words[w] = IF w < idx THEN Packed(bl, w) ELSE {}

Inv ==
  /\ TypeOK /\ WindowInv /\ SlideInv /\ ProbeInv /\ PackInv
  /\ FindsFirstRange /\ FullOnlyIfFull /\ PackedExactly

-----------------------------------------------------------------------------
(* Free blocks *)

LEMMA BlockRange ==
  /\ Blocks \subseteq Nat /\ NBlocks \in Nat \ {0, 1}
  /\ \A b : b \in Blocks <=> b \in Nat /\ 1 <= b /\ b < NBlocks
BY BlocksAssumption DEF Blocks

LEMMA Smallest ==
  ASSUME NEW S \in SUBSET Nat, S # {}
  PROVE  \E x \in S : \A y \in S : x <= y
<1>1. IsWellFoundedOn(OpToRel(<, Nat), Nat)
  BY NatLessThanWellFounded
<1>2. PICK x \in S : \A y \in S : <<y, x>> \notin OpToRel(<, Nat)
  BY <1>1, WFMin
<1>3. \A y \in S : ~(y < x)
  BY <1>2 DEF OpToRel
<1> QED BY <1>3

LEMMA FreeFinite ==
  ASSUME free \subseteq Blocks, NEW S \in SUBSET free
  PROVE  IsFiniteSet(S) /\ Cardinality(S) \in Nat
<1>1. IsFiniteSet(Blocks)
  BY FS_Interval, BlocksAssumption DEF Blocks
<1> QED BY <1>1, FS_Subset, FS_CardinalityType

LEMMA NextFreeFirst ==
  ASSUME free \subseteq Blocks, NEW p \in Nat
  PROVE  /\ NextFree(p) \in free \cup {NBlocks} /\ NextFree(p) \in 0 .. NBlocks
         /\ NextFree(p) \in free => NextFree(p) > p
         /\ \A b \in free : b > p => NextFree(p) <= b
<1> DEFINE later == {b \in free : b > p}
<1>1. later \in SUBSET Nat
  BY BlockRange
<1>2. CASE later = {}
  <2>1. NextFree(p) = NBlocks
    BY <1>2 DEF NextFree
  <2> QED BY <1>2, <2>1, BlockRange
<1>3. CASE later # {}
  <2>1. \E b \in later : \A c \in later : b <= c
    BY <1>1, <1>3, Smallest
  <2>2. NextFree(p) = CHOOSE b \in later : \A c \in later : b <= c
    BY <1>3 DEF NextFree
  <2>3. NextFree(p) \in later /\ \A c \in later : NextFree(p) <= c
    BY <2>1, <2>2
  <2>4. NextFree(p) \in free /\ NextFree(p) > p /\ NextFree(p) \in 0 .. NBlocks
    <3>1. NextFree(p) \in free /\ NextFree(p) > p
      BY <2>3
    <3>2. NextFree(p) \in Nat /\ NextFree(p) < NBlocks /\ NBlocks \in Nat
      BY <3>1, BlockRange
    <3> QED BY <3>1, <3>2
  <2> QED BY <2>3, <2>4
<1> QED BY <1>2, <1>3

Within(a, b) == {c \in free : a <= c /\ c <= b}

LEMMA BeforeNext ==
  ASSUME free \subseteq Nat, NEW n \in Nat
  PROVE  {b \in free : b < n + 1}
           = IF n \in free THEN {b \in free : b < n} \cup {n} ELSE {b \in free : b < n}
<1>1. \A b \in free : b < n + 1 <=> b < n \/ b = n
  OBVIOUS
<1> QED BY <1>1

LEMMA RangeDef ==
  ASSUME NEW n, NEW a, NEW b
  PROVE  IsRange(free, n, <<a, b>>)
           <=> a \in free /\ b \in free /\ Cardinality(Within(a, b)) = n
BY DEF IsRange, Within

(* A range of at least one block is not empty and not shorter than that. *)
LEMMA RangeLength ==
  ASSUME free \subseteq Blocks, NEW n \in Nat \ {0}, NEW a, NEW b,
         IsRange(free, n, <<a, b>>)
  PROVE  a \in free /\ b \in free /\ a <= b /\ n <= b - a + 1
<1>1. a \in free /\ b \in free /\ Cardinality(Within(a, b)) = n
  BY RangeDef
<1>2. a \in Int /\ b \in Int
  BY <1>1, BlockRange
<1>3. Within(a, b) \in SUBSET (a .. b)
  <2>1. \A x \in Within(a, b) : x \in Int /\ a <= x /\ x <= b
    BY BlockRange DEF Within
  <2> QED BY <1>2, <2>1
<1>4. IsFiniteSet(a .. b) /\ Cardinality(a .. b) = IF a > b THEN 0 ELSE b - a + 1
  BY <1>2, FS_Interval
<1>5. n <= Cardinality(a .. b)
  BY <1>1, <1>3, <1>4, FS_Subset
<1> QED BY <1>1, <1>2, <1>4, <1>5

(* Where a range begins determines where it ends. *)
LEMMA RangeUnique ==
  ASSUME free \subseteq Blocks, NEW n \in Nat \ {0}, NEW a, NEW b, NEW c,
         IsRange(free, n, <<a, b>>), IsRange(free, n, <<a, c>>)
  PROVE  ~(b < c)
<1> SUFFICES ASSUME b < c
             PROVE  FALSE
  OBVIOUS
<1>1. a \in free /\ b \in free /\ c \in free /\ a <= b /\ a <= c
  BY RangeLength
<1>2. Within(a, b) \in SUBSET (Within(a, c) \ {c})
  <2>1. a \in Nat /\ b \in Nat /\ c \in Nat /\ free \subseteq Nat
    BY <1>1, BlockRange
  <2> SUFFICES ASSUME NEW x \in Within(a, b)
               PROVE  x \in Within(a, c) /\ x # c
    OBVIOUS
  <2>2. x \in free /\ x \in Nat /\ a <= x /\ x <= b
    BY <2>1 DEF Within
  <2> QED BY <2>1, <2>2 DEF Within
<1>3. c \in Within(a, c) /\ Within(a, c) \in SUBSET free
  BY <1>1, BlockRange DEF Within
<1>4. /\ IsFiniteSet(Within(a, c) \ {c})
      /\ Cardinality(Within(a, c) \ {c}) = n - 1
  BY <1>3, FreeFinite, FS_RemoveElement, RangeDef
<1>5. Cardinality(Within(a, b)) <= n - 1
  BY <1>2, <1>4, FS_Subset
<1> QED BY <1>5, RangeDef

(* Moving both ends of a range to the next free block gives a range. *)
LEMMA RangeNext ==
  ASSUME free \subseteq Blocks, NEW n \in Nat \ {0}, NEW a, NEW b,
         IsRange(free, n, <<a, b>>), NextFree(b) \in free
  PROVE  IsRange(free, n, <<NextFree(a), NextFree(b)>>) /\ a < NextFree(a)
<1> DEFINE c == NextFree(a)
           d == NextFree(b)
           rest == Within(a, b) \ {a}
<1>1. /\ a \in free /\ b \in free /\ a \in Nat /\ b \in Nat /\ a <= b
      /\ free \subseteq Nat /\ NBlocks \in Nat /\ \A x \in free : x < NBlocks
  BY RangeLength, BlockRange
<1>2. d \in free /\ d > b /\ \A x \in free : x > b => d <= x
  BY <1>1, NextFreeFirst
<1>3. c \in free /\ c > a /\ \A x \in free : x > a => c <= x
  <2>1. /\ c \in free \cup {NBlocks} /\ (c \in free => c > a)
        /\ \A x \in free : x > a => c <= x
    BY <1>1, NextFreeFirst
  <2>2. d \in free /\ d > a /\ d < NBlocks
    <3>1. d \in free /\ d \in Nat
      BY <1>1, <1>2
    <3>2. d > b
      BY <1>2
    <3> HIDE DEF d
    <3> QED BY <1>1, <3>1, <3>2
  <2>3. c <= d /\ c \in Nat
    BY <1>1, <2>1, <2>2
  <2> QED BY <1>1, <2>1, <2>2, <2>3
<1> HIDE DEF c, d
<1>4. Within(c, d) = rest \cup {d}
  <2>1. ASSUME NEW x \in Within(c, d) PROVE x \in rest \cup {d}
    BY <1>1, <1>2, <1>3, <2>1 DEF Within
  <2>2. ASSUME NEW x \in rest PROVE x \in Within(c, d)
    BY <1>1, <1>2, <1>3, <2>2 DEF Within
  <2>3. d \in Within(c, d)
    BY <1>1, <1>2, <1>3 DEF Within
  <2> QED BY <2>1, <2>2, <2>3
<1>5. /\ a \in Within(a, b) /\ Within(a, b) \in SUBSET free
      /\ d \notin rest
  BY <1>1, <1>2 DEF Within
<1>6. IsFiniteSet(Within(a, b)) /\ Cardinality(Within(a, b)) = n
  BY <1>5, FreeFinite, RangeDef
<1>7. IsFiniteSet(rest) /\ Cardinality(rest) = n - 1
  BY <1>5, <1>6, FS_RemoveElement
<1>8. Cardinality(rest \cup {d}) = n - 1 + 1
  BY <1>5, <1>7, FS_AddElement
<1> QED BY <1>2, <1>3, <1>4, <1>8, RangeDef DEF c, d

(* No range begins later than one behind which nothing is free. *)
LEMMA RangeLast ==
  ASSUME free \subseteq Blocks, NEW n \in Nat \ {0}, NEW a, NEW b,
         IsRange(free, n, <<a, b>>), NextFree(b) = NBlocks,
         NEW c, NEW d, IsRange(free, n, <<c, d>>)
  PROVE  c <= a
<1>1. /\ a \in free /\ b \in free /\ a \in Nat /\ b \in Nat /\ a <= b
      /\ c \in free /\ d \in free /\ c \in Nat /\ d \in Nat
      /\ free \subseteq Nat /\ NBlocks \in Nat /\ \A x \in free : x < NBlocks
  BY RangeLength, BlockRange
<1>2. \A x \in free : x <= b
  BY <1>1, NextFreeFirst
<1> SUFFICES ASSUME a < c
             PROVE  FALSE
  BY <1>1
<1>3. Within(c, d) \in SUBSET (Within(a, b) \ {a})
  <2>1. \A x \in Within(c, d) : x \in free /\ x \in Nat /\ c <= x /\ x <= b
    BY <1>1, <1>2 DEF Within
  <2>2. \A x \in Within(c, d) : x \in Within(a, b) /\ x # a
    BY <1>1, <2>1 DEF Within
  <2> QED BY <2>2
<1>4. a \in Within(a, b) /\ Within(a, b) \in SUBSET free
  BY <1>1 DEF Within
<1>5. /\ IsFiniteSet(Within(a, b) \ {a})
      /\ Cardinality(Within(a, b) \ {a}) = n - 1
  BY <1>4, FreeFinite, FS_RemoveElement, RangeDef
<1>6. Cardinality(Within(c, d)) <= n - 1
  BY <1>3, <1>5, FS_Subset
<1> QED BY <1>6, RangeDef

(* A range that no other one undercuts, nor equals from further left, is    *)
(* the one to return.                                                       *)
LEMMA FirstRangeIs ==
  ASSUME free \subseteq Blocks, NEW n \in Nat \ {0}, NEW f, NEW r \in Nat,
         IsRange(free, n, <<f, f + r>>),
         \A a, b \in free : IsRange(free, n, <<a, b>>)
                            => r < b - a \/ (r = b - a /\ f <= a)
  PROVE  IsFirstRange(free, n, f) /\ n <= Cardinality(free)
<1>1. f \in free /\ f + r \in free /\ f \in Nat /\ free \subseteq Nat
  BY RangeDef, BlockRange
<1> DEFINE p == <<f, f + r>>
           ranges == {x \in free \X free : IsRange(free, n, x)}
<1>2. p \in ranges /\ p[1] = f /\ p[2] - p[1] = r
  BY <1>1
<1>3. ASSUME NEW q \in ranges
      PROVE  p[2] - p[1] < q[2] - q[1] \/ (p[2] - p[1] = q[2] - q[1] /\ p[1] <= q[1])
  <2>1. q[1] \in free /\ q[2] \in free /\ q = <<q[1], q[2]>>
    OBVIOUS
  <2> QED BY <1>2, <2>1
<1>4. IsFirstRange(free, n, f)
  BY <1>2, <1>3 DEF IsFirstRange
<1>5. Within(f, f + r) \in SUBSET free /\ IsFiniteSet(free)
  BY FreeFinite DEF Within
<1> QED BY <1>4, <1>5, FS_Subset, RangeDef

-----------------------------------------------------------------------------
(* The search for a range *)

(* The window is empty and lies before the first free block. *)
LEMMA AddSearch ==
  ASSUME Inv, NEW k \in {"add", "phantom", "write"}, NEW n \in 1 .. NBlocks,
         AddAvoidFrag(k, n)
  PROVE  Inv'
<1>1. /\ pc = "idle" /\ pc' = "window" /\ kind' = k /\ need' = n /\ count' = n
      /\ p1' = NextFree(0) /\ p2' = NextFree(0) /\ k # "write"
      /\ UNCHANGED <<free, words, found, range, start, bl, map, idx, mask>>
      /\ map = <<>>
  BY DEF AddAvoidFrag, store, Inv, ProbeInv
<1>2. /\ free \subseteq Nat /\ NBlocks \in Nat /\ free \subseteq Blocks
      /\ \A b \in free : b > 0 /\ b < NBlocks
  BY BlockRange DEF Inv, TypeOK
<1>3. /\ NextFree(0) \in free \cup {NBlocks} /\ NextFree(0) \in 0 .. NBlocks
      /\ \A b \in free : NextFree(0) <= b
  <2>1. /\ NextFree(0) \in free \cup {NBlocks} /\ NextFree(0) \in 0 .. NBlocks
        /\ \A b \in free : b > 0 => NextFree(0) <= b
    BY <1>2, NextFreeFirst
  <2> QED BY <1>2, <2>1
<1>4. TypeOK'
  BY <1>1, <1>2, <1>3 DEF Inv, TypeOK
<1>5. WindowInv'
  <2>1. {b \in free : b < NextFree(0)} = {}
    <3>1. NextFree(0) \in Nat
      BY <1>2, <1>3
    <3>2. \A b \in free : ~(b < NextFree(0))
      BY <1>2, <1>3, <3>1
    <3> QED BY <3>2
  <2> QED BY <1>1, <1>2, <1>3, <2>1, FS_EmptySet DEF WindowInv
<1>6. ProbeInv'
  <2>1. k = "add" => n <= Cardinality(free)
    BY DEF AddAvoidFrag, Add
  <2>2. Cardinality(free) \in Nat /\ Len(map) = 0
    BY <1>1, <1>2, FreeFinite
  <2> QED BY <1>1, <2>1, <2>2 DEF ProbeInv
<1> QED BY <1>1, <1>4, <1>5, <1>6
        DEF Inv, SlideInv, PackInv, FindsFirstRange, FullOnlyIfFull, PackedExactly

LEMMA WindowStep ==
  ASSUME Inv, Window
  PROVE  Inv'
<1>1. /\ pc = "window" /\ p2 < NBlocks /\ map = <<>>
      /\ UNCHANGED <<free, words, kind, need, p1, start, bl, map, idx, mask>>
  BY DEF Window, store, Inv, ProbeInv
<1>2. /\ free \subseteq Nat /\ NBlocks \in Nat /\ free \subseteq Blocks
      /\ p1 \in Nat /\ p2 \in Nat /\ p1 <= p2 /\ p1 \in free
      /\ \A b \in free : p1 <= b /\ b < NBlocks
      /\ need \in Nat /\ count \in Nat /\ count >= 1
      /\ need = count + Cardinality({b \in free : b < p2})
  BY <1>1, BlockRange DEF Inv, TypeOK, WindowInv
<1> DEFINE before == {b \in free : b < p2}
<1>3. IsFiniteSet(before) /\ Cardinality(before) \in Nat
  BY <1>2, FreeFinite
<1>4. p2 \in free => {b \in free : b < p2 + 1} = before \cup {p2}
  BY <1>2, BeforeNext
<1>5. p2 \notin free => {b \in free : b < p2 + 1} = before
  BY <1>2, BeforeNext
<1>6. p2 \in free => Cardinality(before \cup {p2}) = Cardinality(before) + 1
  BY <1>2, <1>3, FS_AddElement
<1>7. ProbeInv'
  BY <1>1 DEF Window, Inv, ProbeInv
<1>8. CASE p2 \in free /\ count = 1
  <2>1. found' = p1 /\ range' = p2 - p1 /\ pc' = "slide" /\ p2' = p2 /\ count' = 0
    BY <1>8 DEF Window
  <2>2. Within(p1, p2) = before \cup {p2}
    <3>1. \A b \in free : (p1 <= b /\ b <= p2) <=> b < p2 + 1
      BY <1>2
    <3>2. Within(p1, p2) = {b \in free : b < p2 + 1}
      BY <3>1 DEF Within
    <3> QED BY <1>4, <1>8, <3>2
  <2>3. IsRange(free, need, <<p1, p2>>)
    <3>1. Cardinality(Within(p1, p2)) = need
      BY <1>2, <1>3, <1>6, <1>8, <2>2
    <3> QED BY <1>2, <1>8, <3>1, RangeDef
  <2>4. need >= 1 /\ need \in Nat \ {0} /\ p1 + (p2 - p1) = p2
    BY <1>2, <1>3
  <2>5. ASSUME NEW a \in free, NEW b \in free, IsRange(free, need, <<a, b>>), a <= p1
        PROVE  p2 - p1 < b - a \/ (p2 - p1 = b - a /\ p1 <= a)
    <3>1. a = p1
      BY <1>2, <2>5
    <3>2. ~(b < p2) /\ ~(p2 < b)
      BY <1>2, <2>3, <2>4, <2>5, <3>1, RangeUnique
    <3> QED BY <1>2, <3>1, <3>2
  <2>6. SlideInv'
    BY <1>1, <1>2, <2>1, <2>3, <2>4, <2>5 DEF SlideInv
  <2>7. TypeOK'
    BY <1>1, <1>2, <2>1 DEF Inv, TypeOK
  <2> QED BY <1>1, <1>7, <2>1, <2>6, <2>7
          DEF Inv, WindowInv, PackInv, FindsFirstRange, FullOnlyIfFull, PackedExactly
<1>9. CASE ~(p2 \in free /\ count = 1)
  <2>1. /\ pc' = "window" /\ p2' = p2 + 1 /\ UNCHANGED <<found, range>>
        /\ count' = IF p2 \in free THEN count - 1 ELSE count
    BY <1>1, <1>9 DEF Window
  <2>2. TypeOK'
    BY <1>1, <1>2, <2>1 DEF Inv, TypeOK
  <2>3. need = count' + Cardinality({b \in free : b < p2 + 1}) /\ count' >= 1
    BY <1>2, <1>3, <1>4, <1>5, <1>6, <1>9, <2>1
  <2>4. WindowInv'
    BY <1>1, <1>2, <2>1, <2>3 DEF WindowInv
  <2> QED BY <1>1, <1>7, <2>1, <2>2, <2>4
          DEF Inv, SlideInv, PackInv, FindsFirstRange, FullOnlyIfFull, PackedExactly
<1> QED BY <1>8, <1>9

(* All free blocks lie before the end and are too few. *)
LEMMA NotEnoughStep ==
  ASSUME Inv, NotEnough
  PROVE  Inv'
<1>1. /\ pc = "window" /\ pc' = "found" /\ found' = NBlocks /\ p2 >= NBlocks
      /\ UNCHANGED <<free, words, kind, need, p1, p2, count, range, start, bl, map,
                     idx, mask>>
  BY DEF NotEnough, store, NoBlock
<1>2. free \subseteq Blocks /\ NBlocks \in Nat /\ p2 \in Nat
  BY BlockRange DEF Inv, TypeOK
<1>3. {b \in free : b < p2} = free
  <2>1. \A b \in free : b \in Nat /\ b < NBlocks
    BY <1>2, BlockRange
  <2>2. \A b \in free : b < p2
    BY <1>1, <1>2, <2>1
  <2> QED BY <2>2
<1>4. Cardinality(free) \in Nat
  BY <1>2, FreeFinite
<1>5. need > Cardinality(free)
  <2>1. /\ count >= 1 /\ count \in Nat /\ need \in Nat
        /\ need = count + Cardinality({b \in free : b < p2})
    BY <1>1, <1>2 DEF Inv, TypeOK, WindowInv
  <2> QED BY <1>3, <1>4, <2>1
<1>6. FindsFirstRange'
  BY <1>1, <1>4, <1>5 DEF FindsFirstRange, NoBlock, Inv, TypeOK
<1>7. TypeOK'
  BY <1>1, <1>2 DEF Inv, TypeOK
<1>8. ProbeInv'
  BY <1>1 DEF Inv, ProbeInv
<1> QED BY <1>1, <1>6, <1>7, <1>8
        DEF Inv, WindowInv, SlideInv, PackInv, FullOnlyIfFull, PackedExactly

LEMMA SlideStep ==
  ASSUME Inv, Slide
  PROVE  Inv'
<1> DEFINE a == NextFree(p1)
           b == NextFree(p2)
<1>1. /\ pc = "slide" /\ p1' = a /\ p2' = b
      /\ UNCHANGED <<free, words, kind, need, count, start, bl, map, idx, mask>>
  BY DEF Slide, store
<1>2. /\ free \subseteq Nat /\ NBlocks \in Nat /\ free \subseteq Blocks
      /\ \A x \in free : x < NBlocks
      /\ need \in Nat \ {0} /\ found <= p1 /\ found \in Nat /\ range \in Nat
      /\ IsRange(free, need, <<p1, p2>>)
      /\ IsRange(free, need, <<found, found + range>>)
      /\ \A x, y \in free :
           IsRange(free, need, <<x, y>>) /\ x <= p1 =>
             range < y - x \/ (range = y - x /\ found <= x)
  BY <1>1, BlockRange DEF Inv, TypeOK, SlideInv
<1>3. p1 \in free /\ p2 \in free /\ p1 \in Nat /\ p2 \in Nat
  BY <1>2, RangeDef
<1>4. /\ a \in free \cup {NBlocks} /\ b \in free \cup {NBlocks}
      /\ a \in 0 .. NBlocks /\ b \in 0 .. NBlocks
      /\ \A x \in free : x > p1 => a <= x
  BY <1>2, <1>3, NextFreeFirst
<1>5. ProbeInv'
  <2>1. pc' \in {"slide", "found"}
    BY DEF Slide
  <2> QED BY <1>1, <2>1 DEF Inv, ProbeInv
<1>6. CASE b < NBlocks
  <2>1. b \in free
    BY <1>4, <1>6
  <2>2. IsRange(free, need, <<a, b>>) /\ p1 < a
    BY <1>2, <2>1, RangeNext
  <2>3. a \in free /\ a <= b /\ a \in Nat /\ b \in Nat
    BY <1>2, <2>2, RangeLength
  <2>4. ASSUME NEW x \in free, NEW y \in free, IsRange(free, need, <<x, y>>), x <= a, ~(x <= p1)
        PROVE  x = a /\ y = b
    <3>1. x = a
      BY <1>2, <1>3, <1>4, <2>3, <2>4
    <3>2. ~(y < b) /\ ~(b < y)
      BY <1>2, <2>2, <2>4, <3>1, RangeUnique
    <3> QED BY <1>2, <2>3, <3>1, <3>2
  <2>5. pc' = "slide"
    BY <1>1, <1>6 DEF Slide
  <2> HIDE DEF a, b
  <2>6. CASE b - a < range
    <3>1. found' = a /\ range' = b - a
      BY <1>1, <1>6, <2>6 DEF Slide, a, b
    <3>2. ASSUME NEW x \in free, NEW y \in free, IsRange(free, need, <<x, y>>), x <= a
          PROVE  b - a < y - x \/ (b - a = y - x /\ a <= x)
      BY <1>2, <1>3, <2>3, <2>4, <2>6, <3>2
    <3>3. a + (b - a) = b /\ b - a \in 0 .. NBlocks
      BY <1>2, <1>4, <1>6, <2>3
    <3>4. SlideInv'
      BY <1>1, <1>2, <2>2, <2>3, <3>1, <3>2, <3>3 DEF SlideInv
    <3>5. TypeOK'
      BY <1>1, <1>4, <2>5, <3>1, <3>3 DEF Inv, TypeOK
    <3> QED BY <1>1, <1>5, <2>5, <3>4, <3>5
            DEF Inv, WindowInv, PackInv, FindsFirstRange, FullOnlyIfFull, PackedExactly
  <2>7. CASE ~(b - a < range)
    <3>1. found' = found /\ range' = range
      BY <1>1, <1>6, <2>7 DEF Slide, a, b
    <3>2. ASSUME NEW x \in free, NEW y \in free, IsRange(free, need, <<x, y>>), x <= a
          PROVE  range < y - x \/ (range = y - x /\ found <= x)
      BY <1>2, <1>3, <2>2, <2>3, <2>4, <2>7, <3>2
    <3>3. SlideInv'
      BY <1>1, <1>2, <1>3, <2>2, <2>3, <3>1, <3>2 DEF SlideInv
    <3>4. TypeOK'
      BY <1>1, <1>4, <2>5, <3>1 DEF Inv, TypeOK
    <3> QED BY <1>1, <1>5, <2>5, <3>3, <3>4
            DEF Inv, WindowInv, PackInv, FindsFirstRange, FullOnlyIfFull, PackedExactly
  <2> QED BY <2>6, <2>7
<1>7. CASE ~(b < NBlocks)
  <2>1. pc' = "found" /\ found' = found /\ range' = range
    BY <1>1, <1>7 DEF Slide
  <2>2. b = NBlocks
    BY <1>2, <1>4, <1>7
  <2>3. \A x, y \in free : IsRange(free, need, <<x, y>>) => x <= p1
    BY <1>2, <2>2, RangeLast
  <2>4. IsFirstRange(free, need, found) /\ need <= Cardinality(free)
    BY <1>2, <2>3, FirstRangeIs
  <2>5. FindsFirstRange'
    BY <1>1, <2>1, <2>4 DEF FindsFirstRange
  <2>6. TypeOK'
    BY <1>1, <1>4, <2>1 DEF Inv, TypeOK
  <2> QED BY <1>1, <1>5, <2>1, <2>5, <2>6
          DEF Inv, WindowInv, SlideInv, PackInv, FullOnlyIfFull, PackedExactly
<1> QED BY <1>6, <1>7

(* No range is shorter than need - 1, and those not looked at begin later. *)
LEMMA TightStep ==
  ASSUME Inv, Tight
  PROVE  Inv'
<1>1. /\ pc = "slide" /\ range < need /\ pc' = "found"
      /\ UNCHANGED <<free, words, kind, need, p1, p2, count, found, range, start, bl,
                     map, idx, mask>>
  BY DEF Tight, store, find
<1>2. /\ free \subseteq Nat /\ NBlocks \in Nat /\ free \subseteq Blocks
      /\ need \in Nat \ {0} /\ found <= p1 /\ found \in Nat /\ range \in Nat /\ p1 \in Nat
      /\ IsRange(free, need, <<found, found + range>>)
      /\ \A x, y \in free :
           IsRange(free, need, <<x, y>>) /\ x <= p1 =>
             range < y - x \/ (range = y - x /\ found <= x)
  BY <1>1, BlockRange DEF Inv, TypeOK, SlideInv
<1>3. ASSUME NEW x \in free, NEW y \in free, IsRange(free, need, <<x, y>>)
      PROVE  range < y - x \/ (range = y - x /\ found <= x)
  <2>1. need <= y - x + 1 /\ x \in Nat /\ y \in Nat
    BY <1>2, <1>3, RangeLength
  <2> QED BY <1>1, <1>2, <1>3, <2>1
<1>4. IsFirstRange(free, need, found) /\ need <= Cardinality(free)
  BY <1>2, <1>3, FirstRangeIs
<1>5. FindsFirstRange'
  BY <1>1, <1>4 DEF FindsFirstRange
<1>6. TypeOK' /\ ProbeInv'
  BY <1>1 DEF Inv, TypeOK, ProbeInv
<1> QED BY <1>1, <1>5, <1>6
        DEF Inv, WindowInv, SlideInv, PackInv, FullOnlyIfFull, PackedExactly

(* A start and the distance from it. *)
LEMMA ProbeDistance ==
  ASSUME NEW s \in Blocks, NEW b \in Blocks
  PROVE  Distance(NBlocks, s, b) = IF b >= s THEN b - s ELSE b - s + NBlocks - 1
BY BlockRange DEF Distance, FirstProbe

LEMMA FirstProbeBlock ==
  ASSUME NEW s \in 0 .. NBlocks
  PROVE  FirstProbe(NBlocks, s) \in Blocks /\ (s \in Blocks => FirstProbe(NBlocks, s) = s)
BY BlockRange DEF FirstProbe

(* Where a search begins there is nothing nearer. *)
LEMMA NothingNearer ==
  ASSUME NEW S \in SUBSET Blocks, NEW s \in Blocks
  PROVE  \A c \in S : Distance(NBlocks, s, s) <= Distance(NBlocks, s, c)
BY ProbeDistance, BlockRange

LEMMA AddFirstStep ==
  ASSUME Inv, NEW k \in {"add", "phantom", "write"}, NEW n \in 1 .. NBlocks, AddFirst(k, n)
  PROVE  Inv'
<1>1. /\ pc = "idle" /\ pc' = "probe" /\ kind' = k /\ need' = n
      /\ start' = FirstProbe(NBlocks, 0) /\ bl' = start' /\ map = <<>> /\ found = 0
      /\ UNCHANGED <<free, words, p1, p2, count, found, range, map, idx, mask>>
  BY DEF AddFirst, find, store, Inv, ProbeInv
<1>2. NBlocks \in Nat /\ free \subseteq Blocks /\ start' \in Blocks /\ found \notin Blocks
  BY <1>1, FirstProbeBlock, BlockRange DEF Inv, TypeOK
<1>3. TypeOK'
  BY <1>1, <1>2, BlockRange DEF Inv, TypeOK
<1>4. ProbeInv'
  <2>1. k = "add" => n <= Cardinality(free)
    BY DEF AddFirst, Add
  <2>2. Cardinality(free) \in Nat /\ Len(map) = 0
    BY <1>1, <1>2, FreeFinite
  <2>3. \A c \in free : Distance(NBlocks, start', bl') <= Distance(NBlocks, start', c)
    BY <1>1, <1>2, NothingNearer
  <2> QED BY <1>1, <1>2, <2>1, <2>2, <2>3 DEF ProbeInv
<1> QED BY <1>1, <1>3, <1>4
        DEF Inv, WindowInv, SlideInv, PackInv, FindsFirstRange, FullOnlyIfFull,
            PackedExactly

LEMMA FoundStep ==
  ASSUME Inv, Found
  PROVE  Inv'
<1>1. /\ pc = "found" /\ pc' = "probe" /\ map = <<>> /\ need >= 1
      /\ start' = FirstProbe(NBlocks, found) /\ bl' = start'
      /\ p1' = 0 /\ p2' = 0 /\ count' = 0 /\ range' = 0
      /\ UNCHANGED <<free, words, kind, need, found, map, idx, mask>>
  BY DEF Found, NoFind, store, Inv, ProbeInv
<1>2. /\ NBlocks \in Nat /\ free \subseteq Blocks /\ start' \in Blocks
      /\ found \in Blocks => start' = found
  BY <1>1, FirstProbeBlock, BlockRange DEF Inv, TypeOK
<1>3. TypeOK'
  BY <1>1, <1>2, BlockRange DEF Inv, TypeOK
<1>4. ProbeInv'
  <2>1. kind = "add" => need <= Cardinality(free) + Len(map)
    BY <1>1 DEF Inv, ProbeInv
  <2>2. Len(map) = 0
    BY <1>1
  <2>3. \A c \in free : Distance(NBlocks, start', bl') <= Distance(NBlocks, start', c)
    BY <1>1, <1>2, NothingNearer
  <2>4. need \in Nat
    BY DEF Inv, TypeOK
  <2> QED BY <1>1, <1>2, <2>1, <2>2, <2>3, <2>4 DEF ProbeInv
<1> QED BY <1>1, <1>3, <1>4
        DEF Inv, WindowInv, SlideInv, PackInv, FindsFirstRange, FullOnlyIfFull,
            PackedExactly

LEMMA TakeStep ==
  ASSUME Inv, Take
  PROVE  Inv'
<1>1. /\ pc = "probe" /\ bl \in free /\ free' = free \ {bl} /\ map' = Append(map, bl)
      /\ start' = (IF kind = "write" THEN map'[1] ELSE bl) /\ bl' = start'
      /\ pc' = (IF Len(map') = need THEN "sync" ELSE "probe")
      /\ UNCHANGED <<words, kind, need, p1, p2, count, found, range, idx, mask>>
  BY DEF Take, find, store
<1>2. /\ free \subseteq Blocks /\ bl \in Blocks /\ Len(map) < need /\ need \in Nat
      /\ map \in Seq(Blocks) /\ NBlocks \in Nat
  BY <1>1, BlockRange DEF Inv, TypeOK, ProbeInv
<1>3. map' \in Seq(Blocks) /\ Len(map') = Len(map) + 1 /\ Len(map) \in Nat /\ map' # <<>>
  BY <1>1, <1>2
<1>4. map'[1] \in Blocks
  BY <1>3
<1>5. start' \in Blocks /\ bl' \in Blocks
  BY <1>1, <1>2, <1>4
<1>6. TypeOK'
  BY <1>1, <1>2, <1>3, <1>5, BlockRange DEF Inv, TypeOK
<1>7. ProbeInv'
  <2>1. Cardinality(free') = Cardinality(free) - 1 /\ Cardinality(free) \in Nat
    BY <1>1, <1>2, FreeFinite, FS_RemoveElement
  <2>2. kind = "add" => need <= Cardinality(free) + Len(map)
    BY <1>1 DEF Inv, ProbeInv
  <2>3. kind' = "add" => need' <= Cardinality(free') + Len(map')
    BY <1>1, <1>2, <1>3, <2>1, <2>2
  <2>4. \A c \in free' : Distance(NBlocks, start', bl') <= Distance(NBlocks, start', c)
    BY <1>1, <1>2, <1>5, NothingNearer
  <2>5. pc' = "probe" => Len(map') < need
    BY <1>1, <1>2, <1>3
  <2> QED BY <1>1, <1>3, <1>5, <2>3, <2>4, <2>5 DEF ProbeInv
<1> QED BY <1>1, <1>6, <1>7
        DEF Inv, WindowInv, SlideInv, PackInv, FindsFirstRange, FullOnlyIfFull,
            PackedExactly

(* The next block is one step further; back at the start, every block has   *)
(* been looked at.                                                          *)
LEMMA PassStep ==
  ASSUME Inv, Pass
  PROVE  Inv'
<1>1. /\ pc = "probe" /\ bl \notin free
      /\ bl' = (IF bl + 1 >= NBlocks THEN 1 ELSE bl + 1)
      /\ pc' = (IF bl' = start THEN "full" ELSE "probe")
      /\ UNCHANGED <<free, words, kind, need, p1, p2, count, found, range, start, map,
                     idx, mask>>
  BY DEF Pass, find, store
<1>2. /\ free \subseteq Blocks /\ bl \in Blocks /\ start \in Blocks
      /\ \A c \in free : Distance(NBlocks, start, bl) <= Distance(NBlocks, start, c)
  BY <1>1 DEF Inv, TypeOK, ProbeInv
<1>3. bl' \in Blocks
  BY <1>1, <1>2, BlockRange
<1>4. TypeOK'
  BY <1>1, <1>3, BlockRange DEF Inv, TypeOK
<1>5. CASE bl' = start
  <2>1. \A c \in Blocks : c # bl => Distance(NBlocks, start, c) < Distance(NBlocks, start, bl)
    BY <1>1, <1>2, <1>5, ProbeDistance, BlockRange
  <2>2. \A c \in Blocks : Distance(NBlocks, start, c) \in Int
    BY <1>2, ProbeDistance, BlockRange
  <2>3. free = {}
    BY <1>1, <1>2, <2>1, <2>2
  <2>4. kind # "add"
    <3>1. Cardinality(free) = 0 /\ Len(map) < need /\ Len(map) \in Nat /\ need \in Nat
      BY <1>1, <2>3, FS_EmptySet DEF Inv, TypeOK, ProbeInv
    <3>2. kind = "add" => need <= Cardinality(free) + Len(map)
      BY <1>1 DEF Inv, ProbeInv
    <3> QED BY <3>1, <3>2
  <2> QED BY <1>1, <1>4, <1>5, <2>3, <2>4
          DEF Inv, WindowInv, SlideInv, ProbeInv, PackInv, FindsFirstRange,
              FullOnlyIfFull, PackedExactly
<1>6. CASE bl' # start
  <2>1. Distance(NBlocks, start, bl') = Distance(NBlocks, start, bl) + 1
    BY <1>1, <1>2, <1>3, <1>6, ProbeDistance, BlockRange
  <2>2. \A c \in Blocks : /\ Distance(NBlocks, start, c) \in Int
                          /\ c # bl => Distance(NBlocks, start, c) # Distance(NBlocks, start, bl)
    BY <1>2, ProbeDistance, BlockRange
  <2>3. \A c \in free : Distance(NBlocks, start, bl') <= Distance(NBlocks, start, c)
    BY <1>1, <1>2, <2>1, <2>2
  <2>4. ProbeInv'
    BY <1>1, <1>2, <1>3, <1>6, <2>3 DEF Inv, ProbeInv
  <2> QED BY <1>1, <1>4, <1>6, <2>4
          DEF Inv, WindowInv, SlideInv, PackInv, FindsFirstRange, FullOnlyIfFull,
              PackedExactly
<1> QED BY <1>5, <1>6

LEMMA FullStep ==
  ASSUME Inv, Full
  PROVE  Inv'
<1>1. /\ pc = "full" /\ pc' = "sync" /\ free' = free /\ kind # "add"
      /\ UNCHANGED <<words, kind, need, p1, p2, count, found, range, start, bl, map,
                     idx, mask>>
  BY DEF Full, find, store, Inv, FullOnlyIfFull
<1>2. TypeOK' /\ ProbeInv'
  BY <1>1 DEF Inv, TypeOK, ProbeInv
<1> QED BY <1>1, <1>2
        DEF Inv, WindowInv, SlideInv, PackInv, FindsFirstRange, FullOnlyIfFull,
            PackedExactly

LEMMA ReleaseStep ==
  ASSUME Inv, NEW b \in Blocks, Release(b)
  PROVE  Inv'
<1>1. /\ pc = "idle" /\ pc' = "sync" /\ free' = free \cup {b}
      /\ UNCHANGED <<words, kind, need, p1, p2, count, found, range, start, bl, map,
                     idx, mask>>
  BY DEF Release, find, store
<1>2. TypeOK' /\ ProbeInv'
  BY <1>1 DEF Inv, TypeOK, ProbeInv
<1> QED BY <1>1, <1>2
        DEF Inv, WindowInv, SlideInv, PackInv, FindsFirstRange, FullOnlyIfFull,
            PackedExactly

-----------------------------------------------------------------------------
(* The free blocks table *)

LEMMA DivFacts ==
  ASSUME NEW n \in Nat \ {0}, NEW a \in Nat
  PROVE  /\ a \div n \in Nat /\ a % n \in 0 .. n - 1
         /\ (a + n) \div n = (a \div n) + 1
         /\ \A b \in Nat : a <= b => a \div n <= b \div n
BY SMT

(* Every block has its bit in a word of the table, in ascending order. *)
LEMMA WordRange ==
  /\ Size \in Nat \ {0} /\ 0 .. Size - 1 \subseteq Words
  /\ \A b \in Blocks : Word(b) \in 0 .. Size - 1 /\ Word(b) \in Words /\ Bit(b) \in Bits
  /\ \A b, c \in Blocks : b <= c => Word(b) <= Word(c)
<1>1. /\ NBlocks \in Nat \ {0, 1} /\ WordBits \in Nat \ {0} /\ MemWords \in Nat
      /\ Size <= MemWords
  BY BlocksAssumption
<1>2. /\ NBlocks - 2 \in Nat
      /\ NBlocks - 1 + WordBits - 1 = (NBlocks - 2) + WordBits
  BY <1>1
<1>3. Size = ((NBlocks - 2) \div WordBits) + 1 /\ Size \in Nat \ {0}
  <2>1. ((NBlocks - 2) + WordBits) \div WordBits = ((NBlocks - 2) \div WordBits) + 1
    BY <1>1, <1>2, DivFacts
  <2>2. (NBlocks - 2) \div WordBits \in Nat
    BY <1>1, <1>2, DivFacts
  <2>3. Size = ((NBlocks - 2) + WordBits) \div WordBits
    BY <1>2 DEF Size
  <2> QED BY <2>1, <2>2, <2>3
<1>4. 0 .. Size - 1 \subseteq Words
  BY <1>1, <1>3 DEF Words
<1>5. ASSUME NEW b \in Blocks
      PROVE  Word(b) \in 0 .. Size - 1 /\ Bit(b) \in Bits
  <2>1. b - 1 \in Nat /\ b - 1 <= NBlocks - 2
    BY BlockRange
  <2>2. /\ (b - 1) \div WordBits \in Nat
        /\ (b - 1) \div WordBits <= (NBlocks - 2) \div WordBits
        /\ (b - 1) % WordBits \in 0 .. WordBits - 1
    BY <1>1, <1>2, <2>1, DivFacts
  <2>3. (NBlocks - 2) \div WordBits \in Nat
    BY <1>1, <1>2, DivFacts
  <2> QED BY <1>3, <2>2, <2>3 DEF Word, Bit, Bits
<1>6. ASSUME NEW b \in Blocks, NEW c \in Blocks, b <= c
      PROVE  Word(b) <= Word(c)
  <2>1. b - 1 \in Nat /\ c - 1 \in Nat /\ b - 1 <= c - 1
    BY <1>6, BlockRange
  <2> QED BY <1>1, <2>1, DivFacts DEF Word
<1> QED BY <1>3, <1>4, <1>5, <1>6

LEMMA LoadStep ==
  ASSUME Inv, Load
  PROVE  Inv'
<1>1. /\ pc' = "pack" /\ free' = free /\ words' = [w \in Words |-> {}]
      /\ idx' = 0 /\ mask' = {} /\ bl' = 1 /\ kind' = "none" /\ need' = 0 /\ start' = 0
      /\ map' = <<>> /\ found' = 0 /\ p1' = 0 /\ p2' = 0 /\ count' = 0 /\ range' = 0
  BY DEF Load, NoFind
<1>2. NBlocks \in Nat \ {0, 1} /\ Size \in Nat \ {0} /\ free \subseteq Blocks
  BY BlockRange, WordRange DEF Inv, TypeOK
<1>3. TypeOK'
  <2>1. words' \in [Words -> SUBSET Bits]
    BY <1>1
  <2> QED BY <1>1, <1>2, <2>1 DEF Inv, TypeOK
<1>4. PackInv'
  <2>1. \A b \in free : ~(b < 1)
    BY <1>2, BlockRange
  <2>2. \A w : Packed(1, w) = {}
    BY <2>1 DEF Packed
  <2>3. \A w : Packed(bl, w)' = {}
    BY <1>1, <2>2 DEF Packed
  <2>4. \A b \in Blocks : 0 <= Word(b)
    BY WordRange
  <2> QED BY <1>1, <2>1, <2>3, <2>4 DEF PackInv
<1> QED BY <1>1, <1>3, <1>4
        DEF Inv, WindowInv, SlideInv, ProbeInv, FindsFirstRange, FullOnlyIfFull,
            PackedExactly

(* The bits of a word after one more block. *)
LEMMA PackedNext ==
  ASSUME free \subseteq Blocks, NEW n \in Blocks, NEW w
  PROVE  Packed(n + 1, w) = IF n \in free /\ Word(n) = w THEN Packed(n, w) \cup {Bit(n)}
                                                       ELSE Packed(n, w)
<1>1. \A b \in free : b < n + 1 <=> b < n \/ b = n
  BY BlockRange
<1>2. ~(n < n) /\ Bit(n) \in Bits
  BY BlockRange, WordRange
<1> QED BY <1>1, <1>2 DEF Packed

(* Nothing before block n lies in a word behind the last one begun. *)
LEMMA PackedBehind ==
  ASSUME NEW n, NEW i \in Nat, NEW w \in Nat, free \subseteq Blocks,
         \A b \in free : b < n => Word(b) <= i, i < w
  PROVE  Packed(n, w) = {}
<1>1. \A b \in free : Word(b) \in Nat
  BY WordRange
<1> QED BY <1>1 DEF Packed

LEMMA PackStep ==
  ASSUME Inv, Pack
  PROVE  Inv'
<1>1. /\ pc = "pack" /\ pc' = "pack" /\ bl < NBlocks /\ bl' = bl + 1
      /\ UNCHANGED <<free, kind, need, p1, p2, count, found, range, start, map>>
  BY DEF Pack, find
<1>2. /\ free \subseteq Blocks /\ bl \in Blocks /\ idx \in 0 .. Size - 1
      /\ mask \subseteq Bits /\ words \in [Words -> SUBSET Bits]
      /\ \A b \in free : b < bl => Word(b) <= idx
      /\ \A b \in Blocks : b >= bl => idx <= Word(b)
      /\ mask = Packed(bl, idx)
      /\ \A w \in Words : words[w] = IF w < idx THEN Packed(bl, w) ELSE {}
  BY <1>1, BlockRange DEF Inv, TypeOK, PackInv
<1>3. /\ Word(bl) \in 0 .. Size - 1 /\ Word(bl) \in Words /\ Bit(bl) \in Bits
      /\ idx \in Words /\ idx \in Nat /\ idx <= Word(bl) /\ bl \in Nat
      /\ Words \subseteq Nat /\ \A b \in Blocks : b \in Nat /\ Word(b) \in Nat
      /\ \A b \in Blocks : b >= bl => Word(bl) <= Word(b)
  BY <1>2, WordRange, BlockRange DEF Words
<1>4. ProbeInv'
  BY <1>1 DEF Inv, ProbeInv
<1>5. idx' \in 0 .. Size - 1 /\ mask' \subseteq Bits /\ words' \in [Words -> SUBSET Bits]
  BY <1>2, <1>3 DEF Pack
<1>6. TypeOK'
  BY <1>1, <1>2, <1>3, <1>5, BlockRange DEF Inv, TypeOK
<1>7. \A w : Packed(bl, w)' = Packed(bl + 1, w)
  BY <1>1 DEF Packed
<1>8. PackInv'
  <2>1. CASE bl \notin free
    <3>1. UNCHANGED <<idx, mask, words>>
      BY <2>1 DEF Pack
    <3>2. \A w : Packed(bl + 1, w) = Packed(bl, w)
      BY <1>2, <2>1, PackedNext
    <3>3. \A b \in free : b < bl + 1 => b < bl
      BY <1>2, <1>3, <2>1
    <3>4. \A b \in Blocks : b >= bl + 1 => b >= bl
      BY <1>3
    <3> QED BY <1>1, <1>2, <1>3, <1>7, <3>1, <3>2, <3>3, <3>4 DEF PackInv
  <2>2. CASE bl \in free /\ idx = Word(bl)
    <3>1. idx' = idx /\ words' = words /\ mask' = mask \cup {Bit(bl)}
      BY <2>2 DEF Pack
    <3>2. mask' = Packed(bl + 1, idx)
      BY <1>2, <2>2, <3>1, PackedNext
    <3>3. ASSUME NEW w \in Words, w < idx
          PROVE  Packed(bl + 1, w) = Packed(bl, w)
      <4>1. w # Word(bl)
        BY <1>3, <2>2, <3>3
      <4> QED BY <1>2, <4>1, PackedNext
    <3>4. \A b \in free : b < bl + 1 => Word(b) <= idx
      BY <1>2, <1>3, <2>2
    <3>5. \A b \in Blocks : b >= bl + 1 => idx <= Word(b)
      BY <1>2, <1>3
    <3> QED BY <1>1, <1>2, <1>3, <1>7, <3>1, <3>2, <3>3, <3>4, <3>5 DEF PackInv
  <2>3. CASE bl \in free /\ idx # Word(bl)
    <3>1. idx' = Word(bl) /\ words' = [words EXCEPT ![idx] = mask] /\ mask' = {Bit(bl)}
      BY <2>3 DEF Pack
    <3>2. idx < Word(bl)
      BY <1>3, <2>3
    <3>3. Packed(bl, Word(bl)) = {}
      BY <1>2, <1>3, <3>2, PackedBehind
    <3>4. mask' = Packed(bl + 1, Word(bl))
      BY <1>2, <2>3, <3>1, <3>3, PackedNext
    <3>5. ASSUME NEW w \in Words
          PROVE  words'[w] = IF w < Word(bl) THEN Packed(bl + 1, w) ELSE {}
      <4>1. CASE w < idx
        <5>1. words'[w] = Packed(bl, w) /\ w # Word(bl) /\ w < Word(bl)
          BY <1>2, <1>3, <3>1, <3>2, <4>1
        <5> QED BY <1>2, <5>1, PackedNext
      <4>2. CASE w = idx
        <5>1. words'[w] = Packed(bl, w) /\ w # Word(bl) /\ w < Word(bl)
          BY <1>2, <1>3, <3>1, <3>2, <4>2
        <5> QED BY <1>2, <5>1, PackedNext
      <4>3. CASE idx < w
        <5>1. words'[w] = {}
          BY <1>2, <1>3, <3>1, <4>3
        <5>2. Packed(bl, w) = {}
          BY <1>2, <1>3, <4>3, PackedBehind
        <5>3. ASSUME w < Word(bl) PROVE Packed(bl + 1, w) = {}
          <6>1. w # Word(bl)
            BY <1>3, <5>3
          <6> QED BY <1>2, <5>2, <6>1, PackedNext
        <5> QED BY <5>1, <5>3
      <4> QED BY <1>3, <4>1, <4>2, <4>3
    <3>6. \A b \in free : b < bl + 1 => Word(b) <= Word(bl)
      BY <1>2, <1>3, <3>2
    <3>7. \A b \in Blocks : b >= bl + 1 => Word(bl) <= Word(b)
      BY <1>3
    <3>8. \A w \in Words : words'[w] = IF w < idx' THEN Packed(bl, w)' ELSE {}
      BY <1>7, <3>1, <3>5
    <3> QED BY <1>1, <1>3, <1>7, <3>1, <3>4, <3>6, <3>7, <3>8 DEF PackInv
  <2> QED BY <2>1, <2>2, <2>3
<1> QED BY <1>1, <1>4, <1>6, <1>8
        DEF Inv, WindowInv, SlideInv, FindsFirstRange, FullOnlyIfFull, PackedExactly

(* After the last word the table has the bits of all free blocks. *)
LEMMA PackEndStep ==
  ASSUME Inv, PackEnd
  PROVE  Inv'
<1>1. /\ pc = "pack" /\ pc' = "idle" /\ bl >= NBlocks /\ idx' = 0 /\ mask' = {} /\ bl' = 0
      /\ words' = (IF idx < Size THEN [words EXCEPT ![idx] = mask] ELSE words)
      /\ UNCHANGED <<free, kind, need, p1, p2, count, found, range, start, map>>
  BY DEF PackEnd, find
<1>2. /\ free \subseteq Blocks /\ bl \in Nat /\ idx \in 0 .. Size - 1 /\ NBlocks \in Nat
      /\ mask \subseteq Bits /\ words \in [Words -> SUBSET Bits]
      /\ \A b \in free : b < bl => Word(b) <= idx
      /\ mask = Packed(bl, idx)
      /\ \A w \in Words : words[w] = IF w < idx THEN Packed(bl, w) ELSE {}
  BY <1>1, BlockRange DEF Inv, TypeOK, PackInv
<1>3. /\ idx \in Words /\ idx \in Nat /\ idx < Size /\ Words \subseteq Nat
      /\ Size \in Nat \ {0}
  BY <1>2, WordRange DEF Words
<1>4. words' = [words EXCEPT ![idx] = mask]
  BY <1>1, <1>3
<1>5. TypeOK'
  BY <1>1, <1>2, <1>3, <1>4 DEF Inv, TypeOK
<1>6. ProbeInv'
  BY <1>1 DEF Inv, ProbeInv
<1>7. ASSUME NEW w \in Words
      PROVE  words'[w] = Packed(bl, w)
  <2>1. CASE w < idx
    BY <1>2, <1>3, <1>4, <2>1
  <2>2. CASE w = idx
    BY <1>2, <1>3, <1>4, <2>2
  <2>3. CASE idx < w
    BY <1>2, <1>3, <1>4, <2>3, PackedBehind
  <2> QED BY <1>3, <2>1, <2>2, <2>3
<1>8. PackedExactly'
  <2>1. \A b \in free : b < bl /\ Word(b) \in Words /\ Bit(b) \in Bits
    BY <1>1, <1>2, BlockRange, WordRange
  <2> DEFINE stored == {p \in Words \X Bits : p[2] \in words'[p[1]]}
             wanted == {<<Word(b), Bit(b)>> : b \in free}
  <2>2. ASSUME NEW p \in stored PROVE p \in wanted
    <3>1. p[1] \in Words /\ p = <<p[1], p[2]>> /\ p[2] \in Packed(bl, p[1])
      BY <1>7
    <3>2. PICK b \in free : Word(b) = p[1] /\ Bit(b) = p[2]
      BY <3>1 DEF Packed
    <3> QED BY <3>1, <3>2
  <2>3. ASSUME NEW b \in free PROVE <<Word(b), Bit(b)>> \in stored
    <3>1. Bit(b) \in Packed(bl, Word(b))
      BY <2>1 DEF Packed
    <3> QED BY <1>7, <2>1, <3>1
  <2>4. stored = wanted
    BY <2>2, <2>3
  <2> QED BY <1>1, <2>4 DEF PackedExactly
<1> QED BY <1>1, <1>5, <1>6, <1>8
        DEF Inv, WindowInv, SlideInv, PackInv, FindsFirstRange, FullOnlyIfFull

-----------------------------------------------------------------------------
(* The theorems *)

LEMMA InitInv == Init => Inv
<1> SUFFICES ASSUME Init
             PROVE  Inv
  OBVIOUS
<1>1. words \in [Words -> SUBSET Bits] /\ NBlocks \in Nat \ {0, 1} /\ Size \in Nat \ {0}
  BY BlockRange, WordRange DEF Init
<1>2. TypeOK
  BY <1>1 DEF Init, TypeOK
<1> QED BY <1>2 DEF Init, Inv, WindowInv, SlideInv, ProbeInv, PackInv, FindsFirstRange,
                    FullOnlyIfFull, PackedExactly

LEMMA NextInv == Inv /\ [Next]_vars => Inv'
<1> SUFFICES ASSUME Inv, [Next]_vars
             PROVE  Inv'
  OBVIOUS
<1>1. CASE Call
  <2>1. ASSUME NEW k \in {"add", "phantom", "write"}, NEW n \in 1 .. NBlocks,
               AddAvoidFrag(k, n) \/ AddFirst(k, n)
        PROVE  Inv'
    BY <2>1, AddSearch, AddFirstStep
  <2>2. ASSUME NEW b \in Blocks, Release(b) PROVE Inv'
    BY <2>2, ReleaseStep
  <2> QED BY <1>1, <2>1, <2>2 DEF Call
<1>2. CASE Step
  BY <1>2, WindowStep, NotEnoughStep, SlideStep, TightStep, FoundStep, TakeStep, PassStep,
     FullStep, LoadStep, PackStep, PackEndStep DEF Step
<1>3. CASE UNCHANGED vars
  BY <1>3 DEF vars, Inv, TypeOK, WindowInv, SlideInv, ProbeInv, PackInv, FindsFirstRange,
              FullOnlyIfFull, PackedExactly, Packed
<1> QED BY <1>1, <1>2, <1>3 DEF Next

LEMMA Invariance == Spec => []Inv
BY InitInv, NextInv, PTL DEF Spec

(* The loops stay within their arrays: a word or a block that is looked at  *)
(* exists, whatever the partition.                                          *)
THEOREM TypeCorrect == Spec => []TypeOK
<1>1. Inv => TypeOK
  BY DEF Inv
<1> QED BY <1>1, Invariance, PTL

(* wbfs_find_free_blocks() finds the first of the shortest ranges. *)
THEOREM RangeFound == Spec => []FindsFirstRange
<1>1. Inv => FindsFirstRange
  BY DEF Inv
<1> QED BY <1>1, Invariance, PTL

(* wbfs_alloc_block() gives up only if nothing is free, and never within an *)
(* ADD, which has counted the free blocks.                                  *)
THEOREM FullIsFull == Spec => []FullOnlyIfFull
<1>1. Inv => FullOnlyIfFull
  BY DEF Inv
<1> QED BY <1>1, Invariance, PTL

(* wbfs_load_freeblocks() stores a 1 just for the free blocks. *)
THEOREM TableExact == Spec => []PackedExactly
<1>1. Inv => PackedExactly
  BY DEF Inv
<1> QED BY <1>1, Invariance, PTL

(* wbfs_alloc_block() takes the nearest free block, the first one of a disc *)
(* at the range that was found.                                             *)
THEOREM NearestTaken == Spec => TakesNearest
<1> DEFINE from == IF map = <<>> /\ found \in Blocks THEN found ELSE start
<1>1. ASSUME Inv, [Next]_vars, map' # map, map' # <<>>
      PROVE  IsNearest(NBlocks, free, from, map'[Len(map')])
  <2>1. Take
    BY <1>1 DEF Next, Call, Step, vars, find, store, AddAvoidFrag, AddFirst, Release,
       Window, NotEnough, Slide, Tight, Found, Pass, Full, Load, Pack, PackEnd
  <2>2. pc = "probe" /\ bl \in free /\ map' = Append(map, bl) /\ map \in Seq(Blocks)
    BY <1>1, <2>1 DEF Take, Inv, TypeOK
  <2>3. map'[Len(map')] = bl
    BY <2>2
  <2>4. /\ from = start
        /\ \A c \in free : Distance(NBlocks, start, bl) <= Distance(NBlocks, start, c)
    BY <1>1, <2>2 DEF Inv, ProbeInv
  <2> QED BY <2>2, <2>3, <2>4 DEF IsNearest
<1>2. Inv /\ [Next]_vars =>
        [map' # map /\ map' # <<>> =>
           IsNearest(NBlocks, free, from, map'[Len(map')])]_vars
  BY <1>1
<1> QED BY <1>2, Invariance, PTL DEF Spec, TakesNearest

-----------------------------------------------------------------------------
(* The geometry: powers of two first.                                        *)

(* Exponents of the hd sector sizes and of the block sizes.                 *)
HdBits == 9 .. 12
BlockBits == 21 .. 27

(* The powers of two in the calculation are whole multiples of each other.  *)
LEMMA Powers ==
  ASSUME NEW h \in HdBits, NEW w \in BlockBits
  PROVE  /\ 2^h \in {512, 1024, 2048, 4096}
         /\ 2^w \in Nat /\ 2097152 <= 2^w
         /\ 2^(w - 15) \in Nat /\ 64 <= 2^(w - 15)
         /\ 2^(w - h) \in Nat /\ 512 <= 2^(w - h) /\ 2^(w - h) * 2^h = 2^w
         /\ 2^15 \div 2^h \in Nat /\ (2^15 \div 2^h) * 2^h = 2^15
         /\ 2^(w - h) = (2^15 \div 2^h) * 2^(w - 15)
<1> USE DEF HdBits, BlockBits
<1>1. CASE h = 9 /\ w = 21
  BY <1>1
<1>2. CASE h = 10 /\ w = 21
  BY <1>2
<1>3. CASE h = 11 /\ w = 21
  BY <1>3
<1>4. CASE h = 12 /\ w = 21
  BY <1>4
<1>5. CASE h = 9 /\ w = 22
  BY <1>5
<1>6. CASE h = 10 /\ w = 22
  BY <1>6
<1>7. CASE h = 11 /\ w = 22
  BY <1>7
<1>8. CASE h = 12 /\ w = 22
  BY <1>8
<1>9. CASE h = 9 /\ w = 23
  BY <1>9
<1>10. CASE h = 10 /\ w = 23
  BY <1>10
<1>11. CASE h = 11 /\ w = 23
  BY <1>11
<1>12. CASE h = 12 /\ w = 23
  BY <1>12
<1>13. CASE h = 9 /\ w = 24
  BY <1>13
<1>14. CASE h = 10 /\ w = 24
  BY <1>14
<1>15. CASE h = 11 /\ w = 24
  BY <1>15
<1>16. CASE h = 12 /\ w = 24
  BY <1>16
<1>17. CASE h = 9 /\ w = 25
  BY <1>17
<1>18. CASE h = 10 /\ w = 25
  BY <1>18
<1>19. CASE h = 11 /\ w = 25
  BY <1>19
<1>20. CASE h = 12 /\ w = 25
  BY <1>20
<1>21. CASE h = 9 /\ w = 26
  BY <1>21
<1>22. CASE h = 10 /\ w = 26
  BY SMT, <1>22
<1>23. CASE h = 11 /\ w = 26
  BY SMT, <1>23
<1>24. CASE h = 12 /\ w = 26
  BY SMT, <1>24
<1>25. CASE h = 9 /\ w = 27
  BY SMT, <1>25
<1>26. CASE h = 10 /\ w = 27
  BY SMT, <1>26
<1>27. CASE h = 11 /\ w = 27
  BY SMT, <1>27
<1>28. CASE h = 12 /\ w = 27
  BY SMT, <1>28
<1> QED
  BY SMT, <1>1, <1>2, <1>3, <1>4, <1>5, <1>6, <1>7, <1>8, <1>9, <1>10,
     <1>11, <1>12, <1>13, <1>14, <1>15, <1>16, <1>17, <1>18, <1>19, <1>20,
     <1>21, <1>22, <1>23, <1>24, <1>25, <1>26, <1>27, <1>28

(* Rounding down what rounding up has left over: the two parts of block 0    *)
(* share it without a gap.                                                   *)
LEMMA CeilingFloor ==
  ASSUME NEW p \in Nat \ {0}, NEW r \in Nat, NEW x \in Nat, x <= r * p
  PROVE  /\ (r * p - x) \div p \in Nat
         /\ (r * p - x) \div p + (x + p - 1) \div p = r
OBVIOUS

LEMMA Rounded ==
  ASSUME NEW x \in Nat, NEW h \in HdBits
  PROVE  /\ Aligned(x, h) \in Nat /\ x <= Aligned(x, h)
         /\ Aligned(x, h) \div 2^h = (x + 2^h - 1) \div 2^h
         /\ (Aligned(x, h) \div 2^h) * 2^h = Aligned(x, h)
         /\ Aligned(x, h) % 4 = 0
<1> DEFINE p == 2^h
           c == (x + p - 1) \div p
<1>1. p \in {512, 1024, 2048, 4096}
  BY SMT, Powers, 21 \in BlockBits DEF BlockBits
<1>2. c \in Nat /\ c * p >= x
  BY SMT, <1>1
<1>3. (c * p) \div p = c /\ (c * p) % 4 = 0
  BY SMT, <1>1, <1>2
<1> QED
  BY SMT, <1>1, <1>2, <1>3 DEF Aligned

LEMMA NestedDivision ==
  ASSUME NEW p \in Nat \ {0}, NEW q \in Nat \ {0}, NEW x \in Nat
  PROVE  (x \div p) \div q \in Nat /\ ((x \div p) \div q) * (p * q) <= x
OBVIOUS

(* The number of whole blocks and the free blocks table for them.           *)
LEMMA TableFacts ==
  ASSUME NEW n \in Nat, NEW h \in HdBits, NEW w \in BlockBits
  PROVE  /\ OldBlocks(n, h, w) \in Nat /\ OldBlocks(n, h, w) <= 65535
         /\ FbtBytes(n, h, w) \in Nat /\ OldBlocks(n, h, w) \div 8 <= FbtBytes(n, h, w)
         /\ (FbtBytes(n, h, w) \div 2^h) * 2^h = FbtBytes(n, h, w)
         /\ FbtBytes(n, h, w) % 4 = 0
         /\ FbtLba(n, h, w) \in Nat
         /\ FbtLba(n, h, w) + FbtBytes(n, h, w) \div 2^h = 2^(w - h)
<1> DEFINE p == 2^h
           o == OldBlocks(n, h, w)
<1>1. o \in Nat /\ o <= 65535
  <2> DEFINE x == ((n \div WiiSize) * 2^h) \div 2^(w - WiiShift)
  <2>1. x \in Int
    BY SMT, Powers DEF WiiSize, WiiShift
  <2> HIDE DEF x
  <2>2. x % 65536 \in Nat /\ x % 65536 <= 65535
    BY SMT, <2>1
  <2> QED
    BY SMT, <2>2 DEF OldBlocks, MaxSectors, x
<1>2. o \div 8 \in Nat /\ o \div 8 <= 8191
  BY SMT, <1>1
<1>3. /\ p \in Nat \ {0} /\ 2^(w - h) \in Nat /\ 2^(w - h) * p = 2^w
      /\ 2^w \in Nat /\ 2097152 <= 2^w
  BY SMT, Powers
<1> HIDE DEF o
<1>4. o \div 8 <= 2^(w - h) * p
  BY SMT, <1>2, <1>3
<1>5. FbtLba(n, h, w) \in Nat
      /\ FbtLba(n, h, w) + (o \div 8 + p - 1) \div p = 2^(w - h)
  <2> DEFINE x == o \div 8
             r == 2^(w - h)
  <2>1. x \in Nat /\ r \in Nat /\ p \in Nat \ {0} /\ x <= r * p /\ r * p = 2^w
    BY <1>2, <1>3, <1>4
  <2>2. FbtLba(n, h, w) = (2^w - x) \div p
    BY DEF FbtLba, o
  <2> HIDE DEF x, r, p
  <2>3. FbtLba(n, h, w) = (r * p - x) \div p
    BY <2>1, <2>2
  <2>4. (r * p - x) \div p \in Nat /\ (r * p - x) \div p + (x + p - 1) \div p = r
    BY <2>1, CeilingFloor
  <2> QED
    BY <2>3, <2>4 DEF x, r, p
<1> QED
  BY SMT, <1>1, <1>2, <1>5, Rounded DEF FbtBytes, o

LEMMA BlockFacts ==
  ASSUME NEW n \in Nat, NEW h \in HdBits, NEW w \in BlockBits
  PROVE  /\ WholeBlocks(n, h, w) \in Nat /\ WholeBlocks(n, h, w) <= 65535
         /\ WholeBlocks(n, h, w) * 2^(w - h) <= n
         /\ FbtWords(n, h, w) \in Nat /\ 4 * FbtWords(n, h, w) <= FbtBytes(n, h, w)
         /\ NumBlocks(n, h, w) \in Nat
         /\ NumBlocks(n, h, w) <= WholeBlocks(n, h, w)
         /\ NumBlocks(n, h, w) <= 32 * FbtWords(n, h, w) + 1
<1> DEFINE p == 2^15 \div 2^h
           q == 2^(w - 15)
           b == (n \div p) \div q
<1>1. /\ p \in Nat \ {0} /\ q \in Nat \ {0} /\ 2^(w - h) = p * q
  BY SMT, Powers
<1>2. b \in Nat /\ b * 2^(w - h) <= n
  BY SMT, <1>1, NestedDivision
<1>3. WholeBlocks(n, h, w) = IF b < 65535 THEN b ELSE 65535
  BY SMT DEF WholeBlocks, Smaller, MaxSectors, WiiSize, WiiShift
<1>4. 2^(w - h) \in Nat
  BY SMT, Powers
<1> HIDE DEF b, p, q
<1>5. WholeBlocks(n, h, w) \in Nat /\ WholeBlocks(n, h, w) <= 65535 /\ WholeBlocks(n, h, w) <= b
  BY SMT, <1>2, <1>3
<1>6. WholeBlocks(n, h, w) * 2^(w - h) <= b * 2^(w - h)
  BY SMT, <1>2, <1>4, <1>5
<1>7. FbtBytes(n, h, w) \in Nat
  BY SMT, TableFacts
<1> QED
  BY SMT, <1>2, <1>4, <1>5, <1>6, <1>7 DEF FbtWords, NumBlocks, Smaller

(* Header, inodes and table of a block 0 that is at least 2 MiB large.       *)
LEMMA InodeFacts ==
  ASSUME NEW n \in Nat, NEW h \in HdBits, NEW w \in BlockBits
  PROVE  /\ MaxDisc(n, h, w) \in Nat \ {0}
         /\ InfoLbas(h, w) \in Nat
         /\ 1 + MaxDisc(n, h, w) * InfoLbas(h, w) <= FbtLba(n, h, w)
<1> DEFINE p == 2^h
           q == 2^(w - 15)
           i == InfoLbas(h, w)
           f == FbtLba(n, h, w)
<1>1. p \in {512, 1024, 2048, 4096} /\ q \in Nat /\ 64 <= q /\ 2097152 <= 2^w /\ 2^w \in Nat
  BY SMT, Powers
<1>2. i \in 1 .. 19
  <2>1. 286864 \div q \in Nat /\ 286864 \div q <= 4482
    BY SMT, <1>1
  <2>2. i = (256 + 2 * (286864 \div q) + p - 1) \div p
    BY SMT, <2>1, Rounded DEF InfoLbas, InfoSize, MaxWii, WiiShift
  <2> QED
    BY SMT, <1>1, <2>1, <2>2
<1>3. f \in Nat /\ 20 <= f
  <2>1. OldBlocks(n, h, w) \div 8 \in Nat /\ OldBlocks(n, h, w) \div 8 <= 8191
    BY SMT, TableFacts
  <2>2. f = (2^w - OldBlocks(n, h, w) \div 8) \div p
    BY SMT DEF FbtLba
  <2> QED
    BY SMT, <1>1, <2>1, <2>2
<1> HIDE DEF i, f
<1>4. (f - 1) \div i \in Nat \ {0} /\ ((f - 1) \div i) * i <= f - 1
  BY SMT, <1>2, <1>3
<1>5. /\ MaxDisc(n, h, w) \in Nat \ {0}
      /\ MaxDisc(n, h, w) <= (f - 1) \div i
  BY SMT, <1>1, <1>4 DEF MaxDisc, Smaller, HeadSize, f, i
<1>6. MaxDisc(n, h, w) * i <= ((f - 1) \div i) * i
  BY SMT, <1>2, <1>4, <1>5
<1> QED
  BY SMT, <1>2, <1>3, <1>4, <1>5, <1>6 DEF i, f

(* A partition of exactly t blocks: what the old rounding takes away is less *)
(* than what is left of the last sector of the table, if anything is left.   *)
LEMMA RoundingLoss ==
  ASSUME NEW h \in HdBits, NEW w \in BlockBits, NEW t \in Nat
  PROVE  LET old == (((t * 2^(w - h)) \div 32768) * 2^h) \div 2^(w - 15)
             x == old \div 8
         IN  /\ old \in Nat /\ old <= t
             /\ x % 2^h # 0 => t < 8 * (((x + 2^h - 1) \div 2^h) * 2^h)
<1> USE DEF HdBits, BlockBits
<1>1. CASE h = 9 /\ w = 21
  BY SMT, <1>1
<1>2. CASE h = 10 /\ w = 21
  BY SMT, <1>2
<1>3. CASE h = 11 /\ w = 21
  BY SMT, <1>3
<1>4. CASE h = 12 /\ w = 21
  BY SMT, <1>4
<1>5. CASE h = 9 /\ w = 22
  BY SMT, <1>5
<1>6. CASE h = 10 /\ w = 22
  BY SMT, <1>6
<1>7. CASE h = 11 /\ w = 22
  BY SMT, <1>7
<1>8. CASE h = 12 /\ w = 22
  BY SMT, <1>8
<1>9. CASE h = 9 /\ w = 23
  BY SMT, <1>9
<1>10. CASE h = 10 /\ w = 23
  BY SMT, <1>10
<1>11. CASE h = 11 /\ w = 23
  BY SMT, <1>11
<1>12. CASE h = 12 /\ w = 23
  BY SMT, <1>12
<1>13. CASE h = 9 /\ w = 24
  BY SMT, <1>13
<1>14. CASE h = 10 /\ w = 24
  BY SMT, <1>14
<1>15. CASE h = 11 /\ w = 24
  BY SMT, <1>15
<1>16. CASE h = 12 /\ w = 24
  BY SMT, <1>16
<1>17. CASE h = 9 /\ w = 25
  BY SMT, <1>17
<1>18. CASE h = 10 /\ w = 25
  BY SMT, <1>18
<1>19. CASE h = 11 /\ w = 25
  BY SMT, <1>19
<1>20. CASE h = 12 /\ w = 25
  BY SMT, <1>20
<1>21. CASE h = 9 /\ w = 26
  BY SMT, <1>21
<1>22. CASE h = 10 /\ w = 26
  BY SMT, <1>22
<1>23. CASE h = 11 /\ w = 26
  BY SMT, <1>23
<1>24. CASE h = 12 /\ w = 26
  BY SMT, <1>24
<1>25. CASE h = 9 /\ w = 27
  BY SMT, <1>25
<1>26. CASE h = 10 /\ w = 27
  BY SMT, <1>26
<1>27. CASE h = 11 /\ w = 27
  BY SMT, <1>27
<1>28. CASE h = 12 /\ w = 27
  BY SMT, <1>28
<1> QED
  BY SMT, <1>1, <1>2, <1>3, <1>4, <1>5, <1>6, <1>7, <1>8, <1>9, <1>10,
     <1>11, <1>12, <1>13, <1>14, <1>15, <1>16, <1>17, <1>18, <1>19, <1>20,
     <1>21, <1>22, <1>23, <1>24, <1>25, <1>26, <1>27, <1>28

(* ... so the partition keeps its t blocks.                                  *)
LEMMA WholeBlocksStay ==
  ASSUME NEW h \in HdBits, NEW w \in BlockBits, NEW t \in Nat, t <= 65535,
         (OldBlocks(t * 2^(w - h), h, w) \div 8) % 2^h # 0
  PROVE  t <= NumBlocks(t * 2^(w - h), h, w)
<1> DEFINE n == t * 2^(w - h)
           old == ((n \div 32768) * 2^h) \div 2^(w - 15)
           p == 2^15 \div 2^h
           q == 2^(w - 15)
           f == FbtBytes(n, h, w)
<1>1. n \in Nat
  BY SMT, Powers
<1>2. old \in Nat /\ old <= t
  BY SMT, RoundingLoss
<1>3. OldBlocks(n, h, w) = old
  <2>1. OldBlocks(n, h, w) = old % 65536
    BY DEF OldBlocks, WiiSize, WiiShift, MaxSectors
  <2> HIDE DEF old, n
  <2>2. old % 65536 = old
    BY SMT, <1>2
  <2> QED
    BY <2>1, <2>2
<1>4. t < 8 * f
  BY SMT, <1>3, RoundingLoss DEF FbtBytes, Aligned
<1>5. f \in Nat /\ f % 4 = 0
  BY SMT, <1>1, TableFacts
<1>6. WholeBlocks(n, h, w) = t
  <2>1. /\ p \in Nat \ {0} /\ q \in Nat \ {0} /\ 2^(w - h) = p * q
    BY SMT, Powers
  <2>2. \A a \in Nat, b \in Nat \ {0}, c \in Nat \ {0} : ((a * (b * c)) \div b) \div c = a
    <3> SUFFICES ASSUME NEW a \in Nat, NEW b \in Nat \ {0}, NEW c \in Nat \ {0}
                 PROVE  ((a * (b * c)) \div b) \div c = a
      OBVIOUS
    <3>1. a * (b * c) = (a * c) * b
      BY SMT
    <3>2. ((a * c) * b) \div b = a * c /\ (a * c) \div c = a
      BY SMT
    <3> QED
      BY <3>1, <3>2
  <2>3. (n \div p) \div q = t
    BY <2>1, <2>2
  <2> QED
    BY SMT, <2>3 DEF WholeBlocks, Smaller, MaxSectors, WiiSize, WiiShift
<1> HIDE DEF f, n
<1>7. t <= 32 * FbtWords(n, h, w) + 1
  BY SMT, <1>4, <1>5, <1>6 DEF FbtWords, Smaller, f
<1> QED
  BY SMT, <1>6, <1>7 DEF NumBlocks, Smaller, n

-----------------------------------------------------------------------------
(* The state of a partition between and within commands: the geometry in    *)
(* memory is that of the header, and blocks beyond the last used one are     *)
(* lost to a TRUNCATE only if the table has no spare bits.                   *)
GeoTypeOK ==
  /\ hdr \in [n : Nat, h : HdBits, w : BlockBits]
  /\ geo = GeoOf(hdr)
  /\ top \in Nat /\ step \in {"idle", "fbt", "closed"}

HasSpareBits(x) == (OldBlocks(x.n, x.h, x.w) \div 8) % 2^x.h # 0

GeoInv ==
  /\ step # "fbt" => fbtAt = geo.fbtLba
  /\ top <= 65534
  /\ HasSpareBits(hdr) => top < geo.blocks

(* FORMAT without --wss takes a block size of 2 MiB to 128 MiB.              *)
LEMMA SizeShiftType ==
  ASSUME NEW n \in Nat, NEW h \in HdBits
  PROVE  SizeShift(n, h) \in BlockBits
<1> DEFINE fits == {s \in MinShift .. MaxShift :
                      (n \div (WiiSize \div 2^h)) \div 2^s < MaxSectors}
<1>1. fits \subseteq 6 .. 11
  BY DEF MinShift, MaxShift
<1>2. SizeShift(n, h) = 15 + (IF fits = {} THEN 12
                              ELSE CHOOSE s \in fits : \A t \in fits : s <= t)
  BY DEF SizeShift, WiiShift, MaxShift
<1> HIDE DEF fits
<1>3. fits # {} => \E s \in fits : \A t \in fits : s <= t
  BY <1>1, Smallest
<1>4. fits # {} => (CHOOSE s \in fits : \A t \in fits : s <= t) \in 6 .. 11
  BY <1>1, <1>3
<1> DEFINE c == CHOOSE s \in fits : \A t \in fits : s <= t
<1> HIDE DEF c
<1>5. fits = {} \/ c \in 6 .. 11
  BY <1>4 DEF c
<1>6. SizeShift(n, h) = 15 + (IF fits = {} THEN 12 ELSE c)
  BY <1>2 DEF c
<1> QED
  BY SMT, <1>5, <1>6 DEF BlockBits

LEMMA SpareBlocks ==
  ASSUME NEW n \in Nat, NEW h \in HdBits, NEW w \in BlockBits,
         (OldBlocks(n, h, w) \div 8) % 2^h # 0
  PROVE  0 < NumBlocks(n, h, w)
<1> DEFINE a == n \div 2^15
           r == 2^h
           p == 2^15 \div 2^h
           q == 2^(w - 15)
<1>1. /\ p \in Nat \ {0} /\ q \in Nat \ {0} /\ r \in Nat \ {0} /\ p * r = 2^15
  BY SMT, Powers
<1>2. a \in Nat /\ a * 2^15 <= n
  BY SMT
<1>3. OldBlocks(n, h, w) = ((a * r) \div q) % 65536
  BY DEF OldBlocks, WiiSize, WiiShift, MaxSectors
<1>4. WholeBlocks(n, h, w) = IF (n \div p) \div q < 65535 THEN (n \div p) \div q ELSE 65535
  BY SMT DEF WholeBlocks, Smaller, MaxSectors, WiiSize, WiiShift
<1>5. OldBlocks(n, h, w) # 0
  BY SMT, Powers
<1> HIDE DEF a, p, q, r
<1>6. a * r <= n \div p
  <2>1. (a * r) * p <= n
    BY SMT, <1>1, <1>2
  <2> QED
    BY SMT, <1>1, <1>2, <2>1
<1>7. (a * r) \div q # 0
  BY SMT, <1>3, <1>5
<1>8. /\ (a * r) \div q \in Nat /\ (n \div p) \div q \in Nat
      /\ (a * r) \div q <= (n \div p) \div q
  BY SMT, <1>1, <1>2, <1>6
<1>9. WholeBlocks(n, h, w) \in Nat \ {0}
  BY SMT, <1>4, <1>7, <1>8
<1>10. FbtWords(n, h, w) \in Nat
  BY BlockFacts
<1> QED
  BY SMT, <1>9, <1>10 DEF NumBlocks, Smaller

LEMMA GeoFields ==
  ASSUME NEW x
  PROVE  /\ GeoOf(x).fbtLba = FbtLba(x.n, x.h, x.w)
         /\ GeoOf(x).fbtLbas = FbtBytes(x.n, x.h, x.w) \div 2^x.h
         /\ GeoOf(x).words = FbtWords(x.n, x.h, x.w)
         /\ GeoOf(x).blocks = NumBlocks(x.n, x.h, x.w)
         /\ GeoOf(x).infoLbas = InfoLbas(x.h, x.w)
         /\ GeoOf(x).maxDisc = MaxDisc(x.n, x.h, x.w)
BY DEF GeoOf, Geometry

LEMMA GeoTyping == GeoSpec => []GeoTypeOK
<1>1. Format => GeoTypeOK
  <2> SUFFICES ASSUME Format PROVE GeoTypeOK
    OBVIOUS
  <2>1. PICK h \in HdShifts : \E n \in Sizes(h), w \in WbfsShifts \cup {0} :
               hdr = [n |-> n, h |-> h, w |-> IF w = 0 THEN SizeShift(n, h) ELSE w]
    BY DEF Format
  <2>2. PICK n \in Sizes(h), w \in WbfsShifts \cup {0} :
               hdr = [n |-> n, h |-> h, w |-> IF w = 0 THEN SizeShift(n, h) ELSE w]
    BY <2>1
  <2>3. n \in Nat /\ h \in HdBits
    BY GeometryAssumption DEF HdBits
  <2>4. w # 0 => w \in BlockBits
    BY GeometryAssumption DEF BlockBits, WiiShift, MinShift, MaxShift
  <2>5. hdr \in [n : Nat, h : HdBits, w : BlockBits]
    BY <2>2, <2>3, <2>4, SizeShiftType
  <2> QED
    BY <2>5 DEF Format, GeoTypeOK
<1>2. GeoTypeOK /\ [GeoNext]_geoVars => GeoTypeOK'
  <2> SUFFICES ASSUME GeoTypeOK, [GeoNext]_geoVars PROVE GeoTypeOK'
    OBVIOUS
  <2> USE DEF GeoTypeOK
  <2>1. ASSUME NEW b \in Fills(geo.blocks), Fill(b) PROVE GeoTypeOK'
    <3>1. geo.blocks \in Nat
      BY BlockFacts, GeoFields
    <3> QED
      BY <2>1, <3>1 DEF Fill
  <2>2. CASE Trim
    <3> DEFINE m == (top + 1) * 2^(hdr.w - hdr.h)
    <3>1. m \in Nat
      BY Powers
    <3> HIDE DEF m
    <3>2. hdr' = [hdr EXCEPT !.n = m] /\ geo' = Geometry(m, hdr.h, hdr.w)
      BY <2>2 DEF Trim, m
    <3>3. hdr' \in [n : Nat, h : HdBits, w : BlockBits]
      BY <3>1, <3>2
    <3>4. hdr'.n = m /\ hdr'.h = hdr.h /\ hdr'.w = hdr.w
      BY <3>2
    <3>5. geo' = GeoOf(hdr')
      BY <3>2, <3>4 DEF GeoOf
    <3> QED
      BY <2>2, <3>3, <3>5 DEF Trim
  <2>3. CASE TrimFbt
    BY <2>3 DEF TrimFbt
  <2>4. CASE CloseHd
    BY <2>4 DEF CloseHd
  <2>5. CASE Reopen
    BY <2>5 DEF Reopen
  <2>6. CASE UNCHANGED geoVars
    BY <2>6 DEF geoVars
  <2> QED
    BY <2>1, <2>2, <2>3, <2>4, <2>5, <2>6 DEF GeoNext
<1> QED
  BY <1>1, <1>2, PTL DEF GeoSpec

LEMMA GeoInvariant == GeoSpec => []GeoInv
<1>1. GeoTypeOK /\ Format => GeoInv
  <2> SUFFICES ASSUME GeoTypeOK, Format PROVE GeoInv
    OBVIOUS
  <2>1. HasSpareBits(hdr) => 0 < geo.blocks
    BY SpareBlocks, GeoFields DEF GeoTypeOK, HasSpareBits
  <2> QED
    BY <2>1 DEF Format, GeoInv
<1>2. GeoTypeOK /\ GeoInv /\ [GeoNext]_geoVars => GeoInv'
  <2> SUFFICES ASSUME GeoTypeOK, GeoInv, [GeoNext]_geoVars PROVE GeoInv'
    OBVIOUS
  <2> USE DEF GeoInv
  <2>1. ASSUME NEW b \in Fills(geo.blocks), Fill(b) PROVE GeoInv'
    <3>1. geo.blocks \in Nat /\ geo.blocks <= 65535
      BY BlockFacts, GeoFields DEF GeoTypeOK
    <3> QED
      BY <2>1, <3>1 DEF Fill, HasSpareBits
  <2>2. CASE Trim
    <3> DEFINE t == top + 1
               m == t * 2^(hdr.w - hdr.h)
    <3>1. hdr'.n = m /\ hdr'.h = hdr.h /\ hdr'.w = hdr.w
      BY <2>2 DEF Trim, GeoTypeOK
    <3>2. geo'.blocks = NumBlocks(m, hdr.h, hdr.w)
      BY <2>2 DEF Trim, Geometry
    <3>3. t \in Nat /\ t <= 65535 /\ hdr.h \in HdBits /\ hdr.w \in BlockBits
      BY DEF GeoTypeOK
    <3>4. HasSpareBits(hdr') => (OldBlocks(m, hdr.h, hdr.w) \div 8) % 2^hdr.h # 0
      BY <3>1 DEF HasSpareBits
    <3>5. HasSpareBits(hdr') => t <= NumBlocks(m, hdr.h, hdr.w)
      BY <3>3, <3>4, WholeBlocksStay
    <3>6. m \in Nat
      BY <3>3, Powers
    <3> HIDE DEF m
    <3>7. NumBlocks(m, hdr.h, hdr.w) \in Nat
      BY <3>3, <3>6, BlockFacts
    <3>8. HasSpareBits(hdr') => top < geo'.blocks
      BY SMT, <3>2, <3>3, <3>5, <3>7 DEF GeoTypeOK
    <3> QED
      BY <2>2, <3>8 DEF Trim
  <2>3. CASE TrimFbt
    BY <2>3 DEF TrimFbt
  <2>4. CASE CloseHd
    BY <2>4 DEF CloseHd
  <2>5. CASE Reopen
    BY <2>5 DEF Reopen, GeoTypeOK
  <2>6. CASE UNCHANGED geoVars
    BY <2>6 DEF geoVars
  <2> QED
    BY <2>1, <2>2, <2>3, <2>4, <2>5, <2>6 DEF GeoNext
<1> QED
  BY <1>1, <1>2, GeoTyping, PTL DEF GeoSpec

(* For every size of the partition, in sectors of 512 to 4096 bytes and      *)
(* blocks of 2 to 128 MiB, header, inodes and free blocks table fit into     *)
(* block 0.                                                                  *)
THEOREM BlockZero == GeoSpec => []BlockZeroFits
<1>1. GeoTypeOK => BlockZeroFits
  <2> SUFFICES ASSUME GeoTypeOK PROVE BlockZeroFits
    OBVIOUS
  <2>1. hdr.n \in Nat /\ hdr.h \in HdBits /\ hdr.w \in BlockBits /\ geo = GeoOf(hdr)
    BY DEF GeoTypeOK
  <2>2. /\ FbtLba(hdr.n, hdr.h, hdr.w) \in Nat
        /\ FbtLba(hdr.n, hdr.h, hdr.w) + FbtBytes(hdr.n, hdr.h, hdr.w) \div 2^hdr.h
             = 2^(hdr.w - hdr.h)
    BY <2>1, TableFacts
  <2>3. 2^(hdr.w - hdr.h) \in Nat
    BY <2>1, Powers
  <2>4. geo.fbtLba + geo.fbtLbas <= 2^(hdr.w - hdr.h)
    BY <2>1, <2>2, <2>3, GeoFields
  <2>5. geo.maxDisc >= 1 /\ 1 + geo.maxDisc * geo.infoLbas <= geo.fbtLba
    BY <2>1, InodeFacts, GeoFields
  <2> QED
    BY <2>4, <2>5 DEF BlockZeroFits
<1> QED
  BY <1>1, GeoTyping, PTL

(* Every data block has a bit in the table and lies inside the partition.    *)
THEOREM BitForEveryBlock == GeoSpec => []EveryBlockHasBit
<1>1. GeoTypeOK => EveryBlockHasBit
  <2> SUFFICES ASSUME GeoTypeOK PROVE EveryBlockHasBit
    OBVIOUS
  <2> DEFINE b == NumBlocks(hdr.n, hdr.h, hdr.w)
             v == WholeBlocks(hdr.n, hdr.h, hdr.w)
             s == 2^(hdr.w - hdr.h)
  <2>1. hdr.n \in Nat /\ hdr.h \in HdBits /\ hdr.w \in BlockBits /\ geo = GeoOf(hdr)
    BY DEF GeoTypeOK
  <2>2. /\ b \in Nat /\ v \in Nat /\ b <= v /\ v * s <= hdr.n
        /\ b <= 32 * FbtWords(hdr.n, hdr.h, hdr.w) + 1
        /\ FbtWords(hdr.n, hdr.h, hdr.w) \in Nat
        /\ 4 * FbtWords(hdr.n, hdr.h, hdr.w) <= FbtBytes(hdr.n, hdr.h, hdr.w)
    BY <2>1, BlockFacts
  <2>3. s \in Nat
    BY <2>1, Powers
  <2>4. (FbtBytes(hdr.n, hdr.h, hdr.w) \div 2^hdr.h) * 2^hdr.h = FbtBytes(hdr.n, hdr.h, hdr.w)
    BY <2>1, TableFacts
  <2>5. geo.blocks = b /\ geo.words = FbtWords(hdr.n, hdr.h, hdr.w)
        /\ geo.fbtLbas = FbtBytes(hdr.n, hdr.h, hdr.w) \div 2^hdr.h
    BY <2>1, GeoFields
  <2> HIDE DEF b, v, s
  <2>6. b * s <= v * s
    BY SMT, <2>2, <2>3
  <2>7. geo.blocks * s <= hdr.n
    BY SMT, <2>1, <2>2, <2>3, <2>5, <2>6
  <2>8. geo.blocks - 1 <= 32 * geo.words
    BY SMT, <2>2, <2>5
  <2>9. 4 * geo.words <= geo.fbtLbas * 2^hdr.h
    BY <2>2, <2>4, <2>5
  <2> QED
    BY <2>7, <2>8, <2>9 DEF EveryBlockHasBit, s
<1> QED
  BY <1>1, GeoTyping, PTL

(* An open always finds the free blocks table that was written last.         *)
THEOREM TableIsFound == GeoSpec => []FbtWhereExpected
<1>1. GeoTypeOK /\ GeoInv => FbtWhereExpected
  BY DEF GeoTypeOK, GeoInv, FbtWhereExpected
<1> QED
  BY <1>1, GeoTyping, GeoInvariant, PTL

(* TRUNCATE keeps the last used block of every partition whose old rounding  *)
(* leaves a part of the last sector of the table unused.                     *)
THEOREM UsedBlocksKept == GeoSpec => []TrimKeepsBlocks
<1>1. GeoTypeOK /\ GeoInv => TrimKeepsBlocks
  BY DEF GeoTypeOK, GeoInv, TrimKeepsBlocks, HasSpareBits
<1> QED
  BY <1>1, GeoTyping, GeoInvariant, PTL
=============================================================================
