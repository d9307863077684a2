----------------------------- MODULE PMM_proofs ------------------------------
(***************************************************************************)
(* Proofs about PMM: every theorem here is for every memory map, every     *)
(* content of the uninitialised bitmap and every width of the masks.       *)
(***************************************************************************)
EXTENDS PMM, WellFoundedInduction, TLAPS

------------------------------------------------------------------------------
(* Arithmetic of frames, words and masks *)

(* A word has at least one bit *)
LEMMA WordBitsType == WordBits \in Nat /\ WordBits > 0
BY SizesAssumption DEF WordBits

(* A frame is its word and its bit *)
LEMMA DivMod ==
    ASSUME NEW f \in Nat
    PROVE  /\ Word(f) \in Nat
           /\ Bit(f) \in 0 .. WordBits - 1
           /\ f = WordBits * Word(f) + Bit(f)
BY WordBitsType DEF Word, Bit

(* The word and the bit of a frame are unique *)
LEMMA DivModUnique ==
    ASSUME NEW w \in Nat, NEW b \in 0 .. WordBits - 1
    PROVE  Word(WordBits * w + b) = w /\ Bit(WordBits * w + b) = b
BY WordBitsType DEF Word, Bit

(* `1 << j` sets bits of the word only, and at least one *)
LEMMA MaskType ==
    ASSUME NEW j \in 0 .. WordBits - 1
    PROVE  Mask(j) \subseteq 0 .. WordBits - 1 /\ Mask(j) # {}
BY SizesAssumption DEF Mask, WordBits

(* The shift counts below the width of an int have disjoint masks *)
LEMMA MaskDisjoint ==
    ASSUME NEW i \in 0 .. IntBits - 1, NEW j \in 0 .. IntBits - 1,
           Mask(i) \cap Mask(j) # {}
    PROVE  i = j
BY SizesAssumption DEF Mask, WordBits

(* A shift count in the high half wraps to the low half *)
LEMMA MaskWraps ==
    ASSUME NEW j \in 0 .. WordBits - 1, j >= IntBits
    PROVE  Mask(j) = Mask(j - IntBits)
BY SizesAssumption DEF Mask, WordBits

(* The cells of a frame are bits of the bitmap *)
LEMMA CellsType ==
    ASSUME NEW f \in Nat
    PROVE  Cells(f) \subseteq Nat \X (0 .. WordBits - 1) /\ Cells(f) # {}
<1>1. Word(f) \in Nat /\ Mask(Bit(f)) \subseteq 0 .. WordBits - 1 /\ Mask(Bit(f)) # {}
  BY DivMod, MaskType
<1>2. PICK k \in Mask(Bit(f)) : TRUE
  BY <1>1
<1>3. <<Word(f), k>> \in Cells(f)
  BY <1>2 DEF Cells
<1> QED  BY <1>1, <1>3 DEF Cells

(* A frame of the high half of a word shares its cells with the frame       *)
(* IntBits below it                                                         *)
LEMMA LowTwin ==
    ASSUME NEW f \in Nat, Bit(f) >= IntBits
    PROVE  /\ f - IntBits \in Nat
           /\ Bit(f - IntBits) = Bit(f) - IntBits
           /\ Bit(f - IntBits) < IntBits
           /\ Cells(f - IntBits) = Cells(f)
<1> DEFINE b == Bit(f) - IntBits
<1>1. b \in 0 .. WordBits - 1 /\ b < IntBits
  BY DivMod, SizesAssumption DEF WordBits
<1>2. f - IntBits = WordBits * Word(f) + b
  <2>1. f = WordBits * Word(f) + Bit(f) /\ Word(f) \in Nat /\ Bit(f) \in Nat
    BY DivMod
  <2>2. WordBits * Word(f) \in Nat
    BY <2>1, WordBitsType
  <2> QED  BY <2>1, <2>2, SizesAssumption
<1>3. Word(f - IntBits) = Word(f) /\ Bit(f - IntBits) = b
  BY <1>1, <1>2, DivMod, DivModUnique
<1>4. f - IntBits \in Nat
  <2>1. Word(f) \in Nat
    BY DivMod
  <2>2. WordBits * Word(f) \in Nat
    BY <2>1, WordBitsType
  <2> QED  BY <1>1, <1>2, <2>2
<1>5. Mask(b) = Mask(Bit(f))
  BY MaskWraps, DivMod
<1> QED  BY <1>1, <1>3, <1>4, <1>5 DEF Cells

(* Two frames that share a cell are the same, or twins *)
LEMMA SharedCell ==
    ASSUME NEW f \in Nat, NEW g \in Nat, Bit(f) < IntBits,
           Cells(f) \cap Cells(g) # {}
    PROVE  /\ f <= g
           /\ Bit(g) < IntBits => f = g
<1>1. CASE Bit(g) < IntBits
  <2>1. Word(f) = Word(g) /\ Mask(Bit(f)) \cap Mask(Bit(g)) # {}
    BY DEF Cells
  <2>2. Bit(f) = Bit(g)
    BY <1>1, <2>1, MaskDisjoint, DivMod, SizesAssumption
  <2> QED  BY <2>1, <2>2, DivMod
<1>2. CASE Bit(g) >= IntBits
  <2> DEFINE h == g - IntBits
  <2>1. h \in Nat /\ Bit(h) < IntBits /\ Cells(h) = Cells(g)
    BY <1>2, LowTwin
  <2>2. Word(f) = Word(h) /\ Mask(Bit(f)) \cap Mask(Bit(h)) # {}
    BY <2>1 DEF Cells
  <2>3. Bit(f) = Bit(h)
    BY <2>1, <2>2, MaskDisjoint, DivMod, SizesAssumption
  <2>4. f = h
    BY <2>1, <2>2, <2>3, DivMod
  <2>5. f <= g
    BY <2>4, SizesAssumption
  <2> QED  BY <1>2, <2>5, SizesAssumption, DivMod, WordBitsType
<1>3. Bit(g) \in Nat
  BY DivMod, WordBitsType
<1> QED  BY <1>1, <1>2, <1>3, SizesAssumption

(* Every set of frames has a least one *)
LEMMA LeastFrame ==
    ASSUME NEW F, F \subseteq Nat, F # {}
    PROVE  \E f \in F : \A g \in F : f <= g
<1>1. \E f \in F : \A g \in F : ~ (<<g, f>> \in OpToRel(<, Nat))
  BY NatLessThanWellFounded, WFMin
<1>2. PICK f \in F : \A g \in F : ~ (<<g, f>> \in OpToRel(<, Nat))
  BY <1>1
<1>3. \A g \in F : ~ (g < f)
  BY <1>2 DEF OpToRel
<1> QED  BY <1>3

(* The extent of the bitmap and of the zone protected for it *)
LEMMA BitmapExtent ==
    ASSUME blk_count \in Nat
    PROVE  /\ BitmapWords \in Nat /\ BitmapEnd \in Nat
           /\ LastProtected \in Nat /\ KernEnd <= LastProtected
           /\ Protected \subseteq Nat
<1>1. BitmapWords \in Nat
  BY WordBitsType DEF BitmapWords
<1>2. BitmapWords \div PageBytes \in Nat /\ BitmapWords * WordBytes \in Nat
  BY <1>1, SizesAssumption
<1>3. KernEnd * PageBytes \in Nat
  BY SizesAssumption
<1> QED  BY <1>1, <1>2, <1>3, SizesAssumption DEF BitmapEnd, LastProtected, Protected

(* The scan returns a clear frame of the low half of a word, if any is clear *)
LEMMA FirstFree ==
    ASSUME blk_count \in Nat
    PROVE  /\ ClearFrames \subseteq Nat
           /\ ClearFrames = {} => pmBitmap_first_free = Null
           /\ ClearFrames # {} =>
                /\ pmBitmap_first_free \in ClearFrames
                /\ Bit(pmBitmap_first_free) < IntBits
<1>1. ClearFrames \subseteq Nat
  BY DEF ClearFrames, Scanned
<1>2. ASSUME ClearFrames # {}
      PROVE  /\ pmBitmap_first_free \in ClearFrames
             /\ Bit(pmBitmap_first_free) < IntBits
  <2> DEFINE f == pmBitmap_first_free
  <2>1. f \in ClearFrames /\ \A g \in ClearFrames : f <= g
    BY <1>1, <1>2, LeastFrame DEF pmBitmap_first_free
  <2>2. SUFFICES ASSUME Bit(f) >= IntBits PROVE FALSE
    BY <2>1, <1>1, DivMod, WordBitsType, SizesAssumption
  <2>3. f - IntBits \in Nat /\ Cells(f - IntBits) = Cells(f)
    BY <2>1, <2>2, <1>1, LowTwin
  <2>4. f - IntBits \in ClearFrames
    <3>1. BitmapWords * WordBits - 1 \in Int
      BY BitmapExtent, WordBitsType
    <3> QED  BY <2>1, <2>3, <3>1, SizesAssumption DEF ClearFrames, Scanned, pmBitmap_test
  <2> QED  BY <2>1, <2>3, <2>4, <1>1, SizesAssumption
<1> QED  BY <1>1, <1>2 DEF pmBitmap_first_free

------------------------------------------------------------------------------
(* Type correctness *)

(* The cells of a set of frames are bits of the bitmap *)
LEMMA CellsOfType ==
    ASSUME NEW F \in SUBSET Nat
    PROVE  CellsOf(F) \subseteq Nat \X (0 .. WordBits - 1)
BY CellsType DEF CellsOf

(* The frames of a region of the memory map are natural numbers *)
LEMMA RegionType ==
    ASSUME NEW r \in MapEntry
    PROVE  Pages(r) \in Nat /\ RegionFrames(r) \subseteq Nat
<1>1. PageBytes \in Nat /\ PageBytes > 0
  BY SizesAssumption
<1>2. r.length + PageBytes - 1 \in Nat /\ r.base \in Nat
  BY <1>1 DEF MapEntry
<1>3. (r.length + PageBytes - 1) \div PageBytes \in Nat /\ r.base \div PageBytes \in Nat
  BY <1>1, <1>2
<1> QED  BY <1>3 DEF Pages, RegionFrames

(* Every action keeps every variable typed *)
LEMMA TypeStep == TypeOK /\ [Next]_vars => TypeOK'
<1> SUFFICES ASSUME TypeOK, [Next]_vars PROVE TypeOK'
  OBVIOUS
<1> USE DEF TypeOK
<1>1. CASE pmBitmapInit_region
  <2>1. mmap[entry] \in MapEntry
    BY <1>1, MapsAssumption DEF pmBitmapInit_region
  <2>2. CellsOf(RegionFrames(mmap[entry])) \subseteq Nat \X (0 .. WordBits - 1)
    BY <2>1, RegionType, CellsOfType
  <2>3. bitmap' \subseteq Nat \X (0 .. WordBits - 1)
    BY <1>1, <2>2 DEF pmBitmapInit_region, pmBitmap_set, pmBitmap_unset
  <2>4. blk_count' \in Nat
    BY <1>1, <2>1, RegionType DEF pmBitmapInit_region
  <2> QED  BY <1>1, <2>3, <2>4 DEF pmBitmapInit_region
<1>2. CASE pmBitmapInit_protect
  <2>1. CellsOf(Protected) \subseteq Nat \X (0 .. WordBits - 1)
    BY CellsOfType, BitmapExtent
  <2> QED  BY <1>2, <2>1 DEF pmBitmapInit_protect, pmBitmap_set
<1>3. CASE pm_alloc_block
  <2>1. ret' \in Nat
    BY <1>3, FirstFree DEF pm_alloc_block, Null
  <2>2. CellsOf({ret'}) \subseteq Nat \X (0 .. WordBits - 1)
    BY <2>1, CellsOfType
  <2> QED  BY <1>3, <2>1, <2>2 DEF pm_alloc_block, pmBitmap_set
<1>4. CASE TakePointer
  BY <1>4 DEF TakePointer
<1>5. ASSUME NEW f \in held, NEW offset \in {0, PageBytes - 1}, FreeHeld(f, offset)
      PROVE  TypeOK'
  BY <1>5 DEF FreeHeld, pm_free_block, pmBitmap_unset
<1>6. ASSUME NEW p \in StrayPtrs, FreeStray(p)
      PROVE  TypeOK'
  BY <1>6 DEF FreeStray, pm_free_block, pmBitmap_unset
<1>7. CASE UNCHANGED vars
  BY <1>7 DEF vars
<1> QED  BY <1>1, <1>2, <1>3, <1>4, <1>5, <1>6, <1>7 DEF Next

(* pmBitmapInit, the allocations and the frees keep every variable typed:   *)
(* the bits they touch are bits of a word, the pointers they return frames. *)
THEOREM TypeCorrect == Spec => []TypeOK
<1>1. Init => TypeOK
  BY GarbageAssumption DEF Init, TypeOK
<1> QED  BY <1>1, TypeStep, PTL DEF Spec
------------------------------------------------------------------------------
(* Exclusive ownership.  NoDoubleGrant is not inductive: that a granted      *)
(* frame is skipped by the scan needs its mask to be set, and that no free   *)
(* clears it needs every granted frame to be in the low half of its word,    *)
(* where no two frames share a bit.  The protected zone is never granted for *)
(* the same reason, and a high-half frame of the zone is safe because its    *)
(* twin is below it, hence in the zone too.                                  *)

(* Callers that hold no frame pass nothing above the start of the bitmap.    *)
(* mmap.h:37 lets them pass any pointer of the protected zone, but           *)
(* pm_free_block frees those that lie behind the bitmap in its page.  The    *)
(* theorems but GuardedBusy are about callers that keep to this.             *)
KernelStraysOnly == \A p \in StrayPtrs : p <= KernEnd * PageBytes

OwnedMarked ==
    \A f \in Live : f \in Scanned /\ Bit(f) < IntBits /\ Cells(f) \subseteq bitmap

NothingBeforeBoot == phase # "ready" => held = {} /\ ret = NoReply

IInv == /\ TypeOK
        /\ NoDoubleGrant
        /\ NothingBeforeBoot
        /\ OwnedMarked
        /\ ProtectedStayBusy
        /\ ProtectedNeverGranted

(* Before pmBitmapInit there is nothing to protect and nothing is owned *)
LEMMA IInvInit == Init => IInv
<1>1. Init => TypeOK
  BY GarbageAssumption DEF Init, TypeOK
<1> QED
  BY <1>1 DEF Init, IInv, NoDoubleGrant, NothingBeforeBoot, OwnedMarked,
              ProtectedStayBusy, ProtectedNeverGranted, Live, NoReply, Null

(* An address inside a frame is freed as that frame *)
LEMMA AddressFrame ==
    ASSUME NEW f \in Nat, NEW offset \in 0 .. PageBytes - 1
    PROVE  (f * PageBytes + offset) \div PageBytes = f
BY SizesAssumption

(* A free clears at most the cells of the frame it frees *)
LEMMA FreeClears ==
    ASSUME TypeOK, NEW f \in held, NEW offset \in {0, PageBytes - 1}, FreeHeld(f, offset)
    PROVE  bitmap \ Cells(f) \subseteq bitmap'
<1>1. f \in Nat /\ offset \in 0 .. PageBytes - 1
  BY SizesAssumption DEF TypeOK
<1>2. (f * PageBytes + offset) \div PageBytes = f
  BY <1>1, AddressFrame
<1> QED  BY <1>2 DEF FreeHeld, pm_free_block, pmBitmap_unset, CellsOf

(* pm_free_block does nothing with a pointer into the kernel *)
LEMMA StrayIgnored ==
    ASSUME TypeOK, KernelStraysOnly, NEW p \in StrayPtrs, FreeStray(p)
    PROVE  UNCHANGED vars
<1>1. /\ BitmapWords * WordBytes \in Nat /\ KernEnd * PageBytes \in Nat
      /\ BitmapEnd \in Nat /\ p \in Nat
  BY BitmapExtent, SizesAssumption, StrayAssumption DEF TypeOK
<1>2. p <= BitmapEnd
  BY <1>1 DEF KernelStraysOnly, BitmapEnd
<1> QED  BY <1>2 DEF FreeStray, pm_free_block, vars

(* A stuttering step changes nothing the invariant speaks of *)
LEMMA UnchangedStep == IInv /\ UNCHANGED vars => IInv'
BY DEF IInv, TypeOK, NoDoubleGrant, NothingBeforeBoot, OwnedMarked, ProtectedStayBusy,
       ProtectedNeverGranted, Live, Protected, LastProtected, Scanned, BitmapWords, vars

(* Every action preserves the invariant, provided the callers that hold no  *)
(* frame pass pointers into the kernel only                                 *)
LEMMA IInvStep == KernelStraysOnly /\ IInv /\ [Next]_vars => IInv'
<1> SUFFICES ASSUME KernelStraysOnly, IInv, [Next]_vars PROVE IInv'
  OBVIOUS
<1>0. TypeOK /\ TypeOK'
  BY TypeStep DEF IInv
<1> USE <1>0
<1>1. CASE pmBitmapInit_region
  <2>1. Live = {} /\ Live' = {} /\ phase # "ready" /\ phase' # "ready" /\ ret' \notin held'
    BY <1>1 DEF IInv, pmBitmapInit_region, NothingBeforeBoot, Live, NoReply
  <2>2. NothingBeforeBoot'
    BY <1>1 DEF IInv, pmBitmapInit_region, NothingBeforeBoot
  <2> QED  BY <2>1, <2>2 DEF IInv, NoDoubleGrant, OwnedMarked, ProtectedStayBusy,
                             ProtectedNeverGranted
<1>2. CASE pmBitmapInit_protect
  <2>1. Live = {} /\ Live' = {} /\ ret' \notin held' /\ phase' = "ready"
    BY <1>2 DEF IInv, pmBitmapInit_protect, NothingBeforeBoot, Live, NoReply
  <2>2. Protected' = Protected
    BY <1>2 DEF pmBitmapInit_protect, Protected, LastProtected, BitmapWords
  <2>3. CellsOf(Protected') \subseteq bitmap'
    BY <1>2, <2>2 DEF pmBitmapInit_protect, pmBitmap_set
  <2> QED  BY <2>1, <2>3 DEF IInv, NoDoubleGrant, NothingBeforeBoot, OwnedMarked,
                             ProtectedStayBusy, ProtectedNeverGranted
<1>3. CASE pm_alloc_block
  <2>1. phase = "ready" /\ phase' = "ready" /\ Protected' = Protected 
        /\ Scanned' = Scanned /\ held' = held
    BY <1>3 DEF pm_alloc_block, Protected, LastProtected, Scanned, BitmapWords
  <2>2. bitmap \subseteq bitmap'
    BY <1>3 DEF pm_alloc_block, pmBitmap_set
  <2>3. CASE ret' = Null
    <3>1. Null \in Protected
      BY BitmapExtent DEF Protected, Null, TypeOK
    <3>2. Live = held
      BY <1>3 DEF pm_alloc_block, Live
    <3>3. Null \notin held /\ Live' = held
      BY <2>1, <2>3, <3>1, <3>2 DEF IInv, ProtectedNeverGranted, Live
    <3> QED  BY <2>1, <2>2, <2>3, <3>2, <3>3
             DEF IInv, NoDoubleGrant, NothingBeforeBoot, OwnedMarked,
                 ProtectedStayBusy, ProtectedNeverGranted
  <2>4. CASE ret' # Null
    <3>1. /\ ret' \in ClearFrames /\ ret' \in Scanned /\ ret' \in Nat
          /\ Bit(ret') < IntBits
      BY <1>3, <2>4, FirstFree DEF pm_alloc_block, TypeOK, ClearFrames
    <3>2. Cells(ret') \cap bitmap = {} /\ Cells(ret') # {}
      BY <3>1, CellsType DEF ClearFrames, Scanned, pmBitmap_test
    <3>3. Cells(ret') \subseteq bitmap'
      BY <1>3, <2>4 DEF pm_alloc_block, pmBitmap_set, CellsOf
    <3>4. ret' \notin held
      <4>1. ASSUME ret' \in held PROVE ret' \in Live
        BY <4>1, <3>1, <1>3 DEF Live
      <4> QED  BY <4>1, <3>2 DEF IInv, OwnedMarked
    <3>5. ret' \notin Protected
      BY <2>1, <3>2 DEF IInv, ProtectedStayBusy, CellsOf
    <3>6. Live' = held \cup {ret'} /\ Live = held
      BY <1>3, <2>1, <2>4, <3>1 DEF pm_alloc_block, Live, NoReply
    <3> QED  BY <2>1, <2>2, <3>1, <3>3, <3>4, <3>5, <3>6
             DEF IInv, NoDoubleGrant, NothingBeforeBoot, OwnedMarked,
                 ProtectedStayBusy, ProtectedNeverGranted
  <2> QED  BY <2>3, <2>4
<1>4. CASE TakePointer
  <2>1. Live' = Live /\ ret' \notin held'
    BY <1>4 DEF TakePointer, Live, NoReply, Null, TypeOK
  <2>2. phase = "ready" /\ Protected' = Protected /\ Scanned' = Scanned
    BY <1>4 DEF TakePointer, Protected, LastProtected, Scanned, BitmapWords, IInv, NothingBeforeBoot
  <2> QED  BY <1>4, <2>1, <2>2
           DEF TakePointer, IInv, NoDoubleGrant, NothingBeforeBoot, OwnedMarked,
               ProtectedStayBusy, ProtectedNeverGranted
<1>5. ASSUME NEW f \in held, NEW offset \in {0, PageBytes - 1}, FreeHeld(f, offset)
      PROVE  IInv'
  <2>1. phase = "ready" /\ ret = NoReply /\ ret' = NoReply /\ phase' = "ready"
        /\ held' = held \ {f} /\ Protected' = Protected /\ Scanned' = Scanned
    BY <1>5 DEF FreeHeld, Protected, LastProtected, Scanned, BitmapWords
  <2>2. f \in Nat /\ f \in Live
    BY DEF TypeOK, Live, NoReply, Null
  <2>3. bitmap \ Cells(f) \subseteq bitmap'
    BY <1>5, FreeClears
  <2>4. Live' = Live \ {f} /\ Live = held
    BY <2>1 DEF Live, NoReply
  <2>5. ASSUME NEW g \in Live' 
                PROVE  g \in Scanned' /\ Bit(g) < IntBits /\ Cells(g) \subseteq bitmap'
    <3>1. g \in Nat /\ g # f /\ g \in Live
      BY <2>4 DEF TypeOK
    <3>2. g \in Scanned /\ Bit(g) < IntBits /\ Bit(f) < IntBits /\ Cells(g) \subseteq bitmap
      BY <2>2, <3>1 DEF IInv, OwnedMarked
    <3>3. Cells(f) \cap Cells(g) = {}
      BY <2>2, <3>1, <3>2, SharedCell
    <3> QED  BY <2>1, <2>3, <3>2, <3>3
  <2>6. ASSUME NEW g \in Protected PROVE Cells(g) \subseteq bitmap'
    <3>1. g \in Nat /\ Cells(g) \subseteq bitmap /\ f \notin Protected
      BY <2>1, <2>2, BitmapExtent DEF IInv, ProtectedStayBusy, ProtectedNeverGranted,
                                      CellsOf, TypeOK
    <3>2. ~ (f <= g)
      BY <2>2, <3>1, BitmapExtent DEF Protected, TypeOK
    <3>3. Cells(f) \cap Cells(g) = {}
      BY <2>2, <3>1, <3>2, SharedCell DEF IInv, OwnedMarked
    <3> QED  BY <2>3, <3>1, <3>3
  <2>7. ProtectedStayBusy'
    BY <2>1, <2>6 DEF ProtectedStayBusy, CellsOf
  <2>8. NoDoubleGrant' /\ ProtectedNeverGranted' /\ NothingBeforeBoot'
    BY <2>1, <2>4 DEF IInv, NoDoubleGrant, ProtectedNeverGranted, NothingBeforeBoot,
                      NoReply, TypeOK
  <2> QED  BY <2>5, <2>7, <2>8 DEF IInv, OwnedMarked
<1>6. ASSUME NEW p \in StrayPtrs, FreeStray(p)
      PROVE  IInv'
  BY <1>6, StrayIgnored, UnchangedStep
<1>7. CASE UNCHANGED vars
  BY <1>7, UnchangedStep
<1> QED  BY <1>1, <1>2, <1>3, <1>4, <1>5, <1>6, <1>7 DEF Next

(* At every moment of every run, a frame handed out is handed out once, the *)
(* pages pmBitmapInit protects stay busy and are nobody's: as long as the   *)
(* callers that hold no frame stay away from the bitmap's last page, which  *)
(* pm_free_block guards only in part.                                       *)
THEOREM Invariance ==
    ASSUME KernelStraysOnly PROVE Spec => []IInv
BY IInvInit, IInvStep, PTL DEF Spec

(* pm_alloc_block never returns a frame that a caller still owns, for any    *)
(* memory map and any content the bitmap had before pmBitmapInit.            *)
THEOREM Exclusive ==
    ASSUME KernelStraysOnly PROVE Spec => []NoDoubleGrant
<1>1. IInv => NoDoubleGrant
  BY DEF IInv
<1> QED  BY <1>1, Invariance, PTL

(* The pages the last loop of pmBitmapInit marks are never handed out,       *)
(* whatever is allocated and freed (and KernelStraysOnly).                   *)
THEOREM ProtectedSafe ==
    ASSUME KernelStraysOnly PROVE Spec => []ProtectedNeverGranted
<1>1. IInv => ProtectedNeverGranted
  BY DEF IInv
<1> QED  BY <1>1, Invariance, PTL

------------------------------------------------------------------------------
(* Frees of pointers into the protected zone.  Here callers may pass any of  *)
(* them, those to the gap behind the bitmap too, whose pages may then be     *)
(* granted.  What keeps the rest of the zone busy is that no frame is ever   *)
(* granted whose mask meets a guarded bit.                                   *)

ZoneStraysOnly == \A p \in StrayPtrs : p \div PageBytes <= KernEnd

Guarded == CellsOf(Protected) \ CellsOf(Gap)

GuardInv ==
    /\ TypeOK
    /\ NothingBeforeBoot
    /\ phase = "ready" =>
          /\ Guarded \subseteq bitmap
          /\ \A f \in Live : Cells(f) \cap Guarded = {}

(* A pointer into the zone is ignored, or it is one to the gap *)
LEMMA StrayInGap ==
    ASSUME TypeOK, ZoneStraysOnly, NEW p \in StrayPtrs, ~ (p <= BitmapEnd)
    PROVE  p \div PageBytes \in Gap
<1> DEFINE f == p \div PageBytes
<1>1. /\ p \in Nat /\ PageBytes \in Nat /\ PageBytes > 0 /\ BitmapEnd \in Nat
      /\ LastProtected \in Nat /\ KernEnd <= LastProtected /\ KernEnd \in Nat
  BY BitmapExtent, SizesAssumption, StrayAssumption DEF TypeOK
<1>2. f \in Nat /\ f <= KernEnd
  BY <1>1 DEF ZoneStraysOnly
<1>3. p <= (f + 1) * PageBytes - 1
  BY <1>1
<1>4. (f + 1) * PageBytes - 1 \in Int
  BY <1>1, <1>2
<1> HIDE DEF f
<1>5. (f + 1) * PageBytes - 1 > BitmapEnd
  BY <1>1, <1>3, <1>4
<1>6. f \in Protected
  BY <1>1, <1>2 DEF Protected
<1> QED  BY <1>5, <1>6 DEF Gap, f

(* The zone does not move after pmBitmapInit *)
LEMMA GuardedFixed ==
    ASSUME UNCHANGED blk_count PROVE Guarded' = Guarded
BY DEF Guarded, Protected, Gap, LastProtected, BitmapEnd, BitmapWords

(* A step that clears no guarded bit and grants no frame keeps the invariant *)
LEMMA GuardKept ==
    ASSUME GuardInv, TypeOK', phase = "ready", phase' = "ready", UNCHANGED blk_count,
           Guarded \subseteq bitmap', Live' \subseteq Live
    PROVE  GuardInv'
BY GuardedFixed DEF GuardInv, NothingBeforeBoot

(* Every action keeps the guarded bits *)
LEMMA GuardStep == ZoneStraysOnly /\ GuardInv /\ [Next]_vars => GuardInv'
<1> SUFFICES ASSUME ZoneStraysOnly, GuardInv, [Next]_vars PROVE GuardInv'
  OBVIOUS
<1>0. TypeOK /\ TypeOK'
  BY TypeStep DEF GuardInv
<1>1. CASE pmBitmapInit_region
  BY <1>0, <1>1 DEF GuardInv, pmBitmapInit_region, NothingBeforeBoot
<1>2. CASE pmBitmapInit_protect
  <2>1. Live' = {} /\ Guarded' = Guarded
    BY <1>2, GuardedFixed DEF GuardInv, pmBitmapInit_protect, Live, NothingBeforeBoot
  <2>2. CellsOf(Protected) \subseteq bitmap'
    BY <1>2 DEF pmBitmapInit_protect, pmBitmap_set
  <2>3. Guarded' \subseteq bitmap'
    BY <2>1, <2>2 DEF Guarded
  <2> QED  BY <1>0, <1>2, <2>1, <2>3 DEF GuardInv, NothingBeforeBoot, pmBitmapInit_protect
<1>3. CASE pm_alloc_block
  <2>1. phase = "ready" /\ phase' = "ready" /\ held' = held /\ Guarded' = Guarded
        /\ ret = NoReply /\ bitmap \subseteq bitmap'
    BY <1>3, GuardedFixed DEF pm_alloc_block, pmBitmap_set
  <2>2. ASSUME NEW f \in Live' PROVE Cells(f) \cap Guarded = {}
    <3>1. CASE f \in held
      <4>1. CASE f \in Live
        BY <2>1, <4>1 DEF GuardInv
      <4>2. CASE f \notin Live
        BY <3>1, <4>2 DEF Live
      <4> QED  BY <4>1, <4>2
    <3>2. CASE f \notin held
      <4>1. f = ret' /\ ret' # Null
        BY <2>1, <2>2, <3>2 DEF Live
      <4>2. f \in ClearFrames
        BY <1>0, <1>3, <4>1, FirstFree DEF pm_alloc_block, TypeOK
      <4>3. bitmap \cap Cells(f) = {}
        BY <4>2 DEF ClearFrames, pmBitmap_test
      <4> QED  BY <2>1, <4>3 DEF GuardInv
    <3> QED  BY <3>1, <3>2
  <2> QED  BY <1>0, <2>1, <2>2 DEF GuardInv, NothingBeforeBoot
<1>4. CASE TakePointer
  <2>1. phase = "ready"
    BY <1>4 DEF TakePointer, GuardInv, NothingBeforeBoot
  <2>2. phase' = "ready" /\ bitmap' = bitmap /\ UNCHANGED blk_count
    BY <1>4, <2>1 DEF TakePointer
  <2>3. Live' \subseteq Live
    BY <1>4 DEF TakePointer, Live
  <2> QED  BY <1>0, <2>1, <2>2, <2>3, GuardKept DEF GuardInv
<1>5. ASSUME NEW f \in held, NEW offset \in {0, PageBytes - 1}, FreeHeld(f, offset)
      PROVE  GuardInv'
  <2>1. phase = "ready" /\ phase' = "ready" /\ UNCHANGED blk_count /\ f \in Live
        /\ Live' \subseteq Live
    BY <1>5 DEF FreeHeld, Live, GuardInv, NoReply, Null, TypeOK
  <2>2. bitmap \ Cells(f) \subseteq bitmap'
    BY <1>0, <1>5, FreeClears
  <2>3. Guarded \subseteq bitmap'
    BY <2>1, <2>2 DEF GuardInv
  <2> QED  BY <1>0, <2>1, <2>3, GuardKept
<1>6. ASSUME NEW p \in StrayPtrs, FreeStray(p)
      PROVE  GuardInv'
  <2>1. phase = "ready" /\ phase' = "ready" /\ UNCHANGED blk_count /\ Live' = Live
    BY <1>6 DEF FreeStray, Live
  <2>2. Guarded \subseteq bitmap'
    <3>1. CASE p <= BitmapEnd
      BY <1>6, <2>1, <3>1 DEF FreeStray, pm_free_block, GuardInv
    <3>2. CASE ~ (p <= BitmapEnd)
      <4>1. bitmap' = bitmap \ Cells(p \div PageBytes)
        BY <1>6, <3>2 DEF FreeStray, pm_free_block, pmBitmap_unset, CellsOf
      <4>2. Cells(p \div PageBytes) \subseteq CellsOf(Gap)
        BY <1>0, <3>2, StrayInGap DEF CellsOf
      <4> QED  BY <2>1, <4>1, <4>2 DEF GuardInv, Guarded
    <3> QED  BY <3>1, <3>2
  <2> QED  BY <1>0, <2>1, <2>2, GuardKept
<1>7. CASE UNCHANGED vars
  <2>1. Live' = Live /\ bitmap' = bitmap /\ phase' = phase /\ Guarded' = Guarded
    BY <1>7, GuardedFixed DEF vars, Live
  <2> QED  BY <1>0, <1>7, <2>1 DEF GuardInv, NothingBeforeBoot, vars
<1> QED  BY <1>1, <1>2, <1>3, <1>4, <1>5, <1>6, <1>7 DEF Next

(* Whatever pointers into the protected zone are freed, those to the gap     *)
(* behind the bitmap too, and whatever is granted after that, the bits of    *)
(* the zone stay set, but for those of the gap's pages.                      *)
THEOREM GuardedBusy ==
    ASSUME ZoneStraysOnly PROVE Spec => []GuardedStayBusy
<1>1. Init => GuardInv
  BY GarbageAssumption DEF Init, GuardInv, TypeOK, NothingBeforeBoot
<1>2. GuardInv => GuardedStayBusy
  BY DEF GuardInv, GuardedStayBusy, Guarded
<1> QED  BY <1>1, <1>2, GuardStep, PTL DEF Spec

------------------------------------------------------------------------------
(* The bitmap's own pages.  LastProtected divides the number of 64-bit words *)
(* by the bytes of a page, so the zone covers the bitmap only when the words *)
(* fit in one page for each PageBytes of them (below 128 MiB: always).       *)

BitmapFits ==
    BitmapWords * WordBytes <= (BitmapWords \div PageBytes + 1) * PageBytes

(* The bitmap, if it fits, ends at the end of the protected zone at most *)
LEMMA ZoneEnd ==
    ASSUME blk_count \in Nat, BitmapFits
    PROVE  BitmapEnd <= (KernEnd + BitmapWords \div PageBytes + 1) * PageBytes
<1> DEFINE q == BitmapWords \div PageBytes
<1>1. /\ KernEnd \in Nat /\ PageBytes \in Nat /\ PageBytes > 0 /\ q \in Nat
      /\ BitmapWords * WordBytes \in Nat
  BY BitmapExtent, SizesAssumption
<1>2. /\ KernEnd * PageBytes \in Nat
      /\ (KernEnd + q + 1) * PageBytes = KernEnd * PageBytes + (q + 1) * PageBytes
      /\ (q + 1) * PageBytes \in Nat
  BY <1>1
<1> HIDE DEF q
<1>3. BitmapWords * WordBytes <= (q + 1) * PageBytes
  BY DEF q, BitmapFits
<1>4. BitmapEnd <= (KernEnd + q + 1) * PageBytes
  BY <1>1, <1>2, <1>3 DEF BitmapEnd
<1> QED  BY <1>4 DEF q

(* The pages of the bitmap, if it fits, are in the protected zone *)
LEMMA BitmapInZone ==
    ASSUME blk_count \in Nat, BitmapFits PROVE BitmapFrames \subseteq Protected
<1> DEFINE q == BitmapWords \div PageBytes
<1>1. /\ KernEnd \in Nat /\ PageBytes \in Nat /\ PageBytes > 0 /\ q \in Nat
      /\ BitmapWords * WordBytes \in Nat
  BY BitmapExtent, SizesAssumption
<1>2. SUFFICES ASSUME NEW f \in BitmapFrames PROVE f <= KernEnd + q
  BY <1>1, BitmapExtent DEF Protected, LastProtected, BitmapFrames
<1>3. f \in Nat /\ f * PageBytes < BitmapEnd
  BY <1>1, BitmapExtent DEF BitmapFrames
<1>4. BitmapEnd <= (KernEnd + q + 1) * PageBytes
  BY ZoneEnd
<1> HIDE DEF q
<1>5. SUFFICES ASSUME f >= KernEnd + q + 1 PROVE FALSE
  BY <1>1, <1>3
<1>6. f * PageBytes >= (KernEnd + q + 1) * PageBytes
  BY <1>1, <1>3, <1>5
<1>7. f * PageBytes \in Nat /\ (KernEnd + q + 1) * PageBytes \in Nat /\ BitmapEnd \in Nat
  BY <1>1, <1>3, BitmapExtent
<1> QED  BY <1>3, <1>4, <1>6, <1>7

(* No caller is ever given a page that holds words of the bitmap, as long   *)
(* as the bitmap fits in the pages pmBitmapInit counts for it.              *)
THEOREM BitmapSafe ==
    ASSUME KernelStraysOnly PROVE Spec => [](BitmapFits => BitmapNeverGranted)
<1>1. IInv => (BitmapFits => BitmapNeverGranted)
  BY BitmapInZone DEF IInv, TypeOK, ProtectedNeverGranted, BitmapNeverGranted
<1> QED  BY <1>1, Invariance, PTL

------------------------------------------------------------------------------
(* Reserved regions.  While the regions are read, a reserved frame is busy  *)
(* from its region on unless a later usable region clears its mask; after   *)
(* that only the frees clear bits, and a mask that shares a bit with that   *)
(* of a granted frame is the same mask.                                     *)

(* A frame of the low half of a word shares its whole mask or nothing *)
LEMMA SameCells ==
    ASSUME NEW f \in Nat, NEW g \in Nat, Bit(f) < IntBits,
           Cells(f) \cap Cells(g) # {}
    PROVE  Cells(f) = Cells(g)
<1>1. CASE Bit(g) < IntBits
  BY <1>1, SharedCell
<1>2. CASE Bit(g) >= IntBits
  <2>1. /\ g - IntBits \in Nat /\ Bit(g - IntBits) < IntBits
        /\ Cells(g - IntBits) = Cells(g)
    BY <1>2, LowTwin
  <2> QED  BY <2>1, SharedCell
<1>3. Bit(g) \in Nat
  BY DivMod, WordBitsType
<1> QED  BY <1>1, <1>2, <1>3, SizesAssumption

ReservedInv ==
    /\ entry \in 1 .. (Len(mmap) + 1)
    /\ phase = "ready" => entry = Len(mmap) + 1
    /\ \A f \in Nat : Reserved(f, entry - 1) => Cells(f) \subseteq bitmap
    /\ \A f \in Live : ~ Reserved(f, entry - 1)

(* The memory map is a sequence of regions *)
LEMMA MapType ==
    ASSUME TypeOK
    PROVE  /\ mmap \in Seq(MapEntry) /\ Len(mmap) \in Nat
           /\ DOMAIN mmap = 1 .. Len(mmap)
BY MapsAssumption DEF TypeOK

(* Whether a frame is reserved depends on its mask only *)
LEMMA ReservedByMask ==
    ASSUME NEW f, NEW g, NEW n, Cells(f) = Cells(g), Reserved(f, n)
    PROVE  Reserved(g, n)
BY DEF Reserved

(* No region has been read yet: no frame is reserved *)
LEMMA ReservedInit == Init => ReservedInv
<1> SUFFICES ASSUME Init PROVE ReservedInv
  OBVIOUS
<1>1. Len(mmap) \in Nat /\ entry = 1
  BY MapsAssumption DEF Init
<1>2. \A f : ~ Reserved(f, 0)
  BY DEF Reserved
<1> QED  BY <1>1, <1>2 DEF Init, ReservedInv

(* Reading a region marks what it reserves; no allocation or free undoes it *)
LEMMA ReservedStep ==
    KernelStraysOnly /\ IInv /\ IInv' /\ ReservedInv /\ [Next]_vars => ReservedInv'
<1> SUFFICES ASSUME KernelStraysOnly, IInv, IInv', ReservedInv, [Next]_vars
             PROVE  ReservedInv'
  OBVIOUS
<1> USE DEF IInv
<1>0. Len(mmap) \in Nat /\ DOMAIN mmap = 1 .. Len(mmap) /\ entry \in Nat
  BY MapType DEF ReservedInv
<1>1. CASE pmBitmapInit_region
  <2>1. entry \in 1 .. Len(mmap) /\ entry' = entry + 1 /\ mmap' = mmap
        /\ phase' = phase /\ phase # "ready" /\ entry' - 1 = entry
    BY <1>0, <1>1 DEF pmBitmapInit_region
  <2>2. Live' = {}
    BY <2>1 DEF NothingBeforeBoot, Live
  <2>3. ASSUME NEW f \in Nat, Reserved(f, entry) PROVE Cells(f) \subseteq bitmap'
    <3>1. PICK i \in 1 .. entry :
            /\ ~ Usable(mmap[i])
            /\ \E g \in RegionFrames(mmap[i]) : Cells(g) = Cells(f)
            /\ \A k \in (i + 1) .. entry :
                  Usable(mmap[k]) => Cells(f) \cap CellsOf(RegionFrames(mmap[k])) = {}
      BY <2>3 DEF Reserved
    <3>2. CASE i = entry
      <4>1. Cells(f) \subseteq CellsOf(RegionFrames(mmap[entry]))
        BY <3>1, <3>2 DEF CellsOf
      <4> QED  BY <1>1, <3>1, <3>2, <4>1 DEF pmBitmapInit_region, pmBitmap_set
    <3>3. CASE i # entry
      <4>1. i \in 1 .. (entry - 1) /\ entry \in (i + 1) .. entry
            /\ (i + 1) .. (entry - 1) \subseteq (i + 1) .. entry
        BY <1>0, <3>1, <3>3
      <4>2. Reserved(f, entry - 1)
        BY <3>1, <4>1 DEF Reserved
      <4>3. Cells(f) \subseteq bitmap
        BY <4>2 DEF ReservedInv
      <4>4. Usable(mmap[entry]) => Cells(f) \cap CellsOf(RegionFrames(mmap[entry])) = {}
        BY <3>1, <4>1
      <4> QED  BY <1>1, <4>3, <4>4 DEF pmBitmapInit_region, pmBitmap_set, pmBitmap_unset
    <3> QED  BY <3>2, <3>3
  <2>4. \A f \in Nat : Reserved(f, entry - 1)' => Cells(f) \subseteq bitmap'
    BY <2>1, <2>3 DEF Reserved
  <2> QED  BY <1>0, <2>1, <2>2, <2>4 DEF ReservedInv
<1>2. CASE pmBitmapInit_protect
  <2>1. bitmap \subseteq bitmap' /\ entry' = entry /\ mmap' = mmap /\ entry = Len(mmap) + 1
    BY <1>0, <1>2 DEF pmBitmapInit_protect, pmBitmap_set, ReservedInv
  <2>2. Live' = {}
    BY <1>2 DEF pmBitmapInit_protect, NothingBeforeBoot, Live
  <2> QED  BY <2>1, <2>2 DEF ReservedInv, Reserved
<1>3. CASE pm_alloc_block
  <2>1. bitmap \subseteq bitmap' /\ entry' = entry /\ mmap' = mmap /\ phase' = phase
        /\ held' = held
    BY <1>3 DEF pm_alloc_block, pmBitmap_set
  <2>2. ASSUME NEW f \in Live' PROVE ~ Reserved(f, entry - 1)
    <3>1. CASE f \in Live
      BY <3>1 DEF ReservedInv
    <3>2. CASE f \notin Live
      <4>1. f = ret' /\ ret' # Null
        BY <2>1, <2>2, <3>2 DEF Live, TypeOK, NoReply
      <4>2. f \in ClearFrames /\ f \in Nat
        BY <1>3, <4>1, FirstFree DEF pm_alloc_block, TypeOK
      <4>3. Cells(f) \cap bitmap = {} /\ Cells(f) # {}
        BY <4>2, CellsType DEF ClearFrames, Scanned, pmBitmap_test
      <4> QED  BY <4>2, <4>3 DEF ReservedInv
    <3> QED  BY <3>1, <3>2
  <2> QED  BY <2>1, <2>2 DEF ReservedInv, Reserved
<1>4. CASE TakePointer
  <2>1. Live' = Live
    BY <1>4 DEF TakePointer, Live, NoReply, Null, TypeOK
  <2> QED  BY <1>4, <2>1 DEF TakePointer, ReservedInv, Reserved
<1>5. ASSUME NEW f \in held, NEW offset \in {0, PageBytes - 1}, FreeHeld(f, offset)
      PROVE  ReservedInv'
  <2>1. f \in Nat /\ f \in Live /\ Live' \subseteq Live
        /\ entry' = entry /\ mmap' = mmap /\ phase' = phase
    BY <1>5 DEF FreeHeld, TypeOK, Live, NoReply, Null
  <2>2. bitmap \ Cells(f) \subseteq bitmap'
    BY <1>5, FreeClears
  <2>3. ASSUME NEW g \in Nat, Reserved(g, entry - 1) PROVE Cells(g) \subseteq bitmap'
    <3>1. Cells(f) # Cells(g)
      BY <2>1, <2>3, ReservedByMask DEF ReservedInv
    <3>2. Cells(f) \cap Cells(g) = {}
      BY <2>1, <3>1, SameCells DEF OwnedMarked
    <3> QED  BY <2>2, <2>3, <3>2 DEF ReservedInv
  <2> QED  BY <2>1, <2>3 DEF ReservedInv, Reserved
<1>6. ASSUME NEW p \in StrayPtrs, FreeStray(p)
      PROVE  ReservedInv'
  <2>1. UNCHANGED vars
    BY <1>6, StrayIgnored
  <2> QED  BY <2>1 DEF ReservedInv, Reserved, Live, vars
<1>7. CASE UNCHANGED vars
  BY <1>7 DEF ReservedInv, Reserved, Live, vars
<1> QED  BY <1>1, <1>2, <1>3, <1>4, <1>5, <1>6, <1>7 DEF Next

(* For every memory map, in whatever order its regions come and however     *)
(* they overlap or share pages: a frame of a region that is not usable is   *)
(* never handed out, unless a later usable region has a frame of its mask.  *)
THEOREM ReservedSafe ==
    ASSUME KernelStraysOnly PROVE Spec => []ReservedNeverGranted
<1>1. IInv /\ ReservedInv => ReservedNeverGranted
  <2> SUFFICES ASSUME IInv, ReservedInv, NEW f \in Live PROVE ~ Reserved(f, Len(mmap))
    BY DEF ReservedNeverGranted
  <2>1. phase = "ready"
    BY DEF IInv, NothingBeforeBoot, Live
  <2>2. entry - 1 = Len(mmap)
    BY <2>1, MapType DEF ReservedInv, IInv
  <2> QED  BY <2>2 DEF ReservedInv
<1> QED  BY <1>1, ReservedInit, ReservedStep, Invariance, PTL DEF Spec

------------------------------------------------------------------------------
(* Refinement: PMM implements FramePool                                     *)

(* A step that touches the cells of one managed frame only, and keeps that  *)
(* frame managed, keeps the whole pool                                      *)
LEMMA ManagedStep ==
    ASSUME IInv, IInv', phase = "ready", phase' = "ready", Scanned' = Scanned,
           NEW f \in Nat, Bit(f) < IntBits, f \in Scanned,
           f \in Managed, f \in Managed',
           bitmap \ Cells(f) = bitmap' \ Cells(f),
           Live \ {f} = Live' \ {f}
    PROVE  Managed' = Managed
<1>1. ASSUME NEW g \in Scanned, Bit(g) < IntBits, g # f
      PROVE  g \in ClearFrames <=> g \in ClearFrames'
  <2>1. Cells(f) \cap Cells(g) = {}
    BY <1>1, SharedCell DEF Scanned
  <2> QED  BY <2>1, <1>1 DEF ClearFrames, pmBitmap_test
<1>2. \A g : g # f => (g \in Managed <=> g \in Managed')
  BY <1>1 DEF Managed, ClearFrames
<1> QED  BY <1>2

(* Frame 0 is in the protected zone, hence in no pool: null names no frame *)
LEMMA NullNotManaged == IInv /\ phase = "ready" => Null \notin Managed
<1> SUFFICES ASSUME IInv, phase = "ready" PROVE Null \notin Managed
  OBVIOUS
<1>1. Null \in Protected
  BY BitmapExtent DEF Protected, Null, IInv, TypeOK
<1>2. Null \notin Live
  BY <1>1 DEF IInv, ProtectedNeverGranted
<1>3. Cells(Null) \subseteq bitmap /\ Cells(Null) # {}
  BY <1>1, CellsType DEF IInv, ProtectedStayBusy, CellsOf, Null
<1> QED  BY <1>2, <1>3 DEF Managed, ClearFrames, pmBitmap_test

(* The same, after a step *)
LEMMA NullNotManagedNext == (IInv /\ phase = "ready" => Null \notin Managed)'
BY NullNotManaged, PTL

(* The guard of pm_free_block is `<=`: when the bitmap fills its last page to *)
(* the last byte, the first address of the next frame is refused as well, and *)
(* a caller that gives that frame back loses it.  Hence the strict inequality. *)
BitmapLeavesRoom ==
    BitmapWords * WordBytes < (BitmapWords \div PageBytes + 1) * PageBytes

(* An address in a frame above the zone is above the bitmap *)
LEMMA AboveBitmap ==
    ASSUME blk_count \in Nat, BitmapLeavesRoom, NEW f \in Nat \ Protected,
           NEW offset \in 0 .. PageBytes - 1
    PROVE  f * PageBytes + offset > BitmapEnd
<1> DEFINE q == BitmapWords \div PageBytes
<1>1. /\ KernEnd \in Nat /\ PageBytes \in Nat /\ PageBytes > 0 /\ q \in Nat
      /\ BitmapWords * WordBytes \in Nat
  BY BitmapExtent, SizesAssumption
<1>2. f \in Nat /\ f >= KernEnd + q + 1
  BY <1>1, BitmapExtent DEF Protected, LastProtected
<1>3. BitmapWords * WordBytes < (q + 1) * PageBytes
  BY DEF BitmapLeavesRoom
<1> HIDE DEF q
<1> DEFINE X == (KernEnd + q + 1) * PageBytes
           Y == f * PageBytes
<1>4. Y >= X /\ X \in Nat /\ Y \in Nat
  BY <1>1, <1>2
<1>5. X = KernEnd * PageBytes + (q + 1) * PageBytes
  BY <1>1
<1>6. KernEnd * PageBytes \in Nat /\ (q + 1) * PageBytes \in Nat
  BY <1>1
<1>7. BitmapEnd < X /\ BitmapEnd \in Nat
  <2> HIDE DEF X
  <2> QED  BY <1>1, <1>3, <1>5, <1>6, BitmapExtent DEF BitmapEnd
<1> HIDE DEF X, Y
<1>8. offset \in Nat
  BY <1>1
<1>9. Y + offset > BitmapEnd
  BY <1>4, <1>7, <1>8
<1> QED  BY <1>9 DEF Y

(* Every step of the bitmap is a step of the abstract pool, or a stutter *)
LEMMA RefinementStep ==
    KernelStraysOnly /\ IInv /\ IInv' /\ BitmapLeavesRoom /\ [Next]_vars
      => [Promise!Next]_(Promise!vars)
<1> SUFFICES ASSUME KernelStraysOnly, IInv, IInv', BitmapLeavesRoom, [Next]_vars
             PROVE  [Promise!Next]_(Promise!vars)
  OBVIOUS
<1> USE DEF Promise!vars
<1>0. TypeOK /\ TypeOK'
  BY DEF IInv
<1>1. CASE pmBitmapInit_region
  BY <1>1 DEF pmBitmapInit_region, Managed
<1>2. CASE pmBitmapInit_protect
  <2>1. Managed' \in SUBSET Nat
    <3>1. Live' \subseteq Nat
      BY <1>0 DEF Live, TypeOK, NoReply
    <3>2. Scanned' \subseteq Nat
      BY DEF Scanned
    <3>3. ClearFrames' \subseteq Nat
      BY <3>2 DEF ClearFrames
    <3> QED  BY <3>1, <3>3 DEF Managed
  <2>2. Null \notin Managed' /\ phase # "ready" /\ phase' = "ready"
    BY <1>2, NullNotManagedNext DEF pmBitmapInit_protect
  <2>3. Promise!Boot
    BY <1>2, <2>1, <2>2 DEF pmBitmapInit_protect, Promise!Boot
  <2> QED  BY <2>3 DEF Promise!Next
<1>3. CASE pm_alloc_block
  <2>1. /\ phase = "ready" /\ phase' = "ready" /\ held' = held /\ ret = NoReply
        /\ Scanned' = Scanned
    BY <1>3 DEF pm_alloc_block, Scanned, BitmapWords
  <2>2. CASE ret' = Null
    <3>1. ClearFrames = {}
      <4>1. ASSUME ClearFrames # {} PROVE Null \in ClearFrames /\ Bit(Null) < IntBits
        BY <1>0, <1>3, <2>2, <4>1, FirstFree DEF pm_alloc_block, TypeOK
      <4> QED  BY <2>1, <4>1, NullNotManaged DEF Managed
    <3>2. Managed = held /\ Managed' = Managed
      BY <1>3, <2>1, <2>2, <3>1 DEF Managed, Live, pm_alloc_block, ClearFrames
    <3>3. Promise!RefuseAllocation
      BY <2>1, <2>2, <3>2 DEF Promise!RefuseAllocation
    <3> QED  BY <3>3 DEF Promise!Next
  <2>3. CASE ret' # Null
    <3>1. ret' \in ClearFrames /\ ret' \in Nat /\ Bit(ret') < IntBits
      BY <1>0, <1>3, <2>3, FirstFree DEF pm_alloc_block, TypeOK
    <3>2. ret' \in Scanned /\ ret' \in Managed /\ ret' \in Live' /\ ret' \in Managed'
      BY <2>1, <2>3, <3>1 DEF Managed, Live, ClearFrames, NoReply
    <3>3. bitmap' = bitmap \cup Cells(ret')
      BY <1>3, <2>3 DEF pm_alloc_block, pmBitmap_set, CellsOf
    <3>4. Live \ {ret'} = Live' \ {ret'}
      BY <2>1, <2>3 DEF Live
    <3>5. Managed' = Managed
      BY <2>1, <3>1, <3>2, <3>3, <3>4, ManagedStep
    <3>6. ret' \notin held
      BY <2>1 DEF IInv, NoDoubleGrant
    <3>7. Promise!Allocate(ret')
      BY <2>1, <3>2, <3>5, <3>6 DEF Promise!Allocate
    <3> QED  BY <3>2, <3>7 DEF Promise!Next
  <2> QED  BY <2>2, <2>3
<1>4. CASE TakePointer
  <2>1. Live' = Live
    BY <1>4, <1>0 DEF TakePointer, Live, NoReply, Null, TypeOK
  <2>2. Managed' = Managed
    BY <1>4, <2>1 DEF TakePointer, Managed, ClearFrames, Scanned, BitmapWords
  <2>3. Promise!Take
    BY <1>4, <2>2 DEF TakePointer, Promise!Take
  <2> QED  BY <2>3 DEF Promise!Next
<1>5. ASSUME NEW f \in held, NEW offset \in {0, PageBytes - 1}, FreeHeld(f, offset)
      PROVE  [Promise!Next]_(Promise!vars)
  <2>1. /\ phase = "ready" /\ phase' = "ready" /\ ret = NoReply /\ ret' = NoReply
        /\ held' = held \ {f} /\ Scanned' = Scanned
    BY <1>5 DEF FreeHeld, Scanned, BitmapWords
  <2>2. f \in Nat /\ f \in Live /\ offset \in 0 .. PageBytes - 1
    BY <1>0, SizesAssumption DEF TypeOK, Live, NoReply, Null
  <2>3. f \in Scanned /\ Bit(f) < IntBits /\ f \notin Protected
    BY <2>1, <2>2 DEF IInv, OwnedMarked, ProtectedNeverGranted
  <2>4. bitmap' = bitmap \ Cells(f)
    <3>1. f * PageBytes + offset > BitmapEnd
      BY <1>0, <2>2, <2>3, AboveBitmap DEF TypeOK
    <3>2. BitmapEnd \in Nat /\ f * PageBytes + offset \in Nat
      BY <1>0, <2>2, BitmapExtent, SizesAssumption DEF TypeOK
    <3>3. ~ (f * PageBytes + offset <= BitmapEnd)
      BY <3>1, <3>2
    <3>4. (f * PageBytes + offset) \div PageBytes = f
      BY <2>2, AddressFrame
    <3> QED  BY <1>5, <3>3, <3>4 DEF FreeHeld, pm_free_block, pmBitmap_unset, CellsOf
  <2>5. f \in Managed /\ f \in Managed'
    BY <2>1, <2>2, <2>3, <2>4 DEF Managed, ClearFrames, pmBitmap_test
  <2>6. Live \ {f} = Live' \ {f}
    BY <2>1 DEF Live
  <2>7. Managed' = Managed
    BY <2>1, <2>2, <2>3, <2>4, <2>5, <2>6, ManagedStep
  <2>8. Promise!GiveBack(f)
    BY <2>1, <2>7 DEF Promise!GiveBack
  <2> QED  BY <2>8 DEF Promise!Next
<1>6. ASSUME NEW p \in StrayPtrs, FreeStray(p)
      PROVE  [Promise!Next]_(Promise!vars)
  <2>1. UNCHANGED vars
    BY <1>0, <1>6, StrayIgnored
  <2> QED  BY <2>1 DEF vars, Managed, ClearFrames, Scanned, BitmapWords, Live
<1>7. CASE UNCHANGED vars
  BY <1>7 DEF vars, Managed, ClearFrames, Scanned, BitmapWords, Live
<1> QED  BY <1>1, <1>2, <1>3, <1>4, <1>5, <1>6, <1>7 DEF Next

(* While the bitmap does not fill its protected pages, mmap.c keeps *)
(* the promise of an abstract pool of frames: what is free or owned never   *)
(* changes after boot, no frame is lost, invented or owned twice, and null  *)
(* is returned only when every frame of the pool is owned.                  *)
THEOREM Refinement ==
    ASSUME KernelStraysOnly PROVE Spec /\ []BitmapLeavesRoom => ImplementsFramePool
<1>1. Init => Promise!Init
  BY DEF Init, Promise!Init, Managed
<1> QED  BY <1>1, RefinementStep, Invariance, PTL DEF Spec, ImplementsFramePool, Promise!Spec
==============================================================================
