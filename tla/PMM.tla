--------------------------------- MODULE PMM ---------------------------------
(***************************************************************************)
(* The physical memory manager of the kernel, src/mmap.c: a bitmap with    *)
(* one bit per 4 KiB frame, built at the first page above the kernel image *)
(* from the BIOS memory map, and pm_alloc_block / pm_free_block on top.    *)
(*                                                                         *)
(* A bit of the bitmap is a pair <<i, j>>, bit j of pmBitmapAddr[i], and   *)
(* the variable bitmap is the set of the bits that are 1.  The code builds *)
(* its masks as `1 << (bit % 64)`: an int, so the shift count is taken     *)
(* modulo IntBits (32; x86 `shl`, the build being gcc without              *)
(* optimisation) and the result is sign-extended to the 64-bit word.       *)
(* Addresses are byte addresses; a frame is an address divided by          *)
(* PageBytes.                                                              *)
(***************************************************************************)
EXTENDS Integers, Sequences

CONSTANTS
    IntBits,     \* bits of an int (32)
    WordBytes,   \* bytes of a u64 (8)
    PageBytes,   \* bytes of a frame (0x1000)
    KernEnd,     \* the frame of _kernend: the kernel is below, the bitmap at it
    MemMaps,     \* the memory maps the BIOS may report: sequences of regions
    Garbage,     \* what the bitmap's RAM may hold before pmBitmapInit
    StrayPtrs    \* what callers may pass to pm_free_block without holding it

WordBits == 2 * IntBits

MapEntry == [base : Nat, length : Nat, type : Nat]

ASSUME SizesAssumption ==
    /\ IntBits \in Nat \ {0}
    /\ WordBytes \in Nat \ {0}
    /\ PageBytes \in Nat \ {0}
    /\ KernEnd \in Nat
ASSUME MapsAssumption == \A m \in MemMaps : m \in Seq(MapEntry)
ASSUME GarbageAssumption == \A g \in Garbage : g \subseteq Nat \X (0 .. WordBits - 1)
ASSUME StrayAssumption == StrayPtrs \subseteq Nat

VARIABLES
    mmap,        \* the table the boot sector left at 0x5000
    phase,       \* "regions" in pmBitmapInit, "ready" after it
    entry,       \* the region pmBitmapInit looks at
    blk_count,
    bitmap,
    held,        \* the frames the callers own
    ret          \* what pm_alloc_block returned, until the caller stores it

vars == <<mmap, phase, entry, blk_count, bitmap, held, ret>>

NoReply == -1    \* ret when no pointer is on its way to a caller
Null == 0        \* frame 0: the null pointer

------------------------------------------------------------------------------
(* Bits and masks *)

Word(f) == f \div WordBits
Bit(f) == f % WordBits

(* Mutant: the mask reaches one bit past the word *)
Mask_TooWide(j) ==
    LET k == IF j < IntBits THEN j ELSE j - IntBits
    IN  IF k = IntBits - 1 THEN k .. WordBits ELSE {k}

(* The bits of `1 << j` in a u64, for j in 0 .. WordBits - 1: the count     *)
(* wraps at the width of an int, and the int's sign bit fills the high half *)
Mask(j) ==
    LET k == IF j < IntBits THEN j ELSE j - IntBits
    IN  IF k = IntBits - 1 THEN k .. (WordBits - 1) ELSE {k}

Cells(f) == {Word(f)} \X Mask(Bit(f))
CellsOf(F) == UNION {Cells(f) : f \in F}

pmBitmap_set(b, F) == b \cup CellsOf(F)
pmBitmap_unset(b, F) == b \ CellsOf(F)
pmBitmap_test(b, f) == b \cap Cells(f) # {}

------------------------------------------------------------------------------
(* The memory map *)

Pages(r) == (r.length + PageBytes - 1) \div PageBytes
RegionFrames(r) ==
    LET first == r.base \div PageBytes IN first .. (first + Pages(r) - 1)
Usable(r) == r.type = 1

usableMemRegions == SelectSeq(mmap, Usable)

(* The first of the longest usable regions, which kern.c gives to the heap; *)
(* the empty set of frames when the map has none (a null pointer there).    *)
LargestUsableFrames ==
    UNION {RegionFrames(usableMemRegions[i]) :
             i \in {k \in DOMAIN usableMemRegions :
                      \A l \in DOMAIN usableMemRegions :
                        IF l < k
                        THEN usableMemRegions[l].length < usableMemRegions[k].length
                        ELSE usableMemRegions[l].length <= usableMemRegions[k].length}}

------------------------------------------------------------------------------
(* The bitmap's own extent, and what pmBitmapInit reserves for it *)

BitmapWords == blk_count \div WordBits
BitmapEnd == KernEnd * PageBytes + BitmapWords * WordBytes

LastProtected == KernEnd + BitmapWords \div PageBytes
Protected == 0 .. LastProtected

Init ==
    /\ mmap \in MemMaps
    /\ phase = "regions"
    /\ entry = 1
    /\ blk_count = 0
    /\ bitmap \in Garbage
    /\ held = {}
    /\ ret = NoReply

(* Mutant: regions that are not usable are skipped *)
pmBitmapInit_region_UsableOnly ==
    /\ phase = "regions"
    /\ entry \in DOMAIN mmap
    /\ LET r == mmap[entry] IN
         /\ bitmap' = IF Usable(r) THEN pmBitmap_unset(bitmap, RegionFrames(r))
                                   ELSE bitmap
         /\ blk_count' = blk_count + Pages(r)
    /\ entry' = entry + 1
    /\ UNCHANGED <<mmap, phase, held, ret>>

(* One turn of the outer loop of pmBitmapInit *)
pmBitmapInit_region ==
    /\ phase = "regions"
    /\ entry \in DOMAIN mmap
    /\ LET r == mmap[entry] IN
         /\ bitmap' = IF Usable(r) THEN pmBitmap_unset(bitmap, RegionFrames(r))
                                   ELSE pmBitmap_set(bitmap, RegionFrames(r))
         /\ blk_count' = blk_count + Pages(r)
    /\ entry' = entry + 1
    /\ UNCHANGED <<mmap, phase, held, ret>>

(* Mutant: `<` for `<=` in the last loop *)
pmBitmapInit_protect_OneShort ==
    /\ phase = "regions"
    /\ entry \notin DOMAIN mmap
    /\ bitmap' = pmBitmap_set(bitmap, Protected \ {LastProtected})
    /\ phase' = "ready"
    /\ UNCHANGED <<mmap, entry, blk_count, held, ret>>

(* The last loop of pmBitmapInit: the pages of the kernel and the bitmap *)
pmBitmapInit_protect ==
    /\ phase = "regions"
    /\ entry \notin DOMAIN mmap
    /\ bitmap' = pmBitmap_set(bitmap, Protected)
    /\ phase' = "ready"
    /\ UNCHANGED <<mmap, entry, blk_count, held, ret>>

------------------------------------------------------------------------------
(* Allocation *)

(* The frames the scan finds clear: whole words only, in frame order.  A    *)
(* word that is all ones, which the code skips, has no clear frame.         *)
Scanned == 0 .. (BitmapWords * WordBits - 1)
ClearFrames == {f \in Scanned : ~ pmBitmap_test(bitmap, f)}

pmBitmap_first_free ==
    IF ClearFrames = {} THEN Null
    ELSE CHOOSE f \in ClearFrames : \A g \in ClearFrames : f <= g

(* Mutant: the frame is not marked busy *)
pm_alloc_block_NotMarked ==
    /\ phase = "ready" /\ ret = NoReply
    /\ ret' = pmBitmap_first_free
    /\ UNCHANGED <<mmap, phase, entry, blk_count, bitmap, held>>

pm_alloc_block ==
    /\ phase = "ready" /\ ret = NoReply
    /\ ret' = pmBitmap_first_free
    /\ bitmap' = IF ret' = Null THEN bitmap ELSE pmBitmap_set(bitmap, {ret'})
    /\ UNCHANGED <<mmap, phase, entry, blk_count, held>>

(* The caller of pm_alloc_block stores the pointer, unless it is null *)
TakePointer ==
    /\ ret # NoReply
    /\ held' = IF ret = Null THEN held ELSE held \cup {ret}
    /\ ret' = NoReply
    /\ UNCHANGED <<mmap, phase, entry, blk_count, bitmap>>

(* Mutant: the frame after the one that contains p is freed *)
pm_free_block_RoundsUp(p) ==
    bitmap' = IF p <= BitmapEnd THEN bitmap
              ELSE pmBitmap_unset(bitmap, {(p + PageBytes - 1) \div PageBytes})

(* Mutant: no zone is protected *)
pm_free_block_NoGuard(p) == bitmap' = pmBitmap_unset(bitmap, {p \div PageBytes})

pm_free_block(p) ==
    bitmap' = IF p <= BitmapEnd THEN bitmap
              ELSE pmBitmap_unset(bitmap, {p \div PageBytes})

(* A caller gives back a frame it holds, by any address inside it *)
FreeHeld(f, offset) ==
    /\ phase = "ready" /\ ret = NoReply
    /\ f \in held
    /\ pm_free_block(f * PageBytes + offset)
    /\ held' = held \ {f}
    /\ UNCHANGED <<mmap, phase, entry, blk_count, ret>>

(* A caller passes a pointer it never got, as kern.c does with 0x2000 *)
FreeStray(p) ==
    /\ phase = "ready" /\ ret = NoReply
    /\ p \div PageBytes \notin held
    /\ pm_free_block(p)
    /\ UNCHANGED <<mmap, phase, entry, blk_count, held, ret>>

Next ==
    \/ pmBitmapInit_region
    \/ pmBitmapInit_protect
    \/ pm_alloc_block
    \/ TakePointer
    \/ \E f \in held, offset \in {0, PageBytes - 1} : FreeHeld(f, offset)
    \/ \E p \in StrayPtrs : FreeStray(p)

Spec == Init /\ [][Next]_vars

------------------------------------------------------------------------------
(* Properties *)

(* The frames that callers own or that are on their way to one *)
Live == held \cup ({ret} \ {NoReply, Null})

TypeOK ==
    /\ mmap \in MemMaps
    /\ phase \in {"regions", "ready"}
    /\ entry \in Nat \ {0}
    /\ blk_count \in Nat
    /\ bitmap \subseteq Nat \X (0 .. WordBits - 1)
    /\ held \subseteq Nat
    /\ ret \in Nat \cup {NoReply}

(* pm_alloc_block never hands out a frame that a caller still owns, although *)
(* two frames of every word share each mask and the last mask of an int      *)
(* covers the whole high half of the word.                                   *)
NoDoubleGrant == ret \notin held

(* The pages the last loop of pmBitmapInit marks, the kernel's among them,   *)
(* are never handed out, whatever was allocated and freed before, if nobody  *)
(* frees a pointer into the gap between the bitmap's end and its page's.     *)
ProtectedNeverGranted == phase = "ready" => Live \cap Protected = {}

(* The frames whose bytes hold the words pmBitmap_first_free scans *)
BitmapFrames ==
    {f \in KernEnd .. (BitmapEnd \div PageBytes) : f * PageBytes < BitmapEnd}

(* No caller is given a page of the bitmap itself ("make the pages occupied  *)
(* by kernel and by bitmap busy", mmap.c:90): it would overwrite the         *)
(* allocator's books.  So it is while the bitmap is one page; from 128 MiB   *)
(* of memory on it is not (PMM_bitmap.cfg).                                  *)
BitmapNeverGranted == phase = "ready" => Live \cap BitmapFrames = {}

(* A frame of a region that is not usable, such that no later usable region  *)
(* has a frame of the same mask, is never handed out.                        *)
Reserved(f, n) ==
    \E i \in 1 .. n :
        /\ ~ Usable(mmap[i])
        /\ \E g \in RegionFrames(mmap[i]) : Cells(g) = Cells(f)
        /\ \A k \in (i + 1) .. n :
              Usable(mmap[k]) => Cells(f) \cap CellsOf(RegionFrames(mmap[k])) = {}

ReservedNeverGranted == \A f \in Live : ~ Reserved(f, Len(mmap))

(* The frames that are free or owned.  PMM implements the promise of         *)
(* FramePool for them: exclusive ownership, no frame lost or invented by any *)
(* sequence of allocations and frees, "out of memory" only when all of them  *)
(* are owned.                                                                *)
Managed == IF phase = "ready"
           THEN {f \in ClearFrames : Bit(f) < IntBits} \cup Live ELSE {}

Promise == INSTANCE FramePool
             WITH booted <- (phase = "ready"), pool <- Managed, held <- held,
                  reply <- ret, NoReply <- NoReply, OutOfMemory <- Null

ImplementsFramePool == Promise!Spec

(* The frames of the zone with addresses behind the bitmap: mmap.c:122 lets  *)
(* a pointer to one of those through.                                        *)
Gap == {f \in Protected : (f + 1) * PageBytes - 1 > BitmapEnd}

(* Whatever is freed, by pointers into the protected zone too, the pages of  *)
(* the zone stay busy: all but those of the gap, and the frames that share   *)
(* their masks.                                                              *)
GuardedStayBusy ==
    phase = "ready" => CellsOf(Protected) \ CellsOf(Gap) \subseteq bitmap

(* "Does nothing if we try to free a protected zone (including kernel and    *)
(* bitmap)", mmap.h:37: whatever is freed, those pages stay busy.  Not so of *)
(* the gap (PMM_stray.cfg).                                                  *)
ProtectedStayBusy == phase = "ready" => CellsOf(Protected) \subseteq bitmap

(* "@return absolute address or nullptr if out of memory", mmap.h:34: a null *)
(* pointer means that every usable page above the protected zone is owned.   *)
UsableFrames == UNION {RegionFrames(usableMemRegions[i]) :
                         i \in DOMAIN usableMemRegions}

NullMeansOutOfMemory == ret = Null => UsableFrames \ Protected \subseteq held

(* kern.c gives the largest usable region to the heap ("bytes at 0x.. as     *)
(* heap", kern.c:93) before it builds the bitmap: no page of it may be       *)
(* handed out.                                                               *)
HeapNeverGranted == Live \cap LargestUsableFrames = {}
==============================================================================
