-------------------------------- MODULE MCPMM --------------------------------
(***************************************************************************)
(* Small instances of PMM: ints of 3 bits, words of 6, pages of 4 bytes.   *)
(***************************************************************************)
EXTENDS PMM

Region(base, length, type) == [base |-> base, length |-> length, type |-> type]

(* One usable region, from address 0 *)
FlatMap == << Region(0, 18 * 4, 1) >>

(* The shape a PC reports: low memory that ends inside a page, the rest of  *)
(* the page reserved, a hole, a ROM, extended memory, a reserved end, and   *)
(* a region far above the memory that blk_count counts.                     *)
PCMap == << Region(0, 8 * 4 - 1, 1), Region(8 * 4 - 1, 1, 2),
            Region(10 * 4, 8, 2), Region(12 * 4, 8 * 4, 1),
            Region(20 * 4, 8, 2), Region(40 * 4, 8, 2) >>

(* Regions out of order, the reserved one first and overlapped *)
TangledMap == << Region(13 * 4, 4, 2), Region(9 * 4, 8, 3),
                 Region(6 * 4, 12 * 4, 1), Region(0, 6 * 4, 1),
                 Region(14 * 4, 2, 2) >>

SmallMaps == {FlatMap, PCMap, TangledMap, << >>}
FlatMaps == {FlatMap}
PCMaps == {PCMap}

(* RAM the BIOS left all zeros, all ones, or in between *)
AllCells == (0 .. 7) \X (0 .. WordBits - 1)
SomeGarbage == {{}, AllCells, {c \in AllCells : (c[1] + c[2]) % 2 = 0}}
ZeroRam == {{}}

(* Stray pointers: into the kernel's pages, into the bitmap and to the last  *)
(* byte of its first page                                                    *)
ZonePtrs == {0, KernEnd * PageBytes - 1, KernEnd * PageBytes,
             KernEnd * PageBytes + 2, (KernEnd + 1) * PageBytes - 1}
KernelPtrs == {0, KernEnd * PageBytes - 1, KernEnd * PageBytes}
==============================================================================
