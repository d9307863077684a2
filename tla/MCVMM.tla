-------------------------------- MODULE MCVMM --------------------------------
(***************************************************************************)
(* A small instance of VMM: tables of two entries, the boot code's four    *)
(* tables in frames 1 to 4 as paging.asm lays them out, and client pages   *)
(* that part from the kernel's at the PD and at the PML4.                  *)
(***************************************************************************)
EXTENDS VMM

TwoIndices == {0, 1}
FirstFrames == <<1, 2, 3, 4>>
Identity == [i \in TwoIndices |-> i]

(* Frames that held an old page table: present entries to the boot's PT *)
OldTable == [frame |-> 4, attrib |-> {"P", "W"}]

Kernel == <<0, 0, 0, 0>>
Stack == <<0, 0, 0, 1>>

(* Two pages of one page table, and one that parts from them at the PML4 *)
Spread == {<<0, 0, 1, 0>>, <<0, 0, 1, 1>>, <<1, 0, 0, 0>>}

(* PTE_RO_X; PTE_RW_X is what vm_map_page uses *)
ReadOnly == {{"P"}}
==============================================================================
