-------------------------------- MODULE MCHeap -------------------------------
(***************************************************************************)
(* Small instances of the heap.  A segment costs a header and one word at  *)
(* least, 56 bytes; a request of 32 bytes leaves a remainder that can or   *)
(* cannot be split off, depending on the segment it is taken from.  The    *)
(* heap begins at an odd word, so that alignment to two words moves some   *)
(* of the blocks.                                                          *)
(***************************************************************************)
EXTENDS AlignedHeap

SmallRequests == {1, 16, 32}
AnyRequests == {8, 16, 24}
TwoWords == {16}
NoAlignment == {}

(* Memory that has bit 63 set nowhere, or in a word that may be a block's, *)
(* before a block that was moved up, or the last of a header               *)
NoWords == {}
SomeWords == {HeapAddr + 14}
ClearOnly == {[w \in NoWords |-> Null]}
ClearOrSet == {[w \in NoWords |-> Null], [w \in SomeWords |-> HeapAddr]}
==============================================================================
