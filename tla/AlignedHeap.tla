----------------------------- MODULE AlignedHeap -----------------------------
(***************************************************************************)
(* The heap with alignedAlloc, src/heap.c.  What alignedAlloc returns lies *)
(* inside a segment's data, behind a word (an alignedmemseghdr) that has   *)
(* bit 63 set and the address of the segment's header below.  free and     *)
(* realloc look at that bit of the word before any block they are given:   *)
(* for a block of malloc, the last word of the header, of which the header *)
(* itself writes the low half only (isFree).                               *)
(*                                                                         *)
(* Callers write all of what they asked for, and nothing else.  What they  *)
(* write, and what the memory held before the heap was made, may have bit  *)
(* 63 set in any word.  Addresses are below 4 GiB.                         *)
(***************************************************************************)
EXTENDS Heap

CONSTANTS
    Alignments,             \* what callers ask alignedAlloc for, in bytes
    Contents                \* what memory may hold: the words with bit 63 set
                            \* and what is below it in each

ASSUME AlignmentAssumption == Alignments \subseteq Nat \ {0}
ASSUME ContentsAssumption == \A c \in Contents : DOMAIN c \subseteq Nat

VARIABLES
    marked,                 \* the words that have bit 63 set: what is below it
    given                   \* what callers were given: <<[ptr, size], ...>>,
                            \* in the order of blocks

alignedVars == <<vars, marked, given>>

------------------------------------------------------------------------------

Words(from, n) == from .. from + n - 1

(* A header that is written leaves the high half of its last word as it is, *)
(* and of the address nothing: isFree is 0 in a block that is in use.       *)
Written(m, headers) ==
    [w \in DOMAIN m \ UNION {Words(h, HdrWords - 1) : h \in headers} |->
        IF \E h \in headers : w = h + HdrWords - 1 THEN Null ELSE m[w]]

(* The headers that the step writes anew *)
NewHeaders == DOMAIN memory' \ DOMAIN memory

(* The caller writes data to the n words it was given at ptr, if it was     *)
(* given any                                                                *)
Filled(m, ptr, n, data) ==
    LET block == IF ptr = Null THEN {} ELSE Words(ptr, n)
    IN  [w \in (DOMAIN m \ block) \cup (DOMAIN data \cap block) |->
            IF w \in block THEN data[w] ELSE m[w]]

Give(list, ptr, size) ==
    IF ptr = Null THEN list ELSE Append(list, [ptr |-> ptr, size |-> size])

(* What free and realloc take for the header of the block at ptr *)
SegmentOf(ptr) == IF ptr - 1 \in DOMAIN marked THEN marked[ptr - 1] ELSE ptr - HdrWords

(* initHeap writes one header on what the memory holds *)
AlignedInit ==
    /\ Init
    /\ \E ram \in Contents : marked = Written(ram, {HeapAddr})
    /\ given = <<>>

(* malloc, and a caller that fills the block *)
malloc_(bytes, data) ==
    /\ malloc(bytes)
    /\ given' = Give(given, ret', Aligned(bytes))
    /\ marked' = Filled(Written(marked, NewHeaders), ret', Aligned(bytes), data)

(* The first address from addr on that is a multiple of alignment *)
Up(addr, alignment) ==
    IF addr % alignment = 0 THEN addr ELSE addr - (addr % alignment) + alignment

(* Mutant: the room to move the block up in is forgotten *)
alignedAlloc_NoRoom(bytesOfAlignment, bytes, data) ==
    LET alignment == Aligned(bytesOfAlignment)
        size == Aligned(bytes)
        ptr == Up(ret', alignment)
        clean == Filled(Written(marked, NewHeaders), ptr, size, data)
    IN  /\ malloc(bytes)
        /\ given' = Give(given, ptr, size)
        /\ marked' = IF ptr = ret' THEN clean
                     ELSE [w \in DOMAIN clean \cup {ptr - 1} |->
                             IF w = ptr - 1 THEN ret' - HdrWords ELSE clean[w]]

(* Mutant: the header before the block is not written *)
alignedAlloc_NoHeader(bytesOfAlignment, bytes, data) ==
    LET alignment == Aligned(bytesOfAlignment)
        size == Aligned(bytes)
        ptr == Up(ret', alignment)
    IN  /\ malloc(WordBytes * (size + alignment))
        /\ given' = Give(given, ptr, size)
        /\ marked' = Filled(Written(marked, NewHeaders), ptr, size, data)

alignedAlloc(bytesOfAlignment, bytes, data) ==
    LET alignment == Aligned(bytesOfAlignment)
        size == Aligned(bytes)
        ptr == Up(ret', alignment)
        clean == Filled(Written(marked, NewHeaders), ptr, size, data)
    IN  /\ malloc(WordBytes * (size + alignment))
        /\ given' = Give(given, ptr, size)
        /\ marked' = IF ptr = ret' THEN clean
                     ELSE [w \in DOMAIN clean \cup {ptr - 1} |->
                             IF w = ptr - 1 THEN ret' - HdrWords ELSE clean[w]]

(* Whether free goes to the segment of the block.  Freeing what is no       *)
(* segment is not modelled: what comes after it is nobody's guess.          *)
IsSegment(i) == SegmentOf(given[i].ptr) = blocks[i].addr - HdrWords

free_(i) ==
    /\ IsSegment(i)
    /\ free(i)
    /\ given' = RemoveAt(given, i)
    /\ UNCHANGED marked

(* The new block is malloc's, aligned or not *)
realloc_(i, bytes, data) ==
    /\ IsSegment(i)
    /\ realloc(i, bytes)
    /\ given' = Give(RemoveAt(given, i), ret', Aligned(bytes))
    /\ marked' = Filled(Written(marked, NewHeaders), ret', Aligned(bytes), data)

AlignedNext ==
    \/ \E bytes \in Requests, data \in Contents : malloc_(bytes, data)
    \/ \E alignment \in Alignments, bytes \in Requests, data \in Contents :
         alignedAlloc(alignment, bytes, data)
    \/ \E i \in DOMAIN blocks : free_(i)
    \/ \E i \in DOMAIN blocks, bytes \in Requests, data \in Contents :
         realloc_(i, bytes, data)

AlignedSpec == AlignedInit /\ [][AlignedNext]_alignedVars

------------------------------------------------------------------------------
(* Properties *)

(* What callers were given lies inside the segment it was cut from, however *)
(* far alignment moved it up: nobody writes over the next header.           *)
GivenInside ==
    \A i \in DOMAIN blocks :
        /\ given[i].ptr >= blocks[i].addr
        /\ given[i].ptr + given[i].size <= blocks[i].addr + memory[blocks[i].addr - HdrWords].memLength

(* free and realloc find the segment of every block that alignedAlloc moved  *)
(* up: the word before it survives whatever is allocated, freed and written  *)
(* elsewhere.                                                                *)
MovedFound ==
    \A i \in DOMAIN blocks : given[i].ptr # blocks[i].addr => IsSegment(i)

(* "Warning : realloc() doesn't preserve alignment.", kern.c:96: that is    *)
(* all there is to be warned of, and free and realloc find the segment of   *)
(* every block.  Not so of a block of malloc whose header was laid over a   *)
(* word with bit 63 set (Heap_stale.cfg).                                   *)
FreeFindsSegment == \A i \in DOMAIN blocks : IsSegment(i)
===============================================================================
