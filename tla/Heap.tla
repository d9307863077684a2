-------------------------------- MODULE Heap ---------------------------------
(***************************************************************************)
(* The kernel heap, src/heap.c: segments, each behind a header, linked     *)
(* twice: in address order (nextSeg, prevSeg) and in a free list           *)
(* (nextFreeSeg, prevFreeSeg) that allocated segments keep hints into.     *)
(*                                                                         *)
(* Addresses and lengths are in words of 8 bytes: malloc rounds every size *)
(* up to one, so headers and blocks always begin at a word.  Memory is the *)
(* set of headers a chain of pointers can still reach from firstFreeMemSeg,*)
(* from the heap's base or from a caller's block; a header that a caller's *)
(* block covers is gone, its words are the caller's data.  free is modelled*)
(* for headers whose padding has bit 63 clear (not taken for a block of    *)
(* alignedAlloc).                                                          *)
(***************************************************************************)
EXTENDS Integers, Sequences, SequencesExt, FiniteSetsExt

CONSTANTS
    HeapAddr, HeapLength,   \* what kern.c passes to initHeap
    Requests,               \* the sizes in bytes that callers ask for
    MaxBlocks,              \* bound: blocks a caller holds at once
    AnyOrder                \* may a caller allocate while a freed block lies
                            \* below one in use?

WordBytes == 8
HdrWords == 6               \* sizeof(memseghdr), in words
Null == 0

ASSUME HeapAssumption ==
    /\ HeapAddr \in Nat \ {0}
    /\ HeapLength \in Nat /\ HeapLength > HdrWords
    /\ Requests \subseteq Nat \ {0}
    /\ MaxBlocks \in Nat
    /\ AnyOrder \in BOOLEAN

VARIABLES
    memory,                 \* the headers, by address
    firstFreeMemSeg,
    blocks,                 \* what the callers hold: <<[addr, size], ...>>
    ret                     \* what the last call returned

vars == <<memory, firstFreeMemSeg, blocks, ret>>

------------------------------------------------------------------------------
(* Headers *)

memseghdr == [memLength : Nat, nextSeg : Nat, prevSeg : Nat,
              nextFreeSeg : Nat, prevFreeSeg : Nat, isFree : BOOLEAN]

(* What a header reads as once a caller's data lies over it *)
Overwritten == [memLength |-> 0, nextSeg |-> Null, prevSeg |-> Null,
                nextFreeSeg |-> Null, prevFreeSeg |-> Null, isFree |-> FALSE]

At(m, a) == IF a \in DOMAIN m THEN m[a] ELSE Overwritten

(* m with field f of the header at a set to v: nothing when a is null *)
Put(m, a, f, v) == IF a \in DOMAIN m THEN [m EXCEPT ![a][f] = v] ELSE m

Pointers(h) == {h.nextSeg, h.prevSeg, h.nextFreeSeg, h.prevFreeSeg} \ {Null}

(* What the roots lead to: every address a in the domain of leads is        *)
(* followed to those in leads[a].                                           *)
Closure(leads, roots) ==
    LET reach[k \in 0 .. Cardinality(DOMAIN leads)] ==
          IF k = 0 THEN roots
          ELSE reach[k - 1] \cup
               UNION {leads[a] : a \in reach[k - 1] \cap DOMAIN leads}
    IN  reach[Cardinality(DOMAIN leads)]

Reached(m, roots) == Closure([a \in DOMAIN m |-> Pointers(m[a])], roots)

Roots(first, held) ==
    {HeapAddr} \cup ({first} \ {Null}) \cup {b.addr - HdrWords : b \in held}

Covered(a, held) ==
    \E b \in held : a < b.addr + b.size /\ b.addr < a + HdrWords

(* The headers that still matter, given who holds what *)
Remembered(m, first, held) ==
    LET kept == {a \in DOMAIN m : a \in Reached(m, Roots(first, held))
                                  /\ ~ Covered(a, held)}
    IN  [a \in kept |-> m[a]]

------------------------------------------------------------------------------
(* malloc *)

Aligned(bytes) == (bytes + WordBytes - 1) \div WordBytes

(* The segment the search stops at: the first of the free list that is long *)
(* enough, or null at its end.                                              *)
Hops(m) == 0 .. Cardinality(DOMAIN m)
FreeList(m, first) ==
    LET walk[k \in Hops(m)] ==
          IF k = 0 THEN first ELSE At(m, walk[k - 1]).nextFreeSeg
    IN  walk

Stops(m, first, size) ==
    {k \in Hops(m) : LET s == FreeList(m, first)[k]
                     IN  s = Null \/ At(m, s).memLength >= size}

Fit(m, first, size) == FreeList(m, first)[Min(Stops(m, first, size))]

(* Mutant: the room the new header takes is forgotten *)
Split_NoRoomForHeader(m, s, size) ==
    LET tail == s + HdrWords + size
        old  == m[s]
        hdr  == [old EXCEPT !.memLength = @ - (HdrWords + size), !.prevSeg = s,
                            !.isFree = TRUE]
    IN  IF old.memLength > size
        THEN [a \in DOMAIN m \cup {tail} |->
                CASE a = tail -> hdr
                  [] a = s    -> [old EXCEPT !.nextFreeSeg = tail, !.nextSeg = tail]
                  [] OTHER    -> m[a]]
        ELSE m

(* Cut the tail off a segment that has room for one more header and a word *)
Split(m, s, size) ==
    LET tail == s + HdrWords + size
        old  == m[s]
        hdr  == [memLength |-> old.memLength - (HdrWords + size),
                 nextSeg |-> old.nextSeg, prevSeg |-> s,
                 nextFreeSeg |-> old.nextFreeSeg, prevFreeSeg |-> old.prevFreeSeg,
                 isFree |-> TRUE]
    IN  IF old.memLength > size + HdrWords
        THEN [a \in DOMAIN m \cup {tail} |->
                CASE a = tail -> hdr
                  [] a = s    -> [old EXCEPT !.nextFreeSeg = tail, !.nextSeg = tail]
                  [] OTHER    -> m[a]]
        ELSE m

(* Take a segment off the free list, as far as its neighbours know it *)
Unlink(m, s, size) ==
    LET m1 == [m EXCEPT ![s].isFree = FALSE, ![s].memLength = size]
        m2 == Put(m1, m1[s].prevFreeSeg, "nextFreeSeg", m1[s].nextFreeSeg)
        m3 == Put(m2, m2[s].nextFreeSeg, "prevFreeSeg", m2[s].prevFreeSeg)
        m4 == Put(m3, m3[s].prevSeg, "nextFreeSeg", m3[s].nextFreeSeg)
    IN  Put(m4, m4[s].nextSeg, "prevFreeSeg", m4[s].prevFreeSeg)

(* Mutant: the head of the free list stays on the segment handed out *)
AfterMalloc_KeepsHead(m, first, size) ==
    LET s    == Fit(m, first, size)
        m1   == Split(m, s, size)
    IN  IF s = Null THEN [memory |-> m, first |-> first, addr |-> Null]
        ELSE [memory |-> Unlink(m1, s, size), first |-> first, addr |-> s + HdrWords]

(* The heap after malloc: its memory, the list's head, the address returned *)
AfterMalloc(m, first, size) ==
    LET s    == Fit(m, first, size)
        m1   == Split(m, s, size)
    IN  IF s = Null THEN [memory |-> m, first |-> first, addr |-> Null]
        ELSE [memory |-> Unlink(m1, s, size),
              first  |-> IF s = first THEN m1[s].nextFreeSeg ELSE first,
              addr   |-> s + HdrWords]

------------------------------------------------------------------------------
(* free *)

(* Mutant: the segment after the merged ones still points at the absorbed one *)
Combine_NoBackPointer(m, lo, hi) ==
    LET m1 == [m EXCEPT ![lo].memLength = @ + At(m, hi).memLength + HdrWords,
                        ![lo].nextSeg = At(m, hi).nextSeg,
                        ![lo].nextFreeSeg = At(m, hi).nextFreeSeg]
        m2 == Put(m1, At(m1, hi).nextSeg, "prevFreeSeg", lo)
    IN  Put(m2, At(m2, hi).nextFreeSeg, "prevFreeSeg", lo)

(* Merge two segments: the code takes them for neighbours, lower address first *)
Combine(m, lo, hi) ==
    LET m1 == [m EXCEPT ![lo].memLength = @ + At(m, hi).memLength + HdrWords,
                        ![lo].nextSeg = At(m, hi).nextSeg,
                        ![lo].nextFreeSeg = At(m, hi).nextFreeSeg]
        m2 == Put(m1, At(m1, hi).nextSeg, "prevSeg", lo)
        m3 == Put(m2, At(m2, hi).nextSeg, "prevFreeSeg", lo)
    IN  Put(m3, At(m3, hi).nextFreeSeg, "prevFreeSeg", lo)

combinefreesegs(m, a, b) ==
    CASE a = b \/ a = Null \/ b = Null -> m
      [] a < b -> Combine(m, a, b)
      [] OTHER -> Combine(m, b, a)

(* Tell the free segments the freed one has hints to that it is nearer *)
RelinkFree(m, s) ==
    LET n  == m[s].nextFreeSeg
        m1 == IF n # Null /\ At(m, n).prevFreeSeg < s
              THEN Put(m, n, "prevFreeSeg", s) ELSE m
        p  == m1[s].prevFreeSeg
    IN  IF p # Null /\ At(m1, p).nextFreeSeg > s
        THEN Put(m1, p, "nextFreeSeg", s) ELSE m1

(* Merge with the segment after, then with the segment before *)
MergeNext(m, s) ==
    LET n == m[s].nextSeg
        m1 == Put(m, n, "prevSeg", s)
    IN  IF n # Null /\ At(m1, n).isFree THEN combinefreesegs(m1, s, n) ELSE m1

(* Mutant: the segment before is not merged *)
MergePrev_Never(m, s) == Put(m, m[s].prevSeg, "nextSeg", s)

MergePrev(m, s) ==
    LET p == m[s].prevSeg
        m1 == Put(m, p, "nextSeg", s)
    IN  IF p # Null /\ At(m1, p).isFree THEN combinefreesegs(m1, s, p) ELSE m1

(* Mutant: the head of the free list stays where it is *)
AfterFree_KeepsHead(m, first, addr) ==
    LET s  == addr - HdrWords
        m1 == RelinkFree([m EXCEPT ![s].isFree = TRUE], s)
    IN  [memory |-> MergePrev(MergeNext(m1, s), s), first |-> first]

AfterFree(m, first, addr) ==
    LET s  == addr - HdrWords
        m1 == RelinkFree([m EXCEPT ![s].isFree = TRUE], s)
    IN  [memory |-> MergePrev(MergeNext(m1, s), s),
         first  |-> IF s < first THEN s ELSE first]

------------------------------------------------------------------------------
(* The heap and its callers *)

initHeap ==
    /\ memory = [a \in {HeapAddr} |->
                   [memLength |-> HeapLength - HdrWords, nextSeg |-> Null,
                    prevSeg |-> Null, nextFreeSeg |-> Null, prevFreeSeg |-> Null,
                    isFree |-> TRUE]]
    /\ firstFreeMemSeg = HeapAddr

Init == initHeap /\ blocks = << >> /\ ret = HeapAddr

(* The blocks in use lie side by side from the heap's base *)
NoHole ==
    \A b \in Range(blocks) :
        \/ b.addr = HeapAddr + HdrWords
        \/ \E c \in Range(blocks) : c.addr + c.size + HdrWords = b.addr

MayAllocate == (AnyOrder \/ NoHole) /\ Len(blocks) < MaxBlocks

Block(addr, size) == IF addr = Null THEN << >> ELSE <<[addr |-> addr, size |-> size]>>

malloc(bytes) ==
    LET after == AfterMalloc(memory, firstFreeMemSeg, Aligned(bytes)) IN
    /\ MayAllocate
    /\ Stops(memory, firstFreeMemSeg, Aligned(bytes)) # {}
    /\ ret' = after.addr
    /\ blocks' = blocks \o Block(after.addr, Aligned(bytes))
    /\ firstFreeMemSeg' = after.first
    /\ memory' = Remembered(after.memory, after.first, Range(blocks'))

free(i) ==
    LET after == AfterFree(memory, firstFreeMemSeg, blocks[i].addr) IN
    /\ blocks' = RemoveAt(blocks, i)
    /\ firstFreeMemSeg' = after.first
    /\ memory' = Remembered(after.memory, after.first, Range(blocks'))
    /\ UNCHANGED ret

(* The new block, if there is one, is copied to, and the old one is freed   *)
(* whether there is one or not.                                             *)
realloc(i, bytes) ==
    LET size == Aligned(bytes)
        new  == AfterMalloc(memory, firstFreeMemSeg, size)
        freed == AfterFree(new.memory, new.first, blocks[i].addr) IN
    /\ MayAllocate
    /\ Stops(memory, firstFreeMemSeg, size) # {}
    /\ ret' = new.addr
    /\ blocks' = RemoveAt(blocks, i) \o Block(new.addr, size)
    /\ firstFreeMemSeg' = freed.first
    /\ memory' = Remembered(freed.memory, freed.first, Range(blocks'))

Next ==
    \/ \E bytes \in Requests : malloc(bytes)
    \/ \E i \in DOMAIN blocks : free(i)
    \/ \E i \in DOMAIN blocks, bytes \in Requests : realloc(i, bytes)

Spec == Init /\ [][Next]_vars

------------------------------------------------------------------------------
(* Properties *)

HeapEnd == HeapAddr + HeapLength

TypeOK ==
    /\ DOMAIN memory \subseteq HeapAddr .. (HeapEnd - 1)
    /\ \A a \in DOMAIN memory : memory[a] \in memseghdr
    /\ firstFreeMemSeg \in {Null} \cup DOMAIN memory
    /\ blocks \in Seq([addr : HeapAddr .. HeapEnd, size : Nat])
    /\ ret \in Nat

(* The blocks callers hold, their headers included, lie in the heap and do  *)
(* not overlap, whatever was allocated, resized and freed before.           *)
NoOverlap ==
    /\ \A i \in DOMAIN blocks : blocks[i].addr >= HeapAddr + HdrWords
                                /\ blocks[i].addr + blocks[i].size <= HeapEnd
    /\ \A i, j \in DOMAIN blocks :
         i # j => \/ blocks[i].addr + blocks[i].size <= blocks[j].addr - HdrWords
                  \/ blocks[j].addr + blocks[j].size <= blocks[i].addr - HdrWords

(* No pointer the heap may still follow leads into a caller's data: neither *)
(* the chains nor the hints that allocated segments keep.                   *)
NoPointerIntoData ==
    \A a \in DOMAIN memory : Pointers(memory[a]) \subseteq DOMAIN memory

(* The segments, by address, from the heap's base *)
Segments ==
    Closure([a \in DOMAIN memory |-> {memory[a].nextSeg} \ {Null}], {HeapAddr})

(* The address chain tiles the heap: every segment ends where the next one  *)
(* begins, points back at the one before, and is marked free exactly when   *)
(* no caller holds it; no two free ones are neighbours, and every block a   *)
(* caller holds is in the chain.                                            *)
ChainTilesHeap ==
    /\ {b.addr - HdrWords : b \in Range(blocks)} \subseteq Segments
    /\ \A s \in Segments :
          LET h == memory[s] IN
          /\ h.isFree <=> s + HdrWords \notin {b.addr : b \in Range(blocks)}
          /\ h.nextSeg # Null =>
               /\ h.nextSeg = s + HdrWords + h.memLength
               /\ memory[h.nextSeg].prevSeg = s
               /\ ~ (h.isFree /\ memory[h.nextSeg].isFree)

(* Nothing in use: one segment, as long as the heap but for the few words   *)
(* that an allocation which did not leave room for a header gave up.        *)
AllRecovered ==
    blocks = << >> =>
        /\ Segments = {HeapAddr}
        /\ memory[HeapAddr].memLength >= HeapLength - HdrWords - HdrWords

(* Only a heap that was exactly full hides free segments from malloc: while *)
(* the free list has a head and no hole is below a block, the search meets  *)
(* every free segment, and none that a caller holds.                        *)
NoneHidden ==
    firstFreeMemSeg # Null /\ NoHole =>
        {s \in Segments : memory[s].isFree}
            = Range(FreeList(memory, firstFreeMemSeg)) \ {Null}

(* "no free mem available", "no more memory available.", heap.c:21 and 59:  *)
(* malloc returns null only if no free segment is long enough.              *)
NullMeansNoFreeSegment ==
    [][\A bytes \in Requests :
         malloc(bytes) /\ ret' = Null =>
           \A s \in Segments : memory[s].isFree => memory[s].memLength < Aligned(bytes)]_vars
==============================================================================
