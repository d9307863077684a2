------------------------------ MODULE Heap_proofs -----------------------------
(***************************************************************************)
(* Proofs about Heap and AlignedHeap, for every heap and every request, as *)
(* long as callers never allocate while a freed block lies below one in    *)
(* use: the segments tile the heap, whatever hints their headers keep.     *)
(***************************************************************************)
EXTENDS AlignedHeap, FiniteSetTheorems, SequenceTheorems, WellFoundedInduction,
        TLAPS

------------------------------------------------------------------------------
(* The invariant.  m is the memory, held the blocks that callers hold, and  *)
(* chain the segments from the heap's base on.                              *)

End(m, c) == c + HdrWords + m[c].memLength

(* The segments follow each other from the heap's base to its end *)
Tiles(m, chain) ==
    /\ HeapAddr \in chain
    /\ m[HeapAddr].prevSeg = Null
    /\ \A c \in chain \ {HeapAddr} :
         m[c].prevSeg \in chain /\ m[m[c].prevSeg].nextSeg = c
    /\ \A c \in chain :
         m[c].nextSeg # Null =>
           /\ m[c].nextSeg \in chain
           /\ m[c].nextSeg = End(m, c)
           /\ m[m[c].nextSeg].prevSeg = c
    /\ \A c \in chain :
         m[c].nextSeg = Null => HeapEnd - HdrWords <= End(m, c) /\ End(m, c) <= HeapEnd
    /\ \A c, d \in chain : c < d => m[c].nextSeg # Null /\ End(m, c) <= d

(* The blocks that callers hold are the segments that are not free *)
Uses(m, chain, held) ==
    /\ \A c \in chain : m[c].isFree <=> \A b \in held : b.addr # c + HdrWords
    /\ \A b \in held :
         b.addr - HdrWords \in chain /\ m[b.addr - HdrWords].memLength = b.size

(* No two free segments are neighbours, but for those that s is one of *)
Merged(m, chain, s) ==
    \A c \in chain :
      m[c].isFree /\ m[c].nextSeg # Null /\ m[m[c].nextSeg].isFree =>
        c = s \/ m[c].nextSeg = s

(* p is in a free segment below c *)
InFree(m, chain, p, c) ==
    \E f \in chain : m[f].isFree /\ f < c /\ f <= p /\ p < End(m, f)

(* Where the hints lead: up, and down into free segments only *)
Hints(m, chain) ==
    /\ \A c \in chain : m[c].nextFreeSeg # Null => c < m[c].nextFreeSeg
    /\ \A c \in chain :
         m[c].prevFreeSeg # Null => InFree(m, chain, m[c].prevFreeSeg, c)
    /\ \A c \in chain : m[c].nextSeg = Null => m[c].nextFreeSeg = Null
    /\ \A c \in chain :
         LET n == m[c].nextSeg IN
         ~ m[c].isFree /\ n # Null /\ ~ m[n].isFree =>
           m[c].nextFreeSeg \in {Null, m[n].nextSeg}

(* The head of the free list, if it has one, is the lowest free segment, and *)
(* no word of the heap was given up yet.                                     *)
HeadIsLowest(m, chain, first) ==
    first # Null =>
      /\ first \in chain /\ m[first].isFree
      /\ \A c \in chain : m[c].isFree => first <= c
      /\ \A c \in chain : m[c].nextSeg = Null => End(m, c) = HeapEnd

(* The headers in live lead to each other only, and no block covers one *)
Sound(m, live, held) ==
    /\ \A a \in live : Pointers(m[a]) \subseteq live
    /\ \A a \in live : ~ Covered(a, held)

Typed(m) ==
    /\ DOMAIN m \subseteq HeapAddr .. (HeapEnd - 1)
    /\ m \in [DOMAIN m -> memseghdr]

Shape(m, chain, live, first, held) ==
    /\ Typed(m) /\ chain \subseteq live /\ live \subseteq DOMAIN m
    /\ Tiles(m, chain) /\ Uses(m, chain, held) /\ Hints(m, chain)
    /\ HeadIsLowest(m, chain, first) /\ Sound(m, live, held)

Good(m, chain, live, first, held) ==
    Shape(m, chain, live, first, held) /\ Merged(m, chain, Null)

Blocks == [addr : HeapAddr .. HeapEnd, size : Nat]

(* Blocks that callers hold, no two at one address *)
Distinct(list) ==
    /\ list \in Seq(Blocks)
    /\ \A i, j \in DOMAIN list : list[i].addr = list[j].addr => i = j

Held == Distinct(blocks) /\ ret \in Nat

IInv ==
    /\ Held
    /\ \E chain \in SUBSET DOMAIN memory :
         Good(memory, chain, DOMAIN memory, firstFreeMemSeg, Range(blocks))

(* What callers were given is in their blocks, and what precedes it says so *)
Gifts == [ptr : Nat, size : Nat]

Fits(bs, gs) ==
    /\ gs \in Seq(Gifts) /\ Len(gs) = Len(bs)
    /\ \A i \in DOMAIN bs :
         /\ bs[i].addr <= gs[i].ptr
         /\ gs[i].ptr + gs[i].size <= bs[i].addr + bs[i].size

Given == Fits(blocks, given)

Marks ==
    \A i \in DOMAIN blocks :
      given[i].ptr # blocks[i].addr =>
        /\ given[i].ptr - 1 \in DOMAIN marked
        /\ marked[given[i].ptr - 1] = blocks[i].addr - HdrWords


------------------------------------------------------------------------------
(* Naturals *)

(* A set of naturals has a least element *)
LEMMA Least ==
    ASSUME NEW S, S \subseteq Nat, S # {}
    PROVE  \E n \in S : \A k \in Nat : k < n => k \notin S
<1>1. PICK n \in S : \A k \in S : ~ (<<k, n>> \in OpToRel(<, Nat))
  BY NatLessThanWellFounded, WFMin
<1>2. \A k \in S : ~ (k < n)
  BY <1>1 DEF OpToRel
<1> QED  BY <1>2

------------------------------------------------------------------------------
(* What the operations do to headers, field by field *)

Headers(m) == m \in [DOMAIN m -> memseghdr]

(* The fields of n are those of m, but for the four pointers *)
Alike(m, n) ==
    /\ DOMAIN n = DOMAIN m /\ Headers(n)
    /\ \A a \in DOMAIN m : n[a].memLength = m[a].memLength /\ n[a].isFree = m[a].isFree

LEMMA PutPrev ==
    ASSUME NEW m, Headers(m), NEW b, NEW v \in Nat, NEW n, n = Put(m, b, "prevSeg", v)
    PROVE  /\ Alike(m, n)
           /\ \A a \in DOMAIN m :
                /\ n[a].nextSeg = m[a].nextSeg
                /\ n[a].prevSeg = IF a = b THEN v ELSE m[a].prevSeg
                /\ n[a].nextFreeSeg = m[a].nextFreeSeg
                /\ n[a].prevFreeSeg = m[a].prevFreeSeg
<1>1. \A a \in DOMAIN m :
        n[a] = IF a = b THEN [m[a] EXCEPT !.prevSeg = v] ELSE m[a]
  BY DEF Put
<1>2. \A h \in memseghdr : [h EXCEPT !.prevSeg = v] \in memseghdr
  BY DEF memseghdr
<1>3. DOMAIN n = DOMAIN m /\ Headers(n)
  <2>1. CASE b \in DOMAIN m
    <3>1. n = [m EXCEPT ![b] = [m[b] EXCEPT !.prevSeg = v]]
      BY <2>1 DEF Put
    <3> QED  BY <1>2, <2>1, <3>1 DEF Headers
  <2>2. CASE b \notin DOMAIN m
    BY <2>2 DEF Put
  <2> QED  BY <2>1, <2>2
<1> QED  BY <1>1, <1>3 DEF Headers, memseghdr, Alike

LEMMA PutNext ==
    ASSUME NEW m, Headers(m), NEW b, NEW v \in Nat, NEW n, n = Put(m, b, "nextSeg", v)
    PROVE  /\ Alike(m, n)
           /\ \A a \in DOMAIN m :
                /\ n[a].nextSeg = IF a = b THEN v ELSE m[a].nextSeg
                /\ n[a].prevSeg = m[a].prevSeg
                /\ n[a].nextFreeSeg = m[a].nextFreeSeg
                /\ n[a].prevFreeSeg = m[a].prevFreeSeg
<1>1. \A a \in DOMAIN m :
        n[a] = IF a = b THEN [m[a] EXCEPT !.nextSeg = v] ELSE m[a]
  BY DEF Put
<1>2. \A h \in memseghdr : [h EXCEPT !.nextSeg = v] \in memseghdr
  BY DEF memseghdr
<1>3. DOMAIN n = DOMAIN m /\ Headers(n)
  <2>1. CASE b \in DOMAIN m
    <3>1. n = [m EXCEPT ![b] = [m[b] EXCEPT !.nextSeg = v]]
      BY <2>1 DEF Put
    <3> QED  BY <1>2, <2>1, <3>1 DEF Headers
  <2>2. CASE b \notin DOMAIN m
    BY <2>2 DEF Put
  <2> QED  BY <2>1, <2>2
<1> QED  BY <1>1, <1>3 DEF Headers, memseghdr, Alike

LEMMA PutNextFree ==
    ASSUME NEW m, Headers(m), NEW b, NEW v \in Nat, NEW n, n = Put(m, b, "nextFreeSeg", v)
    PROVE  /\ Alike(m, n)
           /\ \A a \in DOMAIN m :
                /\ n[a].nextSeg = m[a].nextSeg
                /\ n[a].prevSeg = m[a].prevSeg
                /\ n[a].nextFreeSeg = IF a = b THEN v ELSE m[a].nextFreeSeg
                /\ n[a].prevFreeSeg = m[a].prevFreeSeg
<1>1. \A a \in DOMAIN m :
        n[a] = IF a = b THEN [m[a] EXCEPT !.nextFreeSeg = v] ELSE m[a]
  BY DEF Put
<1>2. \A h \in memseghdr : [h EXCEPT !.nextFreeSeg = v] \in memseghdr
  BY DEF memseghdr
<1>3. DOMAIN n = DOMAIN m /\ Headers(n)
  <2>1. CASE b \in DOMAIN m
    <3>1. n = [m EXCEPT ![b] = [m[b] EXCEPT !.nextFreeSeg = v]]
      BY <2>1 DEF Put
    <3> QED  BY <1>2, <2>1, <3>1 DEF Headers
  <2>2. CASE b \notin DOMAIN m
    BY <2>2 DEF Put
  <2> QED  BY <2>1, <2>2
<1> QED  BY <1>1, <1>3 DEF Headers, memseghdr, Alike

LEMMA PutPrevFree ==
    ASSUME NEW m, Headers(m), NEW b, NEW v \in Nat, NEW n, n = Put(m, b, "prevFreeSeg", v)
    PROVE  /\ Alike(m, n)
           /\ \A a \in DOMAIN m :
                /\ n[a].nextSeg = m[a].nextSeg
                /\ n[a].prevSeg = m[a].prevSeg
                /\ n[a].nextFreeSeg = m[a].nextFreeSeg
                /\ n[a].prevFreeSeg = IF a = b THEN v ELSE m[a].prevFreeSeg
<1>1. \A a \in DOMAIN m :
        n[a] = IF a = b THEN [m[a] EXCEPT !.prevFreeSeg = v] ELSE m[a]
  BY DEF Put
<1>2. \A h \in memseghdr : [h EXCEPT !.prevFreeSeg = v] \in memseghdr
  BY DEF memseghdr
<1>3. DOMAIN n = DOMAIN m /\ Headers(n)
  <2>1. CASE b \in DOMAIN m
    <3>1. n = [m EXCEPT ![b] = [m[b] EXCEPT !.prevFreeSeg = v]]
      BY <2>1 DEF Put
    <3> QED  BY <1>2, <2>1, <3>1 DEF Headers
  <2>2. CASE b \notin DOMAIN m
    BY <2>2 DEF Put
  <2> QED  BY <2>1, <2>2
<1> QED  BY <1>1, <1>3 DEF Headers, memseghdr, Alike

(* Combine on headers lo and hi, whatever these are *)
Combined(m, n, lo, hi) ==
    /\ DOMAIN n = DOMAIN m /\ Headers(n)
    /\ \A a \in DOMAIN m :
         /\ n[a].isFree = m[a].isFree
         /\ n[a].memLength = IF a = lo THEN m[lo].memLength + m[hi].memLength + HdrWords
                             ELSE m[a].memLength
         /\ n[a].nextSeg = IF a = lo THEN m[hi].nextSeg ELSE m[a].nextSeg
         /\ n[a].prevSeg = IF a = m[hi].nextSeg THEN lo ELSE m[a].prevSeg
         /\ n[a].nextFreeSeg = IF a = lo THEN m[hi].nextFreeSeg ELSE m[a].nextFreeSeg
         /\ n[a].prevFreeSeg = IF a = m[hi].nextSeg \/ a = m[hi].nextFreeSeg THEN lo
                               ELSE m[a].prevFreeSeg

LEMMA CombineEffect ==
    ASSUME NEW m, Headers(m), NEW lo \in DOMAIN m, NEW hi \in DOMAIN m,
           lo \in Nat, lo # hi, NEW n, n = Combine(m, lo, hi)
    PROVE  Combined(m, n, lo, hi)
<1> DEFINE h1 == [m[lo] EXCEPT !.memLength = @ + m[hi].memLength + HdrWords,
                               !.nextSeg = m[hi].nextSeg,
                               !.nextFreeSeg = m[hi].nextFreeSeg]
           m1 == [m EXCEPT ![lo] = h1]
           m2 == Put(m1, At(m1, hi).nextSeg, "prevSeg", lo)
           m3 == Put(m2, At(m2, hi).nextSeg, "prevFreeSeg", lo)
           m4 == Put(m3, At(m3, hi).nextFreeSeg, "prevFreeSeg", lo)
<1>1. n = m4
  BY DEF Combine, At
<1>2. /\ m[hi].memLength \in Nat /\ m[lo].memLength \in Nat
      /\ m[hi].nextSeg \in Nat /\ m[hi].nextFreeSeg \in Nat
      /\ m[lo].memLength + m[hi].memLength + HdrWords \in Nat
  BY DEF Headers, memseghdr, HdrWords
<1>3. /\ h1 \in memseghdr /\ h1.isFree = m[lo].isFree
      /\ h1.memLength = m[lo].memLength + m[hi].memLength + HdrWords
      /\ h1.nextSeg = m[hi].nextSeg /\ h1.prevSeg = m[lo].prevSeg
      /\ h1.nextFreeSeg = m[hi].nextFreeSeg /\ h1.prevFreeSeg = m[lo].prevFreeSeg
  BY <1>2 DEF Headers, memseghdr
<1> HIDE DEF h1
<1>4. /\ DOMAIN m1 = DOMAIN m /\ m1[lo] = h1 /\ \A a \in DOMAIN m \ {lo} : m1[a] = m[a]
  OBVIOUS
<1>5. Headers(m1)
  BY <1>3, <1>4 DEF Headers
<1> HIDE DEF m1
<1>6. At(m1, hi).nextSeg = m[hi].nextSeg
  BY <1>4 DEF At
<1>7. /\ Alike(m1, m2)
      /\ \A a \in DOMAIN m :
           /\ m2[a].nextSeg = m1[a].nextSeg
           /\ m2[a].prevSeg = IF a = m[hi].nextSeg THEN lo ELSE m1[a].prevSeg
           /\ m2[a].nextFreeSeg = m1[a].nextFreeSeg
           /\ m2[a].prevFreeSeg = m1[a].prevFreeSeg
  BY <1>4, <1>5, <1>6, PutPrev
<1> HIDE DEF m2
<1>8. At(m2, hi).nextSeg = m[hi].nextSeg
  BY <1>4, <1>7 DEF At, Alike
<1>9. /\ Alike(m2, m3)
      /\ \A a \in DOMAIN m :
           /\ m3[a].nextSeg = m2[a].nextSeg
           /\ m3[a].prevSeg = m2[a].prevSeg
           /\ m3[a].nextFreeSeg = m2[a].nextFreeSeg
           /\ m3[a].prevFreeSeg = IF a = m[hi].nextSeg THEN lo ELSE m2[a].prevFreeSeg
  <2>1. Headers(m2) /\ DOMAIN m2 = DOMAIN m
    BY <1>4, <1>7 DEF Alike
  <2> QED  BY <2>1, <1>8, PutPrevFree
<1> HIDE DEF m3
<1>10. At(m3, hi).nextFreeSeg = m[hi].nextFreeSeg
  BY <1>4, <1>7, <1>9 DEF At, Alike
<1>11. /\ Alike(m3, m4)
       /\ \A a \in DOMAIN m :
            /\ m4[a].nextSeg = m3[a].nextSeg
            /\ m4[a].prevSeg = m3[a].prevSeg
            /\ m4[a].nextFreeSeg = m3[a].nextFreeSeg
            /\ m4[a].prevFreeSeg = IF a = m[hi].nextFreeSeg THEN lo ELSE m3[a].prevFreeSeg
  <2>1. Headers(m3) /\ DOMAIN m3 = DOMAIN m
    BY <1>4, <1>7, <1>9 DEF Alike
  <2> QED  BY <2>1, <1>10, PutPrevFree
<1> HIDE DEF m4
<1>12. DOMAIN n = DOMAIN m /\ Headers(n)
  BY <1>1, <1>4, <1>7, <1>9, <1>11 DEF Alike
<1>13. \A a \in DOMAIN m : n[a].isFree = m1[a].isFree /\ n[a].memLength = m1[a].memLength
  BY <1>1, <1>4, <1>7, <1>9, <1>11 DEF Alike
<1>14. \A a \in DOMAIN m :
         /\ n[a].nextSeg = m1[a].nextSeg
         /\ n[a].prevSeg = IF a = m[hi].nextSeg THEN lo ELSE m1[a].prevSeg
         /\ n[a].nextFreeSeg = m1[a].nextFreeSeg
         /\ n[a].prevFreeSeg = IF a = m[hi].nextSeg \/ a = m[hi].nextFreeSeg THEN lo
                               ELSE m1[a].prevFreeSeg
  BY <1>1, <1>7, <1>9, <1>11
<1> QED  BY <1>3, <1>4, <1>12, <1>13, <1>14 DEF Combined

(* RelinkFree on the segment s that becomes free: only hints change, and    *)
(* only to s.                                                               *)
Freed(m, n, s) ==
    /\ DOMAIN n = DOMAIN m /\ Headers(n)
    /\ \A a \in DOMAIN m :
         /\ n[a].isFree = (a = s \/ m[a].isFree)
         /\ n[a].memLength = m[a].memLength
         /\ n[a].nextSeg = m[a].nextSeg
         /\ n[a].prevSeg = m[a].prevSeg
         /\ n[a].nextFreeSeg = m[a].nextFreeSeg
              \/ (n[a].nextFreeSeg = s /\ a = m[s].prevFreeSeg)
         /\ n[a].prevFreeSeg = m[a].prevFreeSeg
              \/ (n[a].prevFreeSeg = s /\ a = m[s].nextFreeSeg)

LEMMA RelinkEffect ==
    ASSUME NEW m, Headers(m), NEW s \in DOMAIN m, s \in Nat, m[s].nextFreeSeg # s,
           NEW n, n = RelinkFree([m EXCEPT ![s].isFree = TRUE], s)
    PROVE  Freed(m, n, s)
<1> DEFINE m0 == [m EXCEPT ![s].isFree = TRUE]
           b  == m0[s].nextFreeSeg
           m1 == IF b # Null /\ At(m0, b).prevFreeSeg < s
                 THEN Put(m0, b, "prevFreeSeg", s) ELSE m0
           p  == m1[s].prevFreeSeg
           m2 == IF p # Null /\ At(m1, p).nextFreeSeg > s
                 THEN Put(m1, p, "nextFreeSeg", s) ELSE m1
<1>1. n = m2
  BY DEF RelinkFree
<1>2. /\ DOMAIN m0 = DOMAIN m /\ Headers(m0)
      /\ \A a \in DOMAIN m :
           /\ m0[a].isFree = (a = s \/ m[a].isFree)
           /\ m0[a].memLength = m[a].memLength
           /\ m0[a].nextSeg = m[a].nextSeg /\ m0[a].prevSeg = m[a].prevSeg
           /\ m0[a].nextFreeSeg = m[a].nextFreeSeg /\ m0[a].prevFreeSeg = m[a].prevFreeSeg
  BY DEF Headers, memseghdr
<1> HIDE DEF m0
<1>3. b = m[s].nextFreeSeg
  BY <1>2
<1>4. /\ Alike(m0, m1)
      /\ \A a \in DOMAIN m :
           /\ m1[a].nextSeg = m0[a].nextSeg /\ m1[a].prevSeg = m0[a].prevSeg
           /\ m1[a].nextFreeSeg = m0[a].nextFreeSeg
           /\ m1[a].prevFreeSeg = m0[a].prevFreeSeg \/ (m1[a].prevFreeSeg = s /\ a = b)
  <2>1. CASE b # Null /\ At(m0, b).prevFreeSeg < s
    <3>1. m1 = Put(m0, b, "prevFreeSeg", s)
      BY <2>1
    <3> QED  BY <1>2, <3>1, PutPrevFree
  <2>2. CASE ~ (b # Null /\ At(m0, b).prevFreeSeg < s)
    <3>1. m1 = m0
      BY <2>2
    <3> QED  BY <1>2, <3>1 DEF Alike
  <2> QED  BY <2>1, <2>2
<1>5. p = m[s].prevFreeSeg
  BY <1>2, <1>3, <1>4
<1> HIDE DEF m1, b
<1>6. /\ Alike(m1, m2)
      /\ \A a \in DOMAIN m :
           /\ m2[a].nextSeg = m1[a].nextSeg /\ m2[a].prevSeg = m1[a].prevSeg
           /\ m2[a].nextFreeSeg = m1[a].nextFreeSeg \/ (m2[a].nextFreeSeg = s /\ a = p)
           /\ m2[a].prevFreeSeg = m1[a].prevFreeSeg
  <2>0. Headers(m1) /\ DOMAIN m1 = DOMAIN m
    BY <1>2, <1>4 DEF Alike
  <2>1. CASE p # Null /\ At(m1, p).nextFreeSeg > s
    <3>1. m2 = Put(m1, p, "nextFreeSeg", s)
      BY <2>1
    <3> QED  BY <2>0, <3>1, PutNextFree
  <2>2. CASE ~ (p # Null /\ At(m1, p).nextFreeSeg > s)
    <3>1. m2 = m1
      BY <2>2
    <3> QED  BY <2>0, <3>1 DEF Alike
  <2> QED  BY <2>1, <2>2
<1> HIDE DEF m2, p
<1>7. DOMAIN n = DOMAIN m /\ Headers(n)
  BY <1>1, <1>2, <1>4, <1>6 DEF Alike
<1>8. \A a \in DOMAIN m :
        n[a].isFree = m0[a].isFree /\ n[a].memLength = m[a].memLength
  BY <1>1, <1>2, <1>4, <1>6 DEF Alike
<1>9. \A a \in DOMAIN m : n[a].isFree = (a = s \/ m[a].isFree)
  BY <1>2, <1>8, Zenon
<1>10. \A a \in DOMAIN m :
         /\ n[a].nextSeg = m[a].nextSeg /\ n[a].prevSeg = m[a].prevSeg
         /\ \/ n[a].nextFreeSeg = m[a].nextFreeSeg
            \/ n[a].nextFreeSeg = s /\ a = m[s].prevFreeSeg
         /\ \/ n[a].prevFreeSeg = m[a].prevFreeSeg
            \/ n[a].prevFreeSeg = s /\ a = m[s].nextFreeSeg
  BY <1>1, <1>2, <1>3, <1>4, <1>5, <1>6
<1> QED  BY <1>7, <1>8, <1>9, <1>10, Zenon DEF Freed

------------------------------------------------------------------------------
(* What free does to the segments *)

LEMMA Sizes == HeapAddr \in Nat /\ HeapAddr # 0 /\ HeapLength \in Nat /\ HdrWords = 6
               /\ Null = 0 /\ HeapEnd \in Nat
BY HeapAssumption DEF HdrWords, Null, HeapEnd

LEMMA Fields ==
    ASSUME NEW m, Typed(m)
    PROVE  /\ Headers(m)
           /\ \A a \in DOMAIN m :
                /\ a \in Nat /\ a # Null /\ HeapAddr <= a
                /\ m[a].memLength \in Nat /\ m[a].isFree \in BOOLEAN
                /\ m[a].nextSeg \in Nat /\ m[a].prevSeg \in Nat
                /\ m[a].nextFreeSeg \in Nat /\ m[a].prevFreeSeg \in Nat
                /\ End(m, a) \in Nat /\ a < End(m, a)
<1>1. \A a \in DOMAIN m : a \in Nat /\ a # Null /\ HeapAddr <= a
  BY Sizes DEF Typed
<1>2. \A a \in DOMAIN m : m[a] \in memseghdr
  BY DEF Typed
<1>3. \A a \in DOMAIN m : m[a].memLength \in Nat
  BY <1>2 DEF memseghdr
<1>4. \A a \in DOMAIN m : End(m, a) \in Nat /\ a < End(m, a)
  BY <1>1, <1>3, Sizes DEF End
<1> QED  BY <1>1, <1>2, <1>4 DEF memseghdr, Typed, Headers

NewHead(first, s) == IF s < first THEN s ELSE first

(* No other block is at b's address *)
Alone(b, held) == \A d \in held : d.addr = b.addr => d = b

BlockOf(s, b, held) == b \in held /\ Alone(b, held) /\ s = b.addr - HdrWords

(* The block of a segment that becomes free *)
LEMMA RelinkShape ==
    ASSUME NEW m, NEW chain, NEW live, NEW first \in Nat, NEW held, held \subseteq Blocks,
           Good(m, chain, live, first, held),
           NEW b, NEW s, BlockOf(s, b, held),
           NEW n, Freed(m, n, s)
    PROVE  /\ s \in chain
           /\ Shape(n, chain, live, NewHead(first, s), held \ {b})
           /\ Merged(n, chain, s)
<1> DEFINE nfirst == IF s < first THEN s ELSE first
<1>1. /\ Typed(m) /\ chain \subseteq live /\ live \subseteq DOMAIN m /\ Tiles(m, chain)
      /\ Uses(m, chain, held) /\ Hints(m, chain) /\ HeadIsLowest(m, chain, first)
      /\ Sound(m, live, held) /\ Merged(m, chain, Null)
  BY DEF Good, Shape
<1>0. b \in held /\ s = b.addr - HdrWords /\ \A d \in held : d.addr = b.addr => d = b
  BY DEF Alone, BlockOf
<1>2. /\ s \in chain /\ b.addr = s + HdrWords /\ b.addr \in Nat
      /\ \A d \in held : d.addr \in Nat
  BY <1>0, <1>1, Sizes DEF Uses, Blocks
<1>3. /\ Headers(m)
      /\ \A a \in DOMAIN m :
           /\ a \in Nat /\ a # Null /\ HeapAddr <= a
           /\ m[a].memLength \in Nat /\ m[a].isFree \in BOOLEAN
           /\ m[a].nextSeg \in Nat /\ m[a].prevSeg \in Nat
           /\ m[a].nextFreeSeg \in Nat /\ m[a].prevFreeSeg \in Nat
           /\ End(m, a) \in Nat /\ a < End(m, a)
  BY <1>1, Fields
<1>4. /\ DOMAIN n = DOMAIN m /\ Headers(n)
      /\ \A a \in DOMAIN m :
           /\ n[a].isFree = (a = s \/ m[a].isFree)
           /\ n[a].memLength = m[a].memLength
           /\ n[a].nextSeg = m[a].nextSeg
           /\ n[a].prevSeg = m[a].prevSeg
           /\ n[a].nextFreeSeg = m[a].nextFreeSeg
                \/ (n[a].nextFreeSeg = s /\ a = m[s].prevFreeSeg)
           /\ n[a].prevFreeSeg = m[a].prevFreeSeg
                \/ (n[a].prevFreeSeg = s /\ a = m[s].nextFreeSeg)
  BY DEF Freed
<1>5. chain \subseteq DOMAIN m
  BY <1>1
<1>6. \A a \in DOMAIN m : End(n, a) = End(m, a)
  BY <1>4 DEF End
<1>7. \A c \in chain : n[c].isFree <=> c = s \/ m[c].isFree
  BY <1>4, <1>5
<1>8. Typed(n)
  BY <1>1, <1>4 DEF Typed, Headers
<1>9. Tiles(n, chain)
  BY <1>1, <1>4, <1>5, <1>6 DEF Tiles
<1>10. Uses(n, chain, held \ {b})
  <2>1. ASSUME NEW c \in chain
        PROVE  n[c].isFree <=> \A d \in held \ {b} : d.addr # c + HdrWords
    <3>1. CASE c = s
      BY <1>0, <1>2, <1>7, <3>1
    <3>2. CASE c # s
      <4>1. c \in Nat /\ s \in Nat /\ b.addr # c + HdrWords
        BY <1>2, <1>3, <1>5, <3>2, Sizes
      <4>2. n[c].isFree <=> m[c].isFree
        BY <1>7, <3>2
      <4> QED  BY <1>1, <4>1, <4>2 DEF Uses
    <3> QED  BY <3>1, <3>2
  <2>2. ASSUME NEW d \in held \ {b}
        PROVE  /\ d.addr - HdrWords \in chain
               /\ n[d.addr - HdrWords].memLength = d.size
    BY <1>1, <1>4, <1>5 DEF Uses
  <2> QED  BY <2>1, <2>2 DEF Uses
<1>11. ASSUME NEW c \in chain, m[s].prevFreeSeg = c
       PROVE  c < s /\ (c # s => \E f \in chain : m[f].isFree /\ f <= c /\ c < End(m, f))
  <2>1. c # Null
    BY <1>3, <1>5
  <2>2. PICK f \in chain : m[f].isFree /\ f < s /\ f <= c /\ c < End(m, f)
    BY <1>1, <1>2, <1>11, <2>1 DEF Hints, InFree
  <2>3. End(m, f) <= s
    BY <1>1, <1>2, <2>2 DEF Tiles
  <2> QED  BY <1>2, <1>3, <1>5, <2>2, <2>3
<1>12. ASSUME NEW c \in chain, m[s].prevFreeSeg = c PROVE m[c].isFree
  <2>1. PICK f \in chain : m[f].isFree /\ f <= c /\ c < End(m, f)
    BY <1>2, <1>3, <1>5, <1>11, <1>12
  <2>2. ~ (f < c)
    <3>1. f < c => End(m, f) <= c
      BY <1>1 DEF Tiles
    <3> QED  BY <1>3, <1>5, <2>1, <3>1
  <2>3. f = c
    BY <1>3, <1>5, <2>1, <2>2
  <2> QED  BY <2>1, <2>3
<1>13. Hints(n, chain)
  <2>1. ASSUME NEW c \in chain, n[c].nextFreeSeg # Null PROVE c < n[c].nextFreeSeg
    BY <1>1, <1>4, <1>5, <1>11, <2>1 DEF Hints
  <2>2. ASSUME NEW c \in chain, n[c].prevFreeSeg # Null
        PROVE  InFree(n, chain, n[c].prevFreeSeg, c)
    <3>1. CASE n[c].prevFreeSeg = m[c].prevFreeSeg
      <4>1. PICK f \in chain : /\ m[f].isFree /\ f < c
                               /\ f <= m[c].prevFreeSeg /\ m[c].prevFreeSeg < End(m, f)
        BY <1>1, <2>2, <3>1 DEF Hints, InFree
      <4>2. n[f].isFree /\ End(n, f) = End(m, f)
        BY <1>5, <1>6, <1>7, <4>1
      <4> QED  BY <3>1, <4>1, <4>2 DEF InFree
    <3>2. CASE n[c].prevFreeSeg = s /\ c = m[s].nextFreeSeg
      <4>1. s < c
        BY <1>1, <1>2, <1>3, <1>5, <3>2 DEF Hints
      <4>2. n[s].isFree /\ s <= s /\ s < End(n, s)
        BY <1>2, <1>3, <1>5, <1>6, <1>7
      <4> QED  BY <1>2, <3>2, <4>1, <4>2 DEF InFree
    <3> QED  BY <1>4, <1>5, <3>1, <3>2
  <2>3. ASSUME NEW c \in chain, n[c].nextSeg = Null PROVE n[c].nextFreeSeg = Null
    <3>1. m[c].nextSeg = Null /\ m[c].nextFreeSeg = Null
      BY <1>1, <1>4, <1>5, <2>3 DEF Hints
    <3>2. m[s].prevFreeSeg # c
      <4>1. c < s => m[c].nextSeg # Null
        BY <1>1, <1>2 DEF Tiles
      <4> QED  BY <1>11, <3>1, <4>1
    <3> QED  BY <1>4, <1>5, <3>1, <3>2
  <2>4. ASSUME NEW c \in chain, NEW x, x = n[c].nextSeg,
               ~ n[c].isFree, x # Null, ~ n[x].isFree
        PROVE  n[c].nextFreeSeg \in {Null, n[x].nextSeg}
    <3>1. ~ m[c].isFree /\ x = m[c].nextSeg /\ x \in chain
      BY <1>1, <1>4, <1>5, <1>7, <2>4 DEF Tiles
    <3>2. ~ m[x].isFree /\ n[x].nextSeg = m[x].nextSeg
      BY <1>4, <1>5, <1>7, <2>4, <3>1
    <3>3. m[c].nextFreeSeg \in {Null, m[x].nextSeg}
      BY <1>1, <2>4, <3>1, <3>2 DEF Hints
    <3>4. n[c].nextFreeSeg = m[c].nextFreeSeg
      BY <1>4, <1>5, <1>12, <3>1
    <3> QED  BY <3>2, <3>3, <3>4
  <2> QED  BY <2>1, <2>2, <2>3, <2>4 DEF Hints
<1>14. HeadIsLowest(n, chain, nfirst)
  <2>1. SUFFICES ASSUME nfirst # Null PROVE HeadIsLowest(n, chain, nfirst)
    BY DEF HeadIsLowest
  <2>2. first # Null /\ s \in Nat
    BY <1>2, <1>3, <1>5, <2>1, Sizes
  <2>3. /\ first \in chain /\ m[first].isFree
        /\ \A c \in chain : m[c].isFree => first <= c
        /\ \A c \in chain : m[c].nextSeg = Null => End(m, c) = HeapEnd
    BY <1>1, <2>2 DEF HeadIsLowest
  <2>4. nfirst \in chain /\ nfirst <= s /\ nfirst <= first /\ n[nfirst].isFree
    BY <1>2, <1>7, <2>2, <2>3
  <2>5. ASSUME NEW c \in chain, n[c].isFree PROVE nfirst <= c
    <3>1. c = s \/ first <= c
      BY <1>7, <2>3, <2>5
    <3> QED  BY <1>3, <1>5, <2>2, <2>3, <2>4, <3>1
  <2>6. \A c \in chain : n[c].nextSeg = Null => End(n, c) = HeapEnd
    BY <1>4, <1>5, <1>6, <2>3
  <2> QED  BY <2>4, <2>5, <2>6 DEF HeadIsLowest
<1>15. Sound(n, live, held \ {b})
  <2>1. s \in live /\ \A a \in live : Pointers(m[a]) \subseteq live
    BY <1>1, <1>2 DEF Sound
  <2>2. \A a \in live : Pointers(n[a]) \subseteq Pointers(m[a]) \cup {s}
    BY <1>1, <1>4 DEF Pointers
  <2>3. \A a \in live : ~ Covered(a, held \ {b})
    BY <1>1 DEF Sound, Covered
  <2> QED  BY <2>1, <2>2, <2>3 DEF Sound
<1>16. Merged(n, chain, s)
  <2>1. SUFFICES ASSUME NEW c \in chain, n[c].isFree, n[c].nextSeg # Null,
                        n[n[c].nextSeg].isFree, c # s, n[c].nextSeg # s
                 PROVE  FALSE
    BY DEF Merged
  <2>2. m[c].isFree /\ m[c].nextSeg = n[c].nextSeg /\ m[c].nextSeg \in chain
    BY <1>1, <1>4, <1>5, <1>7, <2>1 DEF Tiles
  <2>3. m[m[c].nextSeg].isFree
    BY <1>7, <2>1, <2>2
  <2>4. c # Null
    BY <1>3, <1>5
  <2> QED  BY <1>1, <2>1, <2>2, <2>3, <2>4 DEF Merged
<1>17. nfirst = NewHead(first, s)
  BY DEF NewHead
<1> HIDE DEF nfirst
<1> QED  BY <1>1, <1>2, <1>4, <1>7, <1>8, <1>9, <1>10, <1>13, <1>14, <1>15, <1>16, <1>17
         DEF Shape

(* Two free neighbours that become one segment *)
LEMMA CombineShape ==
    ASSUME NEW m, NEW chain, NEW live, NEW first \in Nat, NEW held, held \subseteq Blocks,
           Shape(m, chain, live, first, held),
           NEW lo \in chain, NEW hi, hi = m[lo].nextSeg, hi # Null,
           m[lo].isFree, m[hi].isFree, NEW n, Combined(m, n, lo, hi)
    PROVE  Shape(n, chain \ {hi}, live, first, held)
<1> DEFINE left == chain \ {hi}
<1>1. /\ Typed(m) /\ chain \subseteq live /\ live \subseteq DOMAIN m /\ Tiles(m, chain)
      /\ Uses(m, chain, held) /\ Hints(m, chain) /\ HeadIsLowest(m, chain, first)
      /\ Sound(m, live, held)
  BY DEF Shape
<1>2. /\ Headers(m)
      /\ \A a \in DOMAIN m :
           /\ a \in Nat /\ a # Null /\ HeapAddr <= a
           /\ m[a].memLength \in Nat /\ m[a].isFree \in BOOLEAN
           /\ m[a].nextSeg \in Nat /\ m[a].prevSeg \in Nat
           /\ m[a].nextFreeSeg \in Nat /\ m[a].prevFreeSeg \in Nat
           /\ End(m, a) \in Nat /\ a < End(m, a)
  BY <1>1, Fields
<1>3. /\ DOMAIN n = DOMAIN m /\ Headers(n)
      /\ \A a \in DOMAIN m :
           /\ n[a].isFree = m[a].isFree
           /\ n[a].memLength = IF a = lo THEN m[lo].memLength + m[hi].memLength + HdrWords
                               ELSE m[a].memLength
           /\ n[a].nextSeg = IF a = lo THEN m[hi].nextSeg ELSE m[a].nextSeg
           /\ n[a].prevSeg = IF a = m[hi].nextSeg THEN lo ELSE m[a].prevSeg
           /\ n[a].nextFreeSeg = IF a = lo THEN m[hi].nextFreeSeg ELSE m[a].nextFreeSeg
           /\ n[a].prevFreeSeg = IF a = m[hi].nextSeg \/ a = m[hi].nextFreeSeg THEN lo
                                 ELSE m[a].prevFreeSeg
  BY DEF Combined
<1>4. chain \subseteq DOMAIN m /\ left \subseteq chain
  BY <1>1
<1>5. /\ hi \in chain /\ hi = End(m, lo) /\ m[hi].prevSeg = lo /\ lo < hi
  BY <1>1, <1>2, <1>4 DEF Tiles
<1>6. lo \in left /\ lo \in Nat /\ hi \in Nat /\ End(m, hi) \in Nat /\ hi < End(m, hi)
      /\ \A c \in chain : c \in left <=> c # hi
  BY <1>2, <1>4, <1>5 DEF left
<1>7. End(n, lo) = End(m, hi) /\ \A c \in left : c # lo => End(n, c) = End(m, c)
  <2>1. n[lo].memLength = m[lo].memLength + m[hi].memLength + HdrWords
    BY <1>3, <1>4
  <2>2. m[lo].memLength \in Nat /\ m[hi].memLength \in Nat
    BY <1>2, <1>4, <1>5
  <2>3. End(n, lo) = End(m, hi)
    BY <1>5, <1>6, <2>1, <2>2, Sizes DEF End
  <2> QED  BY <1>3, <1>4, <2>3 DEF End
<1>8. /\ m[hi].nextSeg # Null =>
           /\ m[hi].nextSeg \in left /\ m[hi].nextSeg = End(m, hi)
           /\ m[m[hi].nextSeg].prevSeg = hi
      /\ m[hi].nextSeg = Null =>
           /\ m[hi].nextFreeSeg = Null
           /\ HeapEnd - HdrWords <= End(m, hi) /\ End(m, hi) <= HeapEnd
  <2>1. /\ m[hi].nextSeg # Null =>
             /\ m[hi].nextSeg \in chain /\ m[hi].nextSeg = End(m, hi)
             /\ m[m[hi].nextSeg].prevSeg = hi
        /\ m[hi].nextSeg = Null =>
             HeapEnd - HdrWords <= End(m, hi) /\ End(m, hi) <= HeapEnd
    BY <1>1, <1>5 DEF Tiles
  <2>2. m[hi].nextSeg = Null => m[hi].nextFreeSeg = Null
    BY <1>1, <1>5 DEF Hints
  <2>3. m[hi].nextSeg # Null => m[hi].nextSeg # hi
    BY <1>6, <2>1
  <2> QED  BY <2>1, <2>2, <2>3
<1>9. Tiles(n, left)
  <2>1. HeapAddr \in left /\ n[HeapAddr].prevSeg = Null
    <3>1. HeapAddr \in chain /\ m[HeapAddr].prevSeg = Null
      BY <1>1 DEF Tiles
    <3>2. lo # Null /\ hi # Null
      BY <1>2, <1>4, <1>5
    <3>3. HeapAddr # hi
      BY <1>5, <3>1, <3>2
    <3>4. HeapAddr # Null
      BY Sizes
    <3>5. HeapAddr # m[hi].nextSeg
      BY <1>8, <3>1, <3>2, <3>4
    <3> QED  BY <1>3, <1>4, <3>1, <3>3, <3>5
  <2>2. ASSUME NEW c \in left \ {HeapAddr}
        PROVE  n[c].prevSeg \in left /\ n[n[c].prevSeg].nextSeg = c
    <3>1. CASE c = m[hi].nextSeg
      BY <1>3, <1>4, <1>6, <3>1
    <3>2. CASE c # m[hi].nextSeg
      <4>1. n[c].prevSeg = m[c].prevSeg
        BY <1>3, <1>4, <3>2
      <4>2. m[c].prevSeg \in chain /\ m[m[c].prevSeg].nextSeg = c
        BY <1>1, <1>4 DEF Tiles
      <4>3. m[c].prevSeg # hi /\ m[c].prevSeg # lo
        BY <3>2, <4>2
      <4> QED  BY <1>3, <1>4, <4>1, <4>2, <4>3
    <3> QED  BY <3>1, <3>2
  <2>3. ASSUME NEW c \in left, n[c].nextSeg # Null
        PROVE  /\ n[c].nextSeg \in left /\ n[c].nextSeg = End(n, c)
               /\ n[n[c].nextSeg].prevSeg = c
    <3>1. CASE c = lo
      <4>1. n[c].nextSeg = m[hi].nextSeg /\ m[hi].nextSeg \in left
            /\ m[hi].nextSeg = End(m, hi)
        BY <1>3, <1>4, <1>8, <2>3, <3>1
      <4>2. n[m[hi].nextSeg].prevSeg = lo
        BY <1>3, <1>4, <4>1
      <4> QED  BY <1>7, <3>1, <4>1, <4>2
    <3>2. CASE c # lo
      <4>1. n[c].nextSeg = m[c].nextSeg
        BY <1>3, <1>4, <3>2
      <4>2. /\ m[c].nextSeg \in chain /\ m[c].nextSeg = End(m, c)
            /\ m[m[c].nextSeg].prevSeg = c
        BY <1>1, <1>4, <2>3, <4>1 DEF Tiles
      <4>3. m[c].nextSeg # hi
        BY <1>5, <3>2, <4>2
      <4>4. m[c].nextSeg # m[hi].nextSeg
        BY <1>8, <2>3, <4>1, <4>2
      <4>5. n[m[c].nextSeg].prevSeg = c
        BY <1>3, <1>4, <4>2, <4>4
      <4> QED  BY <1>7, <3>2, <4>1, <4>2, <4>3, <4>5
    <3> QED  BY <3>1, <3>2
  <2>4. ASSUME NEW c \in left, n[c].nextSeg = Null
        PROVE  HeapEnd - HdrWords <= End(n, c) /\ End(n, c) <= HeapEnd
    <3>1. CASE c = lo
      <4>1. m[hi].nextSeg = Null
        BY <1>3, <1>4, <2>4, <3>1
      <4> QED  BY <1>7, <1>8, <3>1, <4>1
    <3>2. CASE c # lo
      <4>1. m[c].nextSeg = Null /\ End(n, c) = End(m, c)
        BY <1>3, <1>4, <1>7, <2>4, <3>2
      <4> QED  BY <1>1, <1>4, <4>1 DEF Tiles
    <3> QED  BY <3>1, <3>2
  <2>5. ASSUME NEW c \in left, NEW d \in left, c < d
        PROVE  n[c].nextSeg # Null /\ End(n, c) <= d
    <3>1. /\ m[c].nextSeg # Null /\ End(m, c) <= d
      BY <1>1, <1>4, <2>5 DEF Tiles
    <3>2. CASE c = lo
      <4>1. d \in Nat /\ hi < d
        BY <1>2, <1>4, <1>5, <1>6, <3>1, <3>2
      <4>2. m[hi].nextSeg # Null /\ End(m, hi) <= d
        BY <1>1, <1>4, <1>5, <4>1 DEF Tiles
      <4> QED  BY <1>3, <1>4, <1>7, <3>2, <4>2
    <3>3. CASE c # lo
      BY <1>3, <1>4, <1>7, <3>1, <3>3
    <3> QED  BY <3>2, <3>3
  <2> QED  BY <2>1, <2>2, <2>3, <2>4, <2>5 DEF Tiles
<1>10. Typed(n)
  BY <1>1, <1>3 DEF Typed, Headers
<1>11. Uses(n, left, held)
  <2>1. \A c \in left : n[c].isFree <=> \A d \in held : d.addr # c + HdrWords
    BY <1>1, <1>3, <1>4 DEF Uses
  <2>2. ASSUME NEW d \in held
        PROVE  /\ d.addr - HdrWords \in left
               /\ n[d.addr - HdrWords].memLength = d.size
    <3>1. d.addr - HdrWords \in chain /\ m[d.addr - HdrWords].memLength = d.size
      BY <1>1 DEF Uses
    <3>2. d.addr \in Nat /\ d.addr = (d.addr - HdrWords) + HdrWords
      BY Sizes DEF Blocks
    <3>3. ~ m[d.addr - HdrWords].isFree
      BY <1>1, <3>1, <3>2 DEF Uses
    <3> QED  BY <1>3, <1>4, <3>1, <3>3
  <2> QED  BY <2>1, <2>2 DEF Uses
<1>12. Hints(n, left)
  <2>1. ASSUME NEW c \in left, n[c].nextFreeSeg # Null PROVE c < n[c].nextFreeSeg
    <3>1. CASE c = lo
      <4>1. n[c].nextFreeSeg = m[hi].nextFreeSeg
        BY <1>3, <1>4, <3>1
      <4>2. hi < m[hi].nextFreeSeg /\ m[hi].nextFreeSeg \in Nat
        BY <1>1, <1>2, <1>4, <1>5, <2>1, <4>1 DEF Hints
      <4> QED  BY <1>5, <1>6, <3>1, <4>1, <4>2
    <3>2. CASE c # lo
      BY <1>1, <1>3, <1>4, <2>1, <3>2 DEF Hints
    <3> QED  BY <3>1, <3>2
  <2>2. ASSUME NEW c \in left, n[c].prevFreeSeg # Null
        PROVE  InFree(n, left, n[c].prevFreeSeg, c)
    <3>1. CASE c = m[hi].nextSeg \/ c = m[hi].nextFreeSeg
      <4>1. n[c].prevFreeSeg = lo
        BY <1>3, <1>4, <3>1
      <4>2. hi < c
        <5>1. m[hi].nextFreeSeg # Null => hi < m[hi].nextFreeSeg
          BY <1>1, <1>5 DEF Hints
        <5>2. c # Null
          BY <1>2, <1>4
        <5> QED  BY <1>6, <1>8, <3>1, <5>1, <5>2
      <4>3. c \in Nat /\ lo < c /\ n[lo].isFree /\ lo <= lo /\ lo < End(n, lo)
        BY <1>2, <1>3, <1>4, <1>5, <1>6, <1>7, <4>2
      <4> QED  BY <1>6, <4>1, <4>3 DEF InFree
    <3>2. CASE ~ (c = m[hi].nextSeg \/ c = m[hi].nextFreeSeg)
      <4> DEFINE p == m[c].prevFreeSeg
      <4>1. n[c].prevFreeSeg = p /\ p \in Nat
        BY <1>2, <1>3, <1>4, <3>2
      <4>2. PICK f \in chain : m[f].isFree /\ f < c /\ f <= p /\ p < End(m, f)
        BY <1>1, <1>4, <2>2, <4>1 DEF Hints, InFree
      <4> HIDE DEF p
      <4>3. CASE f = hi \/ f = lo
        <5>1. c \in Nat /\ lo < c /\ lo <= p /\ p < End(n, lo) /\ n[lo].isFree
          BY <1>2, <1>3, <1>4, <1>5, <1>6, <1>7, <4>1, <4>2, <4>3
        <5> QED  BY <1>6, <4>1, <5>1 DEF InFree
      <4>4. CASE f # hi /\ f # lo
        <5>1. f \in left /\ n[f].isFree /\ End(n, f) = End(m, f)
          BY <1>3, <1>4, <1>7, <4>2, <4>4
        <5> QED  BY <4>1, <4>2, <5>1 DEF InFree
      <4> QED  BY <4>3, <4>4
    <3> QED  BY <3>1, <3>2
  <2>3. ASSUME NEW c \in left, n[c].nextSeg = Null PROVE n[c].nextFreeSeg = Null
    BY <1>1, <1>3, <1>4, <1>8, <2>3 DEF Hints
  <2>4. ASSUME NEW c \in left, NEW x, x = n[c].nextSeg,
               ~ n[c].isFree, x # Null, ~ n[x].isFree
        PROVE  n[c].nextFreeSeg \in {Null, n[x].nextSeg}
    <3>1. c # lo /\ ~ m[c].isFree /\ x = m[c].nextSeg
          /\ n[c].nextFreeSeg = m[c].nextFreeSeg
      BY <1>3, <1>4, <2>4
    <3>2. x \in chain
      BY <1>1, <1>4, <2>4, <3>1 DEF Tiles
    <3>3. ~ m[x].isFree /\ x # lo /\ n[x].nextSeg = m[x].nextSeg
      BY <1>3, <1>4, <2>4, <3>2
    <3> QED  BY <1>1, <1>4, <2>4, <3>1, <3>3 DEF Hints
  <2> QED  BY <2>1, <2>2, <2>3, <2>4 DEF Hints
<1>13. HeadIsLowest(n, left, first)
  <2>1. SUFFICES ASSUME first # Null PROVE HeadIsLowest(n, left, first)
    BY DEF HeadIsLowest
  <2>2. /\ first \in chain /\ m[first].isFree
        /\ \A c \in chain : m[c].isFree => first <= c
        /\ \A c \in chain : m[c].nextSeg = Null => End(m, c) = HeapEnd
    BY <1>1, <2>1 DEF HeadIsLowest
  <2>3. first <= lo /\ first # hi
    BY <1>5, <1>6, <2>2
  <2>4. ASSUME NEW c \in left, n[c].nextSeg = Null PROVE End(n, c) = HeapEnd
    BY <1>3, <1>4, <1>5, <1>7, <2>2, <2>4
  <2> QED  BY <1>3, <1>4, <2>2, <2>3, <2>4 DEF HeadIsLowest
<1>14. Sound(n, live, held)
  <2>1. /\ lo \in live /\ hi \in live
        /\ \A a \in live : Pointers(m[a]) \subseteq live
    BY <1>1, <1>5 DEF Sound
  <2>2. \A a \in live : Pointers(n[a]) \subseteq Pointers(m[a]) \cup Pointers(m[hi]) \cup {lo}
    BY <1>1, <1>3 DEF Pointers
  <2> QED  BY <1>1, <2>1, <2>2 DEF Sound
<1>15. left \subseteq live /\ live \subseteq DOMAIN n
  BY <1>1, <1>3
<1> QED  BY <1>9, <1>10, <1>11, <1>12, <1>13, <1>14, <1>15 DEF Shape, left

(* A field that is put back as it was *)
LEMMA PutSame ==
    ASSUME NEW m, Headers(m), NEW b
    PROVE  /\ b \in DOMAIN m => Put(m, b, "prevSeg", m[b].prevSeg) = m
           /\ b \in DOMAIN m => Put(m, b, "nextSeg", m[b].nextSeg) = m
           /\ \A v : b \notin DOMAIN m => Put(m, b, "prevSeg", v) = m
           /\ \A v : b \notin DOMAIN m => Put(m, b, "nextSeg", v) = m
<1>1. \A h \in memseghdr : [h EXCEPT !.prevSeg = h.prevSeg] = h
                           /\ [h EXCEPT !.nextSeg = h.nextSeg] = h
  BY DEF memseghdr
<1>2. ASSUME b \in DOMAIN m PROVE Put(m, b, "prevSeg", m[b].prevSeg) = m
  <2>1. Put(m, b, "prevSeg", m[b].prevSeg) = [m EXCEPT ![b] = [m[b] EXCEPT !.prevSeg = m[b].prevSeg]]
    BY <1>2 DEF Put
  <2>2. [m[b] EXCEPT !.prevSeg = m[b].prevSeg] = m[b]
    BY <1>1, <1>2 DEF Headers
  <2> QED  BY <2>1, <2>2 DEF Headers
<1>3. ASSUME b \in DOMAIN m PROVE Put(m, b, "nextSeg", m[b].nextSeg) = m
  <2>1. Put(m, b, "nextSeg", m[b].nextSeg) = [m EXCEPT ![b] = [m[b] EXCEPT !.nextSeg = m[b].nextSeg]]
    BY <1>3 DEF Put
  <2>2. [m[b] EXCEPT !.nextSeg = m[b].nextSeg] = m[b]
    BY <1>1, <1>3 DEF Headers
  <2> QED  BY <2>1, <2>2 DEF Headers
<1> QED  BY <1>2, <1>3 DEF Put

(* The neighbours of a segment of the chain *)
LEMMA Neighbours ==
    ASSUME NEW m, NEW chain, NEW live, NEW first, NEW held,
           Shape(m, chain, live, first, held), NEW s \in chain
    PROVE  /\ s \in DOMAIN m /\ s \in Nat /\ s # Null /\ Headers(m) /\ m[s].prevSeg \in Nat
           /\ m[s].nextSeg \in Nat /\ chain \subseteq DOMAIN m
           /\ m[s].nextSeg # Null =>
                /\ m[s].nextSeg \in chain /\ s < m[s].nextSeg
                /\ m[m[s].nextSeg].prevSeg = s
           /\ m[s].prevSeg # Null =>
                /\ m[s].prevSeg \in chain /\ m[s].prevSeg < s
                /\ m[m[s].prevSeg].nextSeg = s
           /\ Null \notin DOMAIN m
<1>1. /\ Typed(m) /\ chain \subseteq DOMAIN m /\ Tiles(m, chain)
  BY DEF Shape
<1>2. /\ Headers(m) /\ Null \notin DOMAIN m
      /\ \A a \in DOMAIN m : /\ a \in Nat /\ a # Null /\ m[a].nextSeg \in Nat
                             /\ m[a].prevSeg \in Nat /\ a < End(m, a)
  BY <1>1, Fields
<1>3. \A c \in chain : m[c].nextSeg # Null =>
        /\ m[c].nextSeg \in chain /\ c < m[c].nextSeg
        /\ m[m[c].nextSeg].prevSeg = c
  BY <1>1, <1>2 DEF Tiles
<1>4. m[s].prevSeg # Null =>
        /\ m[s].prevSeg \in chain /\ m[s].prevSeg < s
        /\ m[m[s].prevSeg].nextSeg = s
  <2>1. SUFFICES ASSUME m[s].prevSeg # Null
                 PROVE  /\ m[s].prevSeg \in chain /\ m[s].prevSeg < s
                        /\ m[m[s].prevSeg].nextSeg = s
    OBVIOUS
  <2>2. m[s].prevSeg \in chain /\ m[m[s].prevSeg].nextSeg = s
    BY <1>1, <2>1 DEF Tiles
  <2>3. m[s].prevSeg < s
    BY <1>1, <1>2, <1>3, <2>2
  <2> QED  BY <2>2, <2>3
<1> QED  BY <1>1, <1>2, <1>3, <1>4

MergedBelow(m, chain, s) ==
    \A c \in chain :
      m[c].isFree /\ m[c].nextSeg # Null /\ m[m[c].nextSeg].isFree => m[c].nextSeg = s

LEMMA MergeNextShape ==
    ASSUME NEW m, NEW chain, NEW live, NEW first \in Nat, NEW held, held \subseteq Blocks,
           Shape(m, chain, live, first, held), NEW s \in chain,
           m[s].isFree, Merged(m, chain, s), NEW n, n = MergeNext(m, s)
    PROVE  \E left \in SUBSET chain :
             /\ Shape(n, left, live, first, held) /\ s \in left
             /\ n[s].isFree /\ MergedBelow(n, left, s) /\ DOMAIN n = DOMAIN m
<1> DEFINE x == m[s].nextSeg
<1>1. /\ s \in DOMAIN m /\ s \in Nat /\ s # Null /\ Headers(m) /\ chain \subseteq DOMAIN m
      /\ x \in Nat /\ Null \notin DOMAIN m
      /\ x # Null => x \in chain /\ s < x /\ m[x].prevSeg = s
  BY Neighbours
<1>2. Put(m, x, "prevSeg", s) = m
  BY <1>1, PutSame
<1>3. n = IF x # Null /\ At(m, x).isFree THEN combinefreesegs(m, s, x) ELSE m
  BY <1>2 DEF MergeNext
<1>4. CASE x # Null /\ m[x].isFree
  <2>1. At(m, x) = m[x]
    BY <1>1, <1>4 DEF At
  <2>2. n = Combine(m, s, x)
    <3>1. ~ (s = x \/ s = Null \/ x = Null) /\ s < x
      BY <1>1, <1>4
    <3> QED  BY <1>3, <1>4, <2>1, <3>1 DEF combinefreesegs
  <2>3. Combined(m, n, s, x)
    <3>1. s # x /\ x \in DOMAIN m
      BY <1>1, <1>4
    <3> QED  BY <1>1, <2>2, <3>1, CombineEffect
  <2> DEFINE left == chain \ {x}
  <2>4. /\ Shape(n, left, live, first, held) /\ s \in left
        /\ \A c \in left :
             /\ n[c].isFree = m[c].isFree
             /\ n[c].prevSeg = IF c = m[x].nextSeg THEN s ELSE m[c].prevSeg
             /\ n[c].nextSeg = IF c = s THEN m[x].nextSeg ELSE m[c].nextSeg
    <3>1. PICK y : y = x
      OBVIOUS
    <3>2. y = m[s].nextSeg /\ y # Null /\ m[s].isFree /\ m[y].isFree /\ Combined(m, n, s, y)
      BY <1>4, <2>3, <3>1
    <3>3. Shape(n, chain \ {y}, live, first, held)
      BY <3>2, CombineShape
    <3> QED  BY <1>1, <1>4, <2>3, <3>1, <3>3 DEF Combined
  <2>5. ASSUME NEW c \in left, n[c].isFree, n[c].nextSeg # Null, n[n[c].nextSeg].isFree
        PROVE  n[c].nextSeg = s
    <3>1. n[c].nextSeg \in left /\ n[c].nextSeg \in chain /\ m[c].isFree
          /\ m[n[c].nextSeg].isFree
      <4>1. n[c].nextSeg \in left
        BY <2>4, <2>5, Neighbours
      <4> QED  BY <2>4, <2>5, <4>1
    <3>2. CASE c = s
      <4> DEFINE y == m[x].nextSeg
      <4>1. n[c].nextSeg = y /\ y # Null /\ m[y].isFree
        BY <2>4, <2>5, <3>1, <3>2
      <4>2. x \in Nat /\ y \in Nat /\ x < y
        BY <1>1, <1>4, <4>1, Neighbours
      <4>3. x = s \/ y = s
        BY <1>1, <1>4, <4>1 DEF Merged
      <4> QED  BY <1>1, <1>4, <4>2, <4>3
    <3>3. CASE c # s
      <4>1. n[c].nextSeg = m[c].nextSeg
        BY <2>4, <3>3
      <4> QED  BY <2>5, <3>1, <3>3, <4>1 DEF Merged
    <3> QED  BY <3>2, <3>3
  <2>6. MergedBelow(n, left, s)
    BY <2>5 DEF MergedBelow
  <2>7. n[s].isFree /\ DOMAIN n = DOMAIN m
    BY <2>3, <2>4 DEF Combined
  <2> QED  BY <2>4, <2>6, <2>7
<1>5. CASE ~ (x # Null /\ m[x].isFree)
  <2>1. n = m
    BY <1>1, <1>3, <1>5 DEF At, Overwritten
  <2>2. MergedBelow(m, chain, s)
    BY <1>5 DEF Merged, MergedBelow
  <2> QED  BY <2>1, <2>2
<1> QED  BY <1>4, <1>5

LEMMA MergePrevShape ==
    ASSUME NEW m, NEW chain, NEW live, NEW first \in Nat, NEW held, held \subseteq Blocks,
           Shape(m, chain, live, first, held), NEW s \in chain,
           m[s].isFree, MergedBelow(m, chain, s), NEW n, n = MergePrev(m, s)
    PROVE  \E left \in SUBSET chain :
             Good(n, left, live, first, held) /\ DOMAIN n = DOMAIN m
<1> DEFINE p == m[s].prevSeg
<1>1. /\ s \in DOMAIN m /\ s \in Nat /\ s # Null /\ Headers(m) /\ chain \subseteq DOMAIN m
      /\ p \in Nat /\ Null \notin DOMAIN m
      /\ p # Null => p \in chain /\ p < s /\ m[p].nextSeg = s
  BY Neighbours
<1>2. Put(m, p, "nextSeg", s) = m
  BY <1>1, PutSame
<1>3. n = IF p # Null /\ At(m, p).isFree THEN combinefreesegs(m, s, p) ELSE m
  BY <1>2 DEF MergePrev
<1>4. CASE p # Null /\ m[p].isFree
  <2>1. At(m, p) = m[p]
    BY <1>1, <1>4 DEF At
  <2>2. n = Combine(m, p, s)
    <3>1. ~ (s = p \/ s = Null \/ p = Null) /\ ~ (s < p)
      BY <1>1, <1>4
    <3> QED  BY <1>3, <1>4, <2>1, <3>1 DEF combinefreesegs
  <2>3. Combined(m, n, p, s)
    <3>1. s # p /\ p \in DOMAIN m
      BY <1>1, <1>4
    <3> QED  BY <1>1, <2>2, <3>1, CombineEffect
  <2> DEFINE left == chain \ {s}
  <2>4. /\ Shape(n, left, live, first, held) /\ p \in left
        /\ \A c \in left :
             /\ n[c].isFree = m[c].isFree
             /\ n[c].prevSeg = IF c = m[s].nextSeg THEN p ELSE m[c].prevSeg
             /\ n[c].nextSeg = IF c = p THEN m[s].nextSeg ELSE m[c].nextSeg
    <3>1. PICK y : y = p
      OBVIOUS
    <3>2. /\ y \in chain /\ s = m[y].nextSeg /\ s # Null /\ m[y].isFree
          /\ Combined(m, n, y, s)
      BY <1>1, <1>4, <2>3, <3>1
    <3>3. Shape(n, chain \ {s}, live, first, held)
      BY <3>2, CombineShape
    <3> QED  BY <1>1, <1>4, <2>3, <3>1, <3>3 DEF Combined
  <2>5. ASSUME NEW c \in left, n[c].isFree, n[c].nextSeg # Null, n[n[c].nextSeg].isFree
        PROVE  FALSE
    <3>1. n[c].nextSeg \in left /\ n[c].nextSeg \in chain /\ m[c].isFree
          /\ m[n[c].nextSeg].isFree
      <4>1. n[c].nextSeg \in left
        BY <2>4, <2>5, Neighbours
      <4> QED  BY <2>4, <2>5, <4>1
    <3>2. CASE c = p
      <4>1. n[c].nextSeg = m[s].nextSeg
        BY <2>4, <3>2
      <4>2. m[s].nextSeg = s
        BY <2>5, <3>1, <4>1 DEF MergedBelow
      <4> QED  BY <3>1, <4>1, <4>2
    <3>3. CASE c # p
      <4>1. n[c].nextSeg = m[c].nextSeg
        BY <2>4, <3>3
      <4>2. m[c].nextSeg = s
        BY <2>5, <3>1, <4>1 DEF MergedBelow
      <4> QED  BY <3>1, <4>1, <4>2
    <3> QED  BY <3>2, <3>3
  <2>6. Merged(n, left, Null)
    BY <2>5 DEF Merged
  <2>7. DOMAIN n = DOMAIN m
    BY <2>3 DEF Combined
  <2> QED  BY <2>4, <2>6, <2>7 DEF Good
<1>5. CASE ~ (p # Null /\ m[p].isFree)
  <2>1. n = m
    BY <1>1, <1>3, <1>5 DEF At, Overwritten
  <2>2. ASSUME NEW c \in chain, m[c].isFree, m[c].nextSeg # Null, m[m[c].nextSeg].isFree
        PROVE  FALSE
    <3>1. m[c].nextSeg = s
      BY <2>2 DEF MergedBelow
    <3>2. p = c /\ c # Null
      BY <2>2, <3>1, Neighbours
    <3> QED  BY <1>5, <2>2, <3>2
  <2>3. Merged(m, chain, Null)
    BY <2>2 DEF Merged
  <2> QED  BY <2>1, <2>3 DEF Good
<1> QED  BY <1>4, <1>5

(* free gives a block back and loses nothing *)
(* What a step leaves behind *)
Released(n, live, held) ==
    n.first \in Nat /\ \E left : Good(n.memory, left, live, n.first, held)

LEMMA FreeGood ==
    ASSUME NEW m, NEW chain, NEW live, NEW first \in Nat, NEW held, held \subseteq Blocks,
           Good(m, chain, live, first, held),
           NEW b \in held, Alone(b, held),
           NEW n, n = AfterFree(m, first, b.addr)
    PROVE  Released(n, live, held \ {b})
<1> DEFINE s  == b.addr - HdrWords
           nfirst == IF s < first THEN s ELSE first
           m1 == RelinkFree([m EXCEPT ![s].isFree = TRUE], s)
           m2 == MergeNext(m1, s)
           m3 == MergePrev(m2, s)
           rest == held \ {b}
<1>1. n.memory = m3 /\ n.first = nfirst
  BY DEF AfterFree
<1>2. Shape(m, chain, live, first, held) /\ s \in chain
  BY DEF Good, Shape, Uses
<1>3. s \in DOMAIN m /\ s \in Nat /\ s # Null /\ Headers(m)
  <2>1. PICK t : t = s
    OBVIOUS
  <2> HIDE DEF s
  <2>2. t \in DOMAIN m /\ t \in Nat /\ t # Null /\ Headers(m)
    BY <1>2, <2>1, Neighbours
  <2> QED  BY <2>1, <2>2
<1>4. m[s].nextFreeSeg # s
  BY <1>2, <1>3 DEF Shape, Hints
<1>5. Freed(m, m1, s)
  BY <1>3, <1>4, RelinkEffect
<1>6. rest \subseteq Blocks /\ nfirst \in Nat
  BY <1>3
<1> HIDE DEF m1, s, nfirst, rest
<1>7. Shape(m1, chain, live, nfirst, rest) /\ Merged(m1, chain, s) /\ m1[s].isFree
  <2>1. s = b.addr - HdrWords /\ nfirst = (IF s < first THEN s ELSE first)
        /\ rest = held \ {b}
    BY DEF s, nfirst, rest
  <2>2. /\ Shape(m1, chain, live, nfirst, held \ {b}) /\ Merged(m1, chain, s)
        /\ m1[s].isFree
    <3>1. PICK z : z = m1
      OBVIOUS
    <3>2. PICK t : t = s
      OBVIOUS
    <3>3. Freed(m, z, t) /\ BlockOf(t, b, held) /\ NewHead(first, t) = nfirst
      BY <1>5, <2>1, <3>1, <3>2 DEF NewHead, BlockOf
    <3>4. Shape(z, chain, live, NewHead(first, t), held \ {b}) /\ Merged(z, chain, t)
      BY <3>3, RelinkShape
    <3>5. m1[s].isFree
      BY <1>3, <1>5 DEF Freed
    <3> QED  BY <3>1, <3>2, <3>3, <3>4, <3>5
  <2> QED  BY <2>1, <2>2
<1> HIDE DEF m2
<1>8. PICK mid \in SUBSET chain :
        /\ Shape(m2, mid, live, nfirst, rest) /\ s \in mid
        /\ m2[s].isFree /\ MergedBelow(m2, mid, s) /\ DOMAIN m2 = DOMAIN m1
  BY <1>2, <1>6, <1>7, MergeNextShape DEF m2
<1> HIDE DEF m3
<1>9. PICK left \in SUBSET mid :
        Good(m3, left, live, nfirst, rest) /\ DOMAIN m3 = DOMAIN m2
  BY <1>6, <1>8, MergePrevShape DEF m3
<1> QED  BY <1>1, <1>6, <1>9 DEF rest, Released

------------------------------------------------------------------------------
(* What pointers lead to *)

Further(leads, S) == S \cup UNION {leads[a] : a \in S \cap DOMAIN leads}

Follows(leads, at, roots, n) ==
    at = [k \in 0 .. n |-> IF k = 0 THEN roots ELSE Further(leads, at[k - 1])]

LEMMA SomeFollows ==
    ASSUME NEW leads, NEW roots, NEW n \in Nat
    PROVE  \E at : Follows(leads, at, roots, n)
<1> DEFINE S == {k \in Nat : ~ \E at : Follows(leads, at, roots, k)}
<1>1. SUFFICES ASSUME S # {} PROVE FALSE
  OBVIOUS
<1>2. PICK k \in S : \A j \in Nat : j < k => j \notin S
  BY <1>1, Least
<1>3. CASE k = 0
  <2> DEFINE at == [j \in 0 .. 0 |-> roots]
  <2>1. at = [j \in 0 .. 0 |-> IF j = 0 THEN roots ELSE Further(leads, at[j - 1])]
    OBVIOUS
  <2>2. Follows(leads, at, roots, 0)
    BY <2>1 DEF Follows
  <2> QED  BY <1>3, <2>2
<1>4. CASE k # 0
  <2>1. k - 1 \in Nat /\ k - 1 < k
    BY <1>4
  <2>2. PICK at : Follows(leads, at, roots, k - 1)
    BY <1>2, <2>1
  <2> DEFINE to == [j \in 0 .. k |-> IF j = k THEN Further(leads, at[k - 1]) ELSE at[j]]
  <2>3. \A j \in 0 .. k - 1 : at[j] = IF j = 0 THEN roots ELSE Further(leads, at[j - 1])
    BY <2>2 DEF Follows
  <2>4. \A j \in 0 .. k : to[j] = IF j = 0 THEN roots ELSE Further(leads, to[j - 1])
    BY <2>1, <2>3
  <2>5. to = [j \in 0 .. k |-> IF j = 0 THEN roots ELSE Further(leads, to[j - 1])]
    BY <2>4
  <2>6. Follows(leads, to, roots, k)
    BY <2>5 DEF Follows
  <2> QED  BY <2>6
<1> QED  BY <1>3, <1>4

LEMMA ClosureSteps ==
    ASSUME NEW leads, NEW roots, NEW K \in Nat, K = Cardinality(DOMAIN leads)
    PROVE  \E at : /\ Closure(leads, roots) = at[K] /\ at[0] = roots
                   /\ \A k \in 1 .. K : at[k] = Further(leads, at[k - 1])
<1> DEFINE at == CHOOSE f : f = [k \in 0 .. K |-> IF k = 0 THEN roots
                       ELSE f[k - 1] \cup UNION {leads[a] : a \in f[k - 1] \cap DOMAIN leads}]
<1>1. \E f : Follows(leads, f, roots, K)
  BY SomeFollows
<1>2. Closure(leads, roots) = at[K]
  BY DEF Closure
<1>3. at = [k \in 0 .. K |-> IF k = 0 THEN roots
              ELSE at[k - 1] \cup UNION {leads[a] : a \in at[k - 1] \cap DOMAIN leads}]
  BY <1>1 DEF Follows, Further
<1> HIDE DEF at
<1>4. at[0] = roots
  BY <1>3
<1>5. \A k \in 1 .. K : at[k] = Further(leads, at[k - 1])
  BY <1>3 DEF Further
<1> QED  BY <1>2, <1>4, <1>5

(* The closure contains its roots, whatever these lead to, and nothing else *)
LEMMA ClosureIsClosed ==
    ASSUME NEW leads, IsFiniteSet(DOMAIN leads), NEW S, S \subseteq DOMAIN leads,
           \A a \in S : leads[a] \subseteq S,
           NEW roots, roots \subseteq S, roots # {}
    PROVE  /\ roots \subseteq Closure(leads, roots)
           /\ Closure(leads, roots) \subseteq S
           /\ \A a \in Closure(leads, roots) : leads[a] \subseteq Closure(leads, roots)
<1> DEFINE K == Cardinality(DOMAIN leads)
<1>1. K \in Nat
  BY FS_CardinalityType
<1> HIDE DEF K
<1>2. PICK at : /\ Closure(leads, roots) = at[K] /\ at[0] = roots
                /\ \A k \in 1 .. K : at[k] = Further(leads, at[k - 1])
  BY <1>1, ClosureSteps DEF K
<1>3. \A k \in 0 .. K : roots \subseteq at[k] /\ at[k] \subseteq S
  <2> DEFINE bad == {k \in 0 .. K : ~ (roots \subseteq at[k] /\ at[k] \subseteq S)}
  <2>1. SUFFICES ASSUME bad # {} PROVE FALSE
    OBVIOUS
  <2>2. PICK k \in bad : \A j \in Nat : j < k => j \notin bad
    <3>1. bad \subseteq Nat
      BY <1>1
    <3> HIDE DEF bad
    <3> QED  BY <2>1, <3>1, Least
  <2>3. k # 0
    BY <1>2
  <2>4. k - 1 \in 0 .. K /\ k - 1 \in Nat /\ k - 1 < k /\ k \in 1 .. K
    BY <1>1, <2>3
  <2>5. roots \subseteq at[k - 1] /\ at[k - 1] \subseteq S
    BY <2>2, <2>4
  <2>6. at[k] = Further(leads, at[k - 1])
    BY <1>2, <2>4
  <2> QED  BY <2>5, <2>6 DEF Further
<1>4. \E j \in 1 .. K : at[j] = at[j - 1]
  <2>1. SUFFICES ASSUME \A j \in 1 .. K : at[j] # at[j - 1] PROVE FALSE
    OBVIOUS
  <2>2. \A k \in 0 .. K : IsFiniteSet(at[k]) /\ Cardinality(at[k]) \in Nat
    BY <1>3, FS_Subset, FS_CardinalityType
  <2> DEFINE bad == {k \in 0 .. K : Cardinality(at[k]) < k + 1}
  <2>3. bad = {}
    <3>1. SUFFICES ASSUME bad # {} PROVE FALSE
      OBVIOUS
    <3>2. PICK k \in bad : \A j \in Nat : j < k => j \notin bad
      <4>1. bad \subseteq Nat
        BY <1>1
      <4> HIDE DEF bad
      <4> QED  BY <3>1, <4>1, Least
    <3>3. CASE k = 0
      <4>1. Cardinality(at[0]) # 0 /\ 0 \in 0 .. K
        BY <1>1, <1>2, <2>2, FS_EmptySet
      <4>2. ~ (Cardinality(at[0]) < 0 + 1)
        <5>1. Cardinality(at[0]) \in Nat
          BY <2>2, <4>1
        <5> QED  BY <4>1, <5>1
      <4> QED  BY <3>2, <3>3, <4>2
    <3>4. CASE k # 0
      <4>1. k - 1 \in 0 .. K /\ k - 1 \in Nat /\ k - 1 < k /\ k \in 1 .. K
        BY <1>1, <3>4
      <4>2. ~ (Cardinality(at[k - 1]) < k)
        BY <3>2, <4>1
      <4>3. at[k - 1] \subseteq at[k] /\ at[k] # at[k - 1]
        BY <1>2, <2>1, <4>1 DEF Further
      <4>4. /\ Cardinality(at[k - 1]) <= Cardinality(at[k])
            /\ Cardinality(at[k - 1]) # Cardinality(at[k])
        BY <2>2, <4>1, <4>3, FS_Subset
      <4>5. Cardinality(at[k - 1]) \in Nat /\ Cardinality(at[k]) \in Nat
        BY <2>2, <4>1
      <4>6. Cardinality(at[k]) >= k + 1
        BY <4>1, <4>2, <4>4, <4>5
      <4> QED  BY <3>2, <4>1, <4>5, <4>6
    <3> QED  BY <3>3, <3>4
  <2>4. K \in 0 .. K /\ K \notin bad
    BY <1>1, <2>3
  <2>5. Cardinality(at[K]) <= K
    <3>1. at[K] \subseteq DOMAIN leads
      BY <1>3, <2>4
    <3> QED  BY <3>1, FS_Subset DEF K
  <2>6. Cardinality(at[K]) \in Nat
    BY <2>2, <2>4
  <2> QED  BY <1>1, <2>4, <2>5, <2>6
<1>5. PICK j \in 1 .. K : at[j] = at[j - 1]
  BY <1>4
<1>6. Further(leads, at[j]) = at[j]
  BY <1>2, <1>5
<1>7. at[K] = at[j]
  <2> DEFINE bad == {k \in 1 .. K : j <= k /\ at[k] # at[j]}
  <2>1. SUFFICES ASSUME bad # {} PROVE FALSE
    <3>1. K \in 1 .. K /\ j <= K
      BY <1>1, <1>5
    <3> QED  BY <2>1, <3>1
  <2>2. PICK k \in bad : \A i \in Nat : i < k => i \notin bad
    <3>1. bad \subseteq Nat
      BY <1>1
    <3> HIDE DEF bad
    <3> QED  BY <2>1, <3>1, Least
  <2>3. k # j /\ k \in Nat /\ j \in Nat /\ j <= k /\ j >= 1
    BY <1>1, <1>5, <2>2
  <2>4. k - 1 \in 1 .. K /\ j <= k - 1 /\ k - 1 \in Nat /\ k - 1 < k
    BY <1>1, <2>2, <2>3
  <2>5. at[k - 1] = at[j]
    BY <2>2, <2>4
  <2>6. at[k] = Further(leads, at[k - 1])
    BY <1>2, <2>2
  <2> QED  BY <1>6, <2>2, <2>5, <2>6
<1>8. \A a \in at[K] : leads[a] \subseteq at[K]
  <2>1. at[K] \subseteq DOMAIN leads
    BY <1>1, <1>3
  <2> QED  BY <1>6, <1>7, <2>1 DEF Further
<1>9. K \in 0 .. K
  BY <1>1
<1> QED  BY <1>2, <1>3, <1>8, <1>9

LEMMA FiniteDomain ==
    ASSUME NEW m, Typed(m) PROVE IsFiniteSet(DOMAIN m)
<1>1. IsFiniteSet(HeapAddr .. (HeapEnd - 1))
  BY Sizes, FS_Interval
<1> QED  BY <1>1, FS_Subset DEF Typed

(* The chain is what the pointers to the next segment lead to from the base *)
LEMMA ChainWithin ==
    ASSUME NEW m, NEW chain, Typed(m), chain \subseteq DOMAIN m, Tiles(m, chain),
           NEW S, HeapAddr \in S,
           \A a \in S : a \in chain /\ m[a].nextSeg # Null => m[a].nextSeg \in S
    PROVE  chain \subseteq S
<1>1. SUFFICES ASSUME chain \ S # {} PROVE FALSE
  OBVIOUS
<1>2. /\ chain \ S \subseteq Nat
      /\ \A a \in DOMAIN m : a \in Nat /\ a # Null /\ a < End(m, a)
  BY Fields
<1>3. PICK c \in chain \ S : \A k \in Nat : k < c => k \notin chain \ S
  BY <1>1, <1>2, Least
<1>4. m[c].prevSeg \in chain /\ m[m[c].prevSeg].nextSeg = c
  BY <1>3 DEF Tiles
<1>5. m[c].prevSeg < c
  <2>1. c # Null
    BY <1>2, <1>3
  <2> QED  BY <1>2, <1>4, <2>1 DEF Tiles
<1>6. m[c].prevSeg \in S
  BY <1>2, <1>3, <1>4, <1>5
<1>7. c # Null
  BY <1>2, <1>3
<1> QED  BY <1>3, <1>4, <1>6, <1>7

(* What is forgotten is nothing the heap needs *)
LEMMA PruneGood ==
    ASSUME NEW m, NEW chain, NEW live, NEW first, NEW held, held \subseteq Blocks,
           Good(m, chain, live, first, held), NEW n, n = Remembered(m, first, held)
    PROVE  /\ Good(n, chain, DOMAIN n, first, held)
           /\ DOMAIN n \subseteq live
<1> DEFINE leads == [a \in DOMAIN m |-> Pointers(m[a])]
           roots == Roots(first, held)
           R == Closure(leads, roots)
<1>1. /\ Typed(m) /\ chain \subseteq live /\ live \subseteq DOMAIN m /\ Tiles(m, chain)
      /\ Uses(m, chain, held) /\ Hints(m, chain) /\ HeadIsLowest(m, chain, first)
      /\ Sound(m, live, held) /\ Merged(m, chain, Null)
  BY DEF Good, Shape
<1>2. HeapAddr \in chain
  BY <1>1 DEF Tiles
<1>3. roots \subseteq live /\ roots # {} /\ HeapAddr \in roots
  BY <1>1, <1>2 DEF Roots, HeadIsLowest, Uses
<1>4. /\ DOMAIN leads = DOMAIN m /\ \A a \in DOMAIN m : leads[a] = Pointers(m[a])
      /\ \A a \in live : leads[a] \subseteq live
  BY <1>1 DEF Sound
<1> HIDE DEF leads, roots
<1>5. /\ roots \subseteq R /\ R \subseteq live
      /\ \A a \in R : leads[a] \subseteq R
  BY <1>1, <1>3, <1>4, ClosureIsClosed, FiniteDomain
<1>6. R = Reached(m, Roots(first, held))
  BY DEF Reached, leads, roots
<1> HIDE DEF R
<1>7. n = [a \in R |-> m[a]]
  <2>1. {a \in DOMAIN m : a \in Reached(m, Roots(first, held)) /\ ~ Covered(a, held)} = R
    BY <1>1, <1>5, <1>6 DEF Sound
  <2> QED  BY <2>1 DEF Remembered
<1>8. DOMAIN n = R /\ \A a \in R : n[a] = m[a]
  BY <1>7
<1>9. chain \subseteq R
  <2>1. ASSUME NEW a \in R, a \in chain, m[a].nextSeg # Null PROVE m[a].nextSeg \in R
    <3>1. m[a].nextSeg \in Pointers(m[a])
      BY <2>1 DEF Pointers
    <3> QED  BY <1>1, <1>4, <1>5, <3>1
  <2> QED  BY <1>1, <1>3, <1>5, <2>1, ChainWithin
<1>10. \A c \in chain : n[c] = m[c] /\ End(n, c) = End(m, c)
  BY <1>8, <1>9 DEF End
<1>11. Typed(n)
  BY <1>1, <1>5, <1>7 DEF Typed
<1>12. Tiles(n, chain)
  BY <1>1, <1>10 DEF Tiles
<1>13. Uses(n, chain, held)
  BY <1>1, <1>10 DEF Uses
<1>14. Hints(n, chain)
  <2>1. \A c, p : InFree(m, chain, p, c) => InFree(n, chain, p, c)
    BY <1>10 DEF InFree
  <2>2. \A c \in chain : m[c].nextSeg # Null => m[c].nextSeg \in chain
    BY <1>1 DEF Tiles
  <2> QED  BY <1>1, <1>10, <2>1, <2>2 DEF Hints
<1>15. HeadIsLowest(n, chain, first)
  BY <1>1, <1>10 DEF HeadIsLowest
<1>16. Sound(n, R, held)
  BY <1>1, <1>4, <1>5, <1>8 DEF Sound
<1>17. Merged(n, chain, Null)
  <2>1. \A c \in chain : m[c].nextSeg # Null => m[c].nextSeg \in chain
    BY <1>1 DEF Tiles
  <2> QED  BY <1>1, <1>10, <2>1 DEF Merged
<1> QED  BY <1>5, <1>8, <1>9, <1>11, <1>12, <1>13, <1>14, <1>15, <1>16, <1>17
         DEF Good, Shape

------------------------------------------------------------------------------
(* What malloc does to the segments *)

(* No freed block lies below one in use *)
Dense(held) ==
    \A b \in held : \/ b.addr = HeapAddr + HdrWords
                    \/ \E c \in held : c.addr + c.size + HdrWords = b.addr

(* Then at most the last segment is free, and no segment keeps a hint down *)
LEMMA DenseShape ==
    ASSUME NEW m, NEW chain, NEW live, NEW first, NEW held, held \subseteq Blocks,
           Good(m, chain, live, first, held), Dense(held)
    PROVE  /\ \A f \in chain : m[f].isFree =>
                /\ m[f].nextSeg = Null /\ m[f].nextFreeSeg = Null
                /\ \A c \in chain : c # f => c < f /\ ~ m[c].isFree
           /\ \A c \in chain : m[c].prevFreeSeg = Null
<1>1. /\ Typed(m) /\ chain \subseteq DOMAIN m /\ Tiles(m, chain)
      /\ Uses(m, chain, held) /\ Hints(m, chain) /\ Merged(m, chain, Null)
  BY DEF Good, Shape
<1>2. \A a \in DOMAIN m :
        /\ a \in Nat /\ a # Null /\ HeapAddr <= a
        /\ m[a].memLength \in Nat /\ m[a].isFree \in BOOLEAN
        /\ End(m, a) \in Nat /\ a < End(m, a)
  BY <1>1, Fields
<1>3. ASSUME NEW f \in chain, m[f].isFree
      PROVE  \A c \in chain : f < c => m[c].isFree
  <2> DEFINE bad == {c \in chain : f < c /\ ~ m[c].isFree}
  <2>1. SUFFICES ASSUME bad # {} PROVE FALSE
    BY <1>1, <1>2
  <2>2. PICK c \in bad : \A k \in Nat : k < c => k \notin bad
    <3>1. bad \subseteq Nat
      BY <1>1, <1>2
    <3> HIDE DEF bad
    <3> QED  BY <2>1, <3>1, Least
  <2>3. PICK b \in held : b.addr = c + HdrWords
    BY <1>1, <2>2 DEF Uses
  <2>4. c \in Nat /\ f \in Nat /\ HeapAddr <= f /\ f < c
    BY <1>1, <1>2, <2>2
  <2>5. PICK d \in held : d.addr + d.size + HdrWords = b.addr
    <3>1. b.addr # HeapAddr + HdrWords
      BY <2>3, <2>4, Sizes
    <3> QED  BY <3>1 DEF Dense
  <2>6. PICK e : e = d.addr - HdrWords
    OBVIOUS
  <2>7. e \in chain /\ m[e].memLength = d.size /\ d.addr = e + HdrWords /\ d.size \in Nat
    BY <1>1, <2>6, Sizes DEF Uses, Blocks
  <2>8. ~ m[e].isFree
    BY <1>1, <2>7 DEF Uses
  <2>9. End(m, e) = c
    <3>1. e \in Nat
      BY <1>1, <1>2, <2>7
    <3>2. e + HdrWords + d.size + HdrWords = c + HdrWords
      BY <2>3, <2>5, <2>7
    <3> QED  BY <2>4, <2>7, <3>1, <3>2, Sizes DEF End
  <2>10. e < c /\ e \in Nat
    BY <1>1, <1>2, <2>7, <2>9
  <2>11. ~ (f < e)
    BY <2>2, <2>7, <2>8, <2>10
  <2>12. e # f
    BY <1>3, <2>8
  <2>13. End(m, e) <= f
    <3>1. e < f
      BY <2>4, <2>10, <2>11, <2>12
    <3> QED  BY <1>1, <2>7, <3>1 DEF Tiles
  <2> QED  BY <2>4, <2>9, <2>13
<1>4. ASSUME NEW f \in chain, m[f].isFree
      PROVE  /\ m[f].nextSeg = Null /\ m[f].nextFreeSeg = Null
             /\ \A c \in chain : c # f => c < f /\ ~ m[c].isFree
  <2>1. m[f].nextSeg = Null
    <3>1. SUFFICES ASSUME m[f].nextSeg # Null PROVE FALSE
      OBVIOUS
    <3>2. m[f].nextSeg \in chain /\ m[f].nextSeg = End(m, f)
      BY <1>1, <3>1 DEF Tiles
    <3>3. m[m[f].nextSeg].isFree
      BY <1>1, <1>2, <1>3, <1>4, <3>2
    <3>4. f # Null /\ m[f].nextSeg # Null
      BY <1>1, <1>2, <3>1
    <3> QED  BY <1>1, <1>4, <3>3, <3>4 DEF Merged
  <2>2. ASSUME NEW c \in chain, c # f PROVE c < f /\ ~ m[c].isFree
    <3>1. ~ (f < c)
      BY <1>1, <2>1 DEF Tiles
    <3>2. c < f
      BY <1>1, <1>2, <2>2, <3>1
    <3>3. SUFFICES ASSUME m[c].isFree PROVE FALSE
      BY <3>2
    <3>4. m[c].nextSeg # Null /\ m[c].nextSeg \in chain /\ m[c].nextSeg = End(m, c)
      BY <1>1, <3>2 DEF Tiles
    <3>5. m[m[c].nextSeg].isFree
      BY <1>1, <1>2, <1>3, <3>3, <3>4
    <3>6. c # Null
      BY <1>1, <1>2
    <3> QED  BY <1>1, <3>3, <3>4, <3>5, <3>6 DEF Merged
  <2> QED  BY <1>1, <2>1, <2>2 DEF Hints
<1>5. ASSUME NEW c \in chain, m[c].prevFreeSeg # Null PROVE FALSE
  <2>1. PICK f \in chain : m[f].isFree /\ f < c
    BY <1>1, <1>5 DEF Hints, InFree
  <2>2. c < f
    BY <1>1, <1>2, <1>4, <2>1
  <2> QED  BY <1>1, <1>2, <2>1, <2>2
<1> QED  BY <1>4, <1>5

(* The walk along the free list is what it says, for any number of steps *)
WalkOf(m, at, first, n) ==
    at = [k \in 0 .. n |-> IF k = 0 THEN first ELSE At(m, at[k - 1]).nextFreeSeg]

LEMMA SomeWalk ==
    ASSUME NEW m, NEW first, NEW n \in Nat
    PROVE  \E at : WalkOf(m, at, first, n)
<1> DEFINE S == {k \in Nat : ~ \E at : WalkOf(m, at, first, k)}
<1>1. SUFFICES ASSUME S # {} PROVE FALSE
  OBVIOUS
<1>2. PICK k \in S : \A j \in Nat : j < k => j \notin S
  BY <1>1, Least
<1>3. CASE k = 0
  <2> DEFINE at == [j \in 0 .. 0 |-> first]
  <2>1. at = [j \in 0 .. 0 |-> IF j = 0 THEN first ELSE At(m, at[j - 1]).nextFreeSeg]
    OBVIOUS
  <2>2. WalkOf(m, at, first, 0)
    BY <2>1 DEF WalkOf
  <2> QED  BY <1>3, <2>2
<1>4. CASE k # 0
  <2>1. k - 1 \in Nat /\ k - 1 < k
    BY <1>4
  <2>2. PICK at : WalkOf(m, at, first, k - 1)
    BY <1>2, <2>1
  <2> DEFINE to == [j \in 0 .. k |-> IF j = k THEN At(m, at[k - 1]).nextFreeSeg ELSE at[j]]
  <2>3. \A j \in 0 .. k - 1 :
          at[j] = IF j = 0 THEN first ELSE At(m, at[j - 1]).nextFreeSeg
    BY <2>2 DEF WalkOf
  <2>4. \A j \in 0 .. k : to[j] = IF j = 0 THEN first ELSE At(m, to[j - 1]).nextFreeSeg
    BY <2>1, <2>3
  <2>5. to = [j \in 0 .. k |-> IF j = 0 THEN first ELSE At(m, to[j - 1]).nextFreeSeg]
    BY <2>4
  <2>6. WalkOf(m, to, first, k)
    BY <2>5 DEF WalkOf
  <2> QED  BY <2>6
<1> QED  BY <1>3, <1>4

LEMMA FreeListSteps ==
    ASSUME NEW m, NEW first, Cardinality(DOMAIN m) \in Nat
    PROVE  WalkOf(m, FreeList(m, first), first, Cardinality(DOMAIN m))
<1> DEFINE at == FreeList(m, first)
           K == Cardinality(DOMAIN m)
<1>1. \E f : WalkOf(m, f, first, K)
  BY SomeWalk
<1>2. at = CHOOSE f : f = [k \in 0 .. K |->
                             IF k = 0 THEN first ELSE At(m, f[k - 1]).nextFreeSeg]
  BY DEF FreeList, Hops
<1>3. at = [k \in 0 .. K |-> IF k = 0 THEN first ELSE At(m, at[k - 1]).nextFreeSeg]
  BY <1>1, <1>2 DEF WalkOf
<1> QED  BY <1>3 DEF WalkOf

LEMMA OnlyFree ==
    ASSUME NEW m, NEW chain, NEW live, NEW first, NEW held, held \subseteq Blocks,
           Good(m, chain, live, first, held), Dense(held)
    PROVE  /\ DOMAIN FreeList(m, first) = Hops(m) /\ 0 \in Hops(m)
           /\ FreeList(m, first)[0] = first
           /\ \A k \in Hops(m) : k # 0 => FreeList(m, first)[k] = Null
<1> DEFINE at == FreeList(m, first)
           K == Cardinality(DOMAIN m)
<1>1. Typed(m) /\ chain \subseteq DOMAIN m /\ HeadIsLowest(m, chain, first)
  BY DEF Good, Shape
<1>2. K \in Nat
  BY <1>1, FiniteDomain, FS_CardinalityType
<1>3. Null \notin DOMAIN m
  BY <1>1, Fields
<1> HIDE DEF K, at
<1>4. at = [k \in 0 .. K |-> IF k = 0 THEN first ELSE At(m, at[k - 1]).nextFreeSeg]
  BY <1>2, FreeListSteps DEF WalkOf, K, at
<1>5. At(m, first).nextFreeSeg = Null /\ At(m, Null).nextFreeSeg = Null
  <2>1. At(m, Null).nextFreeSeg = Null
    BY <1>3 DEF At, Overwritten
  <2>2. CASE first # Null
    <3>1. first \in chain /\ m[first].isFree
      BY <1>1, <2>2 DEF HeadIsLowest
    <3>2. m[first].nextFreeSeg = Null
      BY <3>1, DenseShape
    <3> QED  BY <1>1, <2>1, <3>1, <3>2 DEF At
  <2> QED  BY <2>1, <2>2
<1>6. DOMAIN at = 0 .. K /\ at[0] = first
  BY <1>2, <1>4
<1>7. \A k \in 0 .. K : k # 0 => at[k] = Null
  <2> DEFINE bad == {k \in 0 .. K : k # 0 /\ at[k] # Null}
  <2>1. SUFFICES ASSUME bad # {} PROVE FALSE
    OBVIOUS
  <2>2. PICK k \in bad : \A j \in Nat : j < k => j \notin bad
    <3>1. bad \subseteq Nat
      BY <1>2
    <3> HIDE DEF bad
    <3> QED  BY <2>1, <3>1, Least
  <2>3. k - 1 \in 0 .. K /\ k - 1 \in Nat /\ k - 1 < k
    BY <1>2, <2>2
  <2>4. at[k] = At(m, at[k - 1]).nextFreeSeg
    BY <1>4, <2>2
  <2>5. at[k - 1] = first \/ at[k - 1] = Null
    BY <1>6, <2>2, <2>3
  <2> QED  BY <1>5, <2>2, <2>4, <2>5
<1>8. Hops(m) = 0 .. K /\ 0 \in 0 .. K
  BY <1>2 DEF Hops, K
<1> QED  BY <1>6, <1>7, <1>8 DEF at

(* The search finds the one free segment or none *)
LEMMA FitFirst ==
    ASSUME NEW m, NEW chain, NEW live, NEW first, NEW held, held \subseteq Blocks,
           Good(m, chain, live, first, held), Dense(held),
           NEW size, Stops(m, first, size) # {}, NEW s, s = Fit(m, first, size), s # Null
    PROVE  s = first /\ s \in chain /\ m[s].isFree /\ m[s].memLength >= size
<1> DEFINE at == FreeList(m, first)
           stops == Stops(m, first, size)
<1>1. /\ 0 \in Hops(m) /\ at[0] = first
      /\ \A k \in Hops(m) : k # 0 => at[k] = Null
  BY OnlyFree
<1>2. Hops(m) \subseteq Nat
  BY DEF Hops
<1>3. stops \subseteq Hops(m) /\ \A k \in stops : at[k] = Null \/ At(m, at[k]).memLength >= size
  BY DEF Stops
<1> HIDE DEF stops
<1>4. PICK k \in stops : \A j \in Nat : j < k => j \notin stops
  <2>1. stops \subseteq Nat /\ stops # {}
    BY <1>2, <1>3 DEF stops
  <2> QED  BY <2>1, Least
<1>5. Min(stops) \in stops
  <2>1. \A j \in stops : k <= j
    BY <1>2, <1>3, <1>4
  <2> QED  BY <1>4, <2>1 DEF Min
<1>6. s = at[Min(stops)]
  BY DEF Fit, stops
<1>7. Min(stops) = 0
  BY <1>1, <1>3, <1>5, <1>6
<1>8. s = first /\ At(m, s).memLength >= size
  BY <1>1, <1>3, <1>5, <1>6, <1>7
<1>9. first \in chain /\ m[first].isFree /\ chain \subseteq DOMAIN m
  BY <1>8 DEF Good, Shape, HeadIsLowest
<1> QED  BY <1>8, <1>9 DEF At

(* The last segment s gives size words to a caller; the rest, if it is long *)
(* enough for a header, is a segment at t, which is null otherwise.         *)
Taken(m, n, s, size, t) ==
    /\ DOMAIN n = DOMAIN m \cup ({t} \ {Null}) /\ Headers(n)
    /\ t # Null =>
         /\ n[t].memLength = m[s].memLength - (HdrWords + size)
         /\ n[t].nextSeg = Null /\ n[t].prevSeg = s
         /\ n[t].nextFreeSeg = Null /\ n[t].prevFreeSeg = Null /\ n[t].isFree
    /\ n[s].memLength = size /\ n[s].nextSeg = t /\ n[s].prevSeg = m[s].prevSeg
    /\ n[s].nextFreeSeg = t /\ n[s].prevFreeSeg = Null /\ ~ n[s].isFree
    /\ \A a \in DOMAIN m \ {s, t} :
         /\ n[a].memLength = m[a].memLength /\ n[a].isFree = m[a].isFree
         /\ n[a].nextSeg = m[a].nextSeg /\ n[a].prevSeg = m[a].prevSeg
         /\ n[a].nextFreeSeg = IF a = m[s].prevSeg THEN t ELSE m[a].nextFreeSeg
         /\ n[a].prevFreeSeg = m[a].prevFreeSeg

(* A segment that is taken: t comes after it, p before *)
Unlinked(m, n, s, size, t, p) ==
    /\ DOMAIN n = DOMAIN m /\ Headers(n)
    /\ n[s].memLength = size /\ n[s].nextSeg = t /\ n[s].prevSeg = m[s].prevSeg
    /\ n[s].nextFreeSeg = t /\ n[s].prevFreeSeg = Null /\ ~ n[s].isFree
    /\ \A a \in DOMAIN m \ {s} :
         /\ n[a].memLength = m[a].memLength /\ n[a].isFree = m[a].isFree
         /\ n[a].nextSeg = m[a].nextSeg /\ n[a].prevSeg = m[a].prevSeg
         /\ n[a].nextFreeSeg = IF a = p THEN t ELSE m[a].nextFreeSeg
         /\ n[a].prevFreeSeg = IF a = t THEN Null ELSE m[a].prevFreeSeg

LEMMA UnlinkEffect ==
    ASSUME NEW m, Headers(m), Null \notin DOMAIN m, NEW s \in DOMAIN m, NEW size \in Nat,
           NEW t \in Nat, NEW p, p = m[s].prevSeg, p # s, t # s,
           m[s].nextSeg = t, m[s].nextFreeSeg = t, m[s].prevFreeSeg = Null,
           NEW n, n = Unlink(m, s, size)
    PROVE  Unlinked(m, n, s, size, t, p)
<1> DEFINE h1 == [m[s] EXCEPT !.isFree = FALSE, !.memLength = size]
           m1 == [m EXCEPT ![s] = h1]
           m3 == Put(m1, t, "prevFreeSeg", Null)
           m4 == Put(m3, p, "nextFreeSeg", t)
           m5 == Put(m4, t, "prevFreeSeg", Null)
<1>1. /\ h1 \in memseghdr /\ ~ h1.isFree /\ h1.memLength = size
      /\ h1.nextSeg = t /\ h1.prevSeg = p /\ h1.nextFreeSeg = t /\ h1.prevFreeSeg = Null
  BY DEF Headers, memseghdr
<1>2. [m EXCEPT ![s].isFree = FALSE, ![s].memLength = size] = m1
  BY DEF Headers
<1> HIDE DEF h1
<1>3. /\ DOMAIN m1 = DOMAIN m /\ Headers(m1) /\ m1[s] = h1
      /\ \A a \in DOMAIN m \ {s} : m1[a] = m[a]
  BY <1>1 DEF Headers
<1>4. Put(m1, m1[s].prevFreeSeg, "nextFreeSeg", m1[s].nextFreeSeg) = m1
  BY <1>1, <1>3 DEF Put
<1> HIDE DEF m1
<1>5. /\ Alike(m1, m3)
      /\ \A a \in DOMAIN m :
           /\ m3[a].nextSeg = m1[a].nextSeg /\ m3[a].prevSeg = m1[a].prevSeg
           /\ m3[a].nextFreeSeg = m1[a].nextFreeSeg
           /\ m3[a].prevFreeSeg = IF a = t THEN Null ELSE m1[a].prevFreeSeg
  <2>1. Null \in Nat
    BY Sizes
  <2> QED  BY <1>3, <2>1, PutPrevFree
<1> HIDE DEF m3
<1>6. Headers(m3) /\ DOMAIN m3 = DOMAIN m
  BY <1>3, <1>5 DEF Alike
<1>7. /\ Alike(m3, m4)
      /\ \A a \in DOMAIN m :
           /\ m4[a].nextSeg = m3[a].nextSeg /\ m4[a].prevSeg = m3[a].prevSeg
           /\ m4[a].nextFreeSeg = IF a = p THEN t ELSE m3[a].nextFreeSeg
           /\ m4[a].prevFreeSeg = m3[a].prevFreeSeg
  BY <1>6, PutNextFree
<1> HIDE DEF m4
<1>8. Headers(m4) /\ DOMAIN m4 = DOMAIN m
  BY <1>6, <1>7 DEF Alike
<1>9. /\ Alike(m4, m5)
      /\ \A a \in DOMAIN m :
           /\ m5[a].nextSeg = m4[a].nextSeg /\ m5[a].prevSeg = m4[a].prevSeg
           /\ m5[a].nextFreeSeg = m4[a].nextFreeSeg
           /\ m5[a].prevFreeSeg = IF a = t THEN Null ELSE m4[a].prevFreeSeg
  <2>1. Null \in Nat
    BY Sizes
  <2> QED  BY <1>8, <2>1, PutPrevFree
<1>10. n = m5
  <2>1. m1[s].nextFreeSeg = t /\ m1[s].prevFreeSeg = Null
    BY <1>1, <1>3
  <2>2. m3[s].prevSeg = p /\ m3[s].nextFreeSeg = t
    BY <1>1, <1>3, <1>5
  <2>3. m4[s].nextSeg = t /\ m4[s].prevFreeSeg = Null
    BY <1>1, <1>3, <1>5, <1>7
  <2> DEFINE u1 == [m EXCEPT ![s].isFree = FALSE, ![s].memLength = size]
             u2 == Put(u1, u1[s].prevFreeSeg, "nextFreeSeg", u1[s].nextFreeSeg)
             u3 == Put(u2, u2[s].nextFreeSeg, "prevFreeSeg", u2[s].prevFreeSeg)
             u4 == Put(u3, u3[s].prevSeg, "nextFreeSeg", u3[s].nextFreeSeg)
             u5 == Put(u4, u4[s].nextSeg, "prevFreeSeg", u4[s].prevFreeSeg)
  <2>4. n = u5
    BY DEF Unlink
  <2> HIDE DEF u5
  <2>5. u1 = m1
    BY <1>2
  <2> HIDE DEF u1
  <2>6. u2 = m1
    BY <1>4, <2>5
  <2> HIDE DEF u2
  <2>7. u3 = m3
    BY <2>1, <2>6 DEF m3
  <2> HIDE DEF u3
  <2>8. u4 = m4
    BY <2>2, <2>7 DEF m4
  <2> HIDE DEF u4
  <2>9. u5 = m5
    BY <2>3, <2>8 DEF u5
  <2> QED  BY <2>4, <2>9
<1> HIDE DEF m5
<1>11. DOMAIN n = DOMAIN m /\ Headers(n)
  BY <1>8, <1>9, <1>10 DEF Alike
<1>12. \A a \in DOMAIN m : n[a].memLength = m1[a].memLength /\ n[a].isFree = m1[a].isFree
  BY <1>3, <1>5, <1>6, <1>7, <1>8, <1>9, <1>10 DEF Alike
<1>13. \A a \in DOMAIN m :
         /\ n[a].nextSeg = m1[a].nextSeg /\ n[a].prevSeg = m1[a].prevSeg
         /\ n[a].nextFreeSeg = IF a = p THEN t ELSE m1[a].nextFreeSeg
         /\ n[a].prevFreeSeg = IF a = t THEN Null ELSE m1[a].prevFreeSeg
  BY <1>5, <1>7, <1>9, <1>10
<1>14. /\ n[s].memLength = size /\ n[s].nextSeg = t /\ n[s].prevSeg = m[s].prevSeg
       /\ n[s].nextFreeSeg = t /\ n[s].prevFreeSeg = Null /\ ~ n[s].isFree
  BY <1>1, <1>3, <1>12, <1>13
<1> QED  BY <1>3, <1>11, <1>12, <1>13, <1>14 DEF Unlinked

LEMMA MallocEffect ==
    ASSUME NEW m, Headers(m), DOMAIN m \subseteq Nat \ {Null}, NEW s \in DOMAIN m,
           NEW size \in Nat, m[s].nextSeg = Null, m[s].nextFreeSeg = Null,
           m[s].prevFreeSeg = Null, m[s].prevSeg < s, m[s].memLength >= size,
           NEW t, t = IF m[s].memLength > size + HdrWords THEN s + HdrWords + size ELSE Null,
           NEW n, n = Unlink(Split(m, s, size), s, size)
    PROVE  Taken(m, n, s, size, t)
<1> DEFINE tail == s + HdrWords + size
           hdr == [memLength |-> m[s].memLength - (HdrWords + size),
                   nextSeg |-> m[s].nextSeg, prevSeg |-> s,
                   nextFreeSeg |-> m[s].nextFreeSeg, prevFreeSeg |-> m[s].prevFreeSeg,
                   isFree |-> TRUE]
           low == [m[s] EXCEPT !.nextFreeSeg = t, !.nextSeg = t]
           m1 == Split(m, s, size)
<1>1. /\ s \in Nat /\ s # Null /\ t \in Nat /\ t # s /\ (t # Null => t > s /\ t = tail)
      /\ m[s] \in memseghdr /\ m[s].memLength \in Nat /\ m[s].prevSeg \in Nat
  <2>1. s \in Nat /\ s # Null /\ m[s] \in memseghdr
    BY DEF Headers
  <2>2. m[s].memLength \in Nat /\ m[s].prevSeg \in Nat
    BY <2>1 DEF memseghdr
  <2>3. tail \in Nat /\ tail > s
    BY <2>1, Sizes
  <2> QED  BY <2>1, <2>2, <2>3, Sizes DEF Null
<1>2. m[s].prevSeg # s /\ (t # Null => m[s].prevSeg # t)
  BY <1>1
<1>3. low \in memseghdr /\ low.nextSeg = t /\ low.nextFreeSeg = t
      /\ low.prevSeg = m[s].prevSeg /\ low.prevFreeSeg = Null
  BY <1>1 DEF memseghdr
<1>4. /\ DOMAIN m1 = DOMAIN m \cup ({t} \ {Null}) /\ Headers(m1) /\ m1[s] = low
      /\ \A a \in DOMAIN m \ {s, t} : m1[a] = m[a]
      /\ t # Null => m1[t] = hdr
  <2>1. CASE m[s].memLength > size + HdrWords
    <3>1. t = tail /\ t # Null /\ t # s
      BY <1>1, <2>1, Sizes DEF Null
    <3>2. hdr \in memseghdr
      <4>1. m[s].memLength - (HdrWords + size) \in Nat
        BY <1>1, <2>1, Sizes
      <4>2. Null \in Nat
        BY Sizes
      <4> QED  BY <1>1, <4>1, <4>2 DEF memseghdr
    <3>3. m1 = [a \in DOMAIN m \cup {t} |->
                  IF a = t THEN hdr ELSE IF a = s THEN low ELSE m[a]]
      <4>1. m1 = [a \in DOMAIN m \cup {t} |->
                    CASE a = t -> hdr [] a = s -> low [] OTHER -> m[a]]
        BY <2>1, <3>1 DEF Split
      <4> HIDE DEF m1, hdr, low
      <4>2. \A a \in DOMAIN m \cup {t} :
              (CASE a = t -> hdr [] a = s -> low [] OTHER -> m[a])
                = IF a = t THEN hdr ELSE IF a = s THEN low ELSE m[a]
        BY <3>1
      <4> QED  BY <4>1, <4>2
    <3> HIDE DEF m1, hdr, low
    <3>4. DOMAIN m1 = DOMAIN m \cup {t}
      BY <3>3
    <3>5. m1[t] = hdr
      BY <3>3
    <3>6. m1[s] = low
      BY <3>1, <3>3
    <3>7. \A a \in DOMAIN m \ {s, t} : m1[a] = m[a]
      BY <3>3
    <3>8. Headers(m1)
      <4>1. \A a \in DOMAIN m \cup {t} : m1[a] \in memseghdr
        BY <1>3, <3>2, <3>5, <3>6, <3>7 DEF Headers
      <4> QED  BY <3>3, <3>4, <4>1 DEF Headers
    <3> QED  BY <3>1, <3>4, <3>5, <3>6, <3>7, <3>8
  <2>2. CASE ~ (m[s].memLength > size + HdrWords)
    <3>1. m1 = m /\ t = Null
      BY <2>2 DEF Split
    <3>2. low = m[s]
      BY <1>1, <3>1 DEF memseghdr
    <3> QED  BY <3>1, <3>2
  <2> QED  BY <2>1, <2>2
<1>5. /\ t # Null => /\ hdr.memLength = m[s].memLength - (HdrWords + size)
                     /\ hdr.nextSeg = Null /\ hdr.prevSeg = s /\ hdr.nextFreeSeg = Null
                     /\ hdr.prevFreeSeg = Null /\ hdr.isFree
  OBVIOUS
<1> HIDE DEF m1, hdr, low
<1>6. n = Unlink(m1, s, size)
  BY DEF m1
<1>7. Null \notin DOMAIN m1 /\ s \in DOMAIN m1
  BY <1>4
<1>8. /\ m1[s].prevSeg # s /\ m1[s].nextSeg = t /\ m1[s].nextFreeSeg = t
      /\ m1[s].prevFreeSeg = Null /\ m1[s].prevSeg = m[s].prevSeg
  BY <1>2, <1>3, <1>4
<1>9. PICK p : p = m1[s].prevSeg
  OBVIOUS
<1>10. Unlinked(m1, n, s, size, t, p)
  <2>1. PICK k : k = m1
    OBVIOUS
  <2>2. Unlinked(k, n, s, size, t, p)
    BY <1>1, <1>4, <1>6, <1>7, <1>8, <1>9, <2>1, UnlinkEffect
  <2> QED  BY <2>1, <2>2
<1>11. t # Null =>
         /\ n[t].memLength = m[s].memLength - (HdrWords + size)
         /\ n[t].nextSeg = Null /\ n[t].prevSeg = s
         /\ n[t].nextFreeSeg = Null /\ n[t].prevFreeSeg = Null /\ n[t].isFree
  <2>1. SUFFICES ASSUME t # Null PROVE
         /\ n[t].memLength = m[s].memLength - (HdrWords + size)
         /\ n[t].nextSeg = Null /\ n[t].prevSeg = s
         /\ n[t].nextFreeSeg = Null /\ n[t].prevFreeSeg = Null /\ n[t].isFree
    OBVIOUS
  <2>2. t \in DOMAIN m1 \ {s} /\ p # t
    BY <1>1, <1>2, <1>4, <1>8, <1>9, <2>1
  <2>3. m1[t] = hdr
    BY <1>4, <2>1
  <2> QED  BY <1>5, <1>10, <2>1, <2>2, <2>3 DEF Unlinked
<1>12. \A a \in DOMAIN m \ {s, t} :
         /\ n[a].memLength = m[a].memLength /\ n[a].isFree = m[a].isFree
         /\ n[a].nextSeg = m[a].nextSeg /\ n[a].prevSeg = m[a].prevSeg
         /\ n[a].nextFreeSeg = IF a = m[s].prevSeg THEN t ELSE m[a].nextFreeSeg
         /\ n[a].prevFreeSeg = m[a].prevFreeSeg
  <2>1. p = m[s].prevSeg
    BY <1>8, <1>9
  <2>2. \A a \in DOMAIN m \ {s, t} : a \in DOMAIN m1 \ {s} /\ m1[a] = m[a]
    BY <1>4
  <2> QED  BY <1>10, <2>1, <2>2 DEF Unlinked
<1> QED  BY <1>4, <1>8, <1>10, <1>11, <1>12 DEF Taken, Unlinked

(* No segment's header is in a block *)
LEMMA HeadersBare ==
    ASSUME NEW m, NEW chain, Typed(m), chain \subseteq DOMAIN m, NEW held, held \subseteq Blocks,
           Tiles(m, chain), Uses(m, chain, held)
    PROVE  \A a \in chain : ~ Covered(a, held)
<1>1. SUFFICES ASSUME NEW a \in chain, NEW b \in held,
                      a < b.addr + b.size, b.addr < a + HdrWords
               PROVE  FALSE
  BY DEF Covered
<1>2. PICK e : e = b.addr - HdrWords
  OBVIOUS
<1>3. e \in chain /\ m[e].memLength = b.size
  BY <1>2 DEF Uses
<1>4. a \in Nat /\ e \in Nat /\ b.addr = e + HdrWords /\ b.size \in Nat
  BY <1>2, <1>3, Fields, Sizes DEF Blocks, HeapEnd
<1>5. e < a
  BY <1>1, <1>4, Sizes
<1>6. End(m, e) <= a
  BY <1>3, <1>5 DEF Tiles
<1> QED  BY <1>1, <1>3, <1>4, <1>6, Sizes DEF End

(* No caller holds a block at addr *)
Unheld(addr, held) == \A d \in held : d.addr # addr

Fresh(addr, size, held) ==
    /\ addr \in Nat /\ size \in Nat /\ Range(Block(addr, size)) \subseteq Blocks
    /\ Unheld(addr, held)

NewBlock(b, held) == b \in Blocks /\ Unheld(b.addr, held)

(* malloc's new block, in a heap whose last segment only is free *)
LEMMA MallocGood ==
    ASSUME NEW m, NEW chain, NEW live, NEW first, NEW held, held \subseteq Blocks,
           Good(m, chain, live, first, held), Dense(held),
           first # Null, NEW size \in Nat, m[first].memLength >= size,
           NEW t, t = IF m[first].memLength > size + HdrWords
                      THEN first + HdrWords + size ELSE Null,
           NEW n, Taken(m, n, first, size, t),
           NEW b, b = [addr |-> first + HdrWords, size |-> size]
    PROVE  /\ NewBlock(b, held)
           /\ Good(n, chain \cup ({t} \ {Null}), chain \cup ({t} \ {Null}), t, held \cup {b})
<1> DEFINE C == chain \cup ({t} \ {Null})
           now == held \cup {b}
<1>1. /\ Typed(m) /\ chain \subseteq DOMAIN m /\ Tiles(m, chain)
      /\ Uses(m, chain, held) /\ Hints(m, chain) /\ HeadIsLowest(m, chain, first)
  BY DEF Good, Shape
<1>2. \A a \in DOMAIN m :
        /\ a \in Nat /\ a # Null /\ HeapAddr <= a
        /\ m[a].memLength \in Nat /\ m[a].isFree \in BOOLEAN
        /\ End(m, a) \in Nat /\ a < End(m, a)
  BY <1>1, Fields
<1>3. first \in chain /\ m[first].isFree /\ first \in Nat /\ first \in DOMAIN m
  BY <1>1, <1>2 DEF HeadIsLowest
<1>4. /\ m[first].nextSeg = Null /\ m[first].nextFreeSeg = Null
      /\ \A c \in chain : c # first => c < first /\ ~ m[c].isFree
      /\ \A c \in chain : m[c].prevFreeSeg = Null
  BY <1>3, DenseShape
<1>5. End(m, first) = HeapEnd /\ End(m, first) = first + HdrWords + m[first].memLength
  BY <1>1, <1>3, <1>4 DEF HeadIsLowest, End
<1>6. PICK len : len = m[first].memLength
  OBVIOUS
<1>7. len \in Nat /\ len >= size /\ first + HdrWords + len = HeapEnd /\ HeapEnd \in Nat
  BY <1>2, <1>3, <1>5, <1>6
<1>8. /\ t # Null => /\ t = first + HdrWords + size /\ len > size + HdrWords
                     /\ t \in Nat /\ first < t /\ t < HeapEnd
      /\ t = Null => len <= size + HdrWords
  BY <1>3, <1>6, <1>7, Sizes DEF Null
<1>9. t \notin chain
  <2>1. Null \notin chain
    BY <1>1, <1>2
  <2>2. \A c \in chain : c \in Nat /\ c <= first
    BY <1>1, <1>2, <1>3, <1>4
  <2> QED  BY <1>3, <1>8, <2>1, <2>2
<1>10. /\ t # Null =>
            /\ n[t].memLength = len - (HdrWords + size)
            /\ n[t].nextSeg = Null /\ n[t].prevSeg = first
            /\ n[t].nextFreeSeg = Null /\ n[t].prevFreeSeg = Null /\ n[t].isFree
       /\ n[first].memLength = size /\ n[first].nextSeg = t
       /\ n[first].prevSeg = m[first].prevSeg
       /\ n[first].nextFreeSeg = t /\ n[first].prevFreeSeg = Null /\ ~ n[first].isFree
  BY <1>6 DEF Taken
<1>11. \A c \in chain \ {first} :
         /\ n[c].memLength = m[c].memLength /\ ~ n[c].isFree /\ ~ m[c].isFree
         /\ n[c].nextSeg = m[c].nextSeg /\ n[c].prevSeg = m[c].prevSeg
         /\ n[c].nextFreeSeg = IF c = m[first].prevSeg THEN t ELSE m[c].nextFreeSeg
         /\ n[c].prevFreeSeg = Null
         /\ End(n, c) = End(m, c) /\ c < first
  <2>1. \A c \in chain \ {first} :
         /\ n[c].memLength = m[c].memLength /\ n[c].isFree = m[c].isFree
         /\ n[c].nextSeg = m[c].nextSeg /\ n[c].prevSeg = m[c].prevSeg
         /\ n[c].nextFreeSeg = IF c = m[first].prevSeg THEN t ELSE m[c].nextFreeSeg
         /\ n[c].prevFreeSeg = m[c].prevFreeSeg
    BY <1>1, <1>9 DEF Taken
  <2> QED  BY <1>4, <2>1 DEF End
<1>12. /\ t # Null => End(n, first) = t /\ End(n, t) = HeapEnd
       /\ t = Null => HeapEnd - HdrWords <= End(n, first) /\ End(n, first) <= HeapEnd
  BY <1>3, <1>7, <1>8, <1>10, Sizes DEF End
<1>13. \A c \in chain \ {first} : m[c].nextSeg # Null /\ m[c].nextSeg \in chain
  BY <1>1, <1>3, <1>11 DEF Tiles
<1>14. b \in Blocks /\ b.addr = first + HdrWords /\ b.size = size
  <2>1. first + HdrWords \in HeapAddr .. HeapEnd
    BY <1>2, <1>3, <1>7, Sizes
  <2> QED  BY <2>1 DEF Blocks
<1>15. now \subseteq Blocks
  BY <1>14
<1>16. \A d \in held : d.addr # b.addr /\ d.addr - HdrWords \in chain \ {first}
                       /\ m[d.addr - HdrWords].memLength = d.size /\ d.addr \in Nat
  <2>1. \A d \in held : d.addr \in Nat
    BY Sizes, <1>7 DEF Blocks, HeapEnd
  <2>2. \A d \in held : d.addr # first + HdrWords
    BY <1>1, <1>3 DEF Uses
  <2>3. \A d \in held : d.addr - HdrWords # first
    BY <1>3, <2>1, <2>2, Sizes
  <2> QED  BY <1>1, <1>14, <2>1, <2>2, <2>3 DEF Uses
<1>17. Typed(n) /\ C \subseteq DOMAIN n
  <2>1. DOMAIN n = DOMAIN m \cup ({t} \ {Null}) /\ Headers(n)
    BY DEF Taken
  <2>2. t # Null => t \in HeapAddr .. (HeapEnd - 1)
    BY <1>2, <1>3, <1>7, <1>8, Sizes
  <2>3. DOMAIN n \subseteq HeapAddr .. (HeapEnd - 1)
    BY <1>1, <2>1, <2>2 DEF Typed
  <2> QED  BY <1>1, <2>1, <2>3 DEF Typed, Headers
<1>18. Tiles(n, C)
  <2>1. HeapAddr \in chain /\ m[HeapAddr].prevSeg = Null
    BY <1>1 DEF Tiles
  <2>2. n[HeapAddr].prevSeg = Null
    BY <1>10, <1>11, <2>1
  <2>3. ASSUME NEW c \in C \ {HeapAddr}
        PROVE  n[c].prevSeg \in C /\ n[n[c].prevSeg].nextSeg = c
    <3>1. CASE c = t /\ t # Null
      BY <1>3, <1>10, <3>1
    <3>2. CASE c \in chain
      <4>1. n[c].prevSeg = m[c].prevSeg
        BY <1>10, <1>11, <3>2
      <4>2. m[c].prevSeg \in chain /\ m[m[c].prevSeg].nextSeg = c
        BY <1>1, <2>3, <3>2 DEF Tiles
      <4>3. m[c].prevSeg # first
        BY <1>1, <1>2, <1>4, <3>2, <4>2
      <4> QED  BY <1>11, <4>1, <4>2, <4>3
    <3> QED  BY <3>1, <3>2
  <2>4. ASSUME NEW c \in C, n[c].nextSeg # Null
        PROVE  /\ n[c].nextSeg \in C
               /\ n[c].nextSeg = End(n, c)
               /\ n[n[c].nextSeg].prevSeg = c
    <3>1. CASE c = first
      BY <1>10, <1>12, <2>4, <3>1
    <3>2. CASE c \in chain \ {first}
      <4>1. n[c].nextSeg = m[c].nextSeg /\ End(n, c) = End(m, c)
        BY <1>11, <3>2
      <4>2. /\ m[c].nextSeg \in chain /\ m[c].nextSeg = End(m, c)
            /\ m[m[c].nextSeg].prevSeg = c
        BY <1>1, <1>13, <3>2 DEF Tiles
      <4>3. n[m[c].nextSeg].prevSeg = m[m[c].nextSeg].prevSeg
        BY <1>10, <1>11, <4>2
      <4> QED  BY <4>1, <4>2, <4>3
    <3> QED  BY <1>10, <2>4, <3>1, <3>2
  <2>5. ASSUME NEW c \in C, n[c].nextSeg = Null
        PROVE  HeapEnd - HdrWords <= End(n, c) /\ End(n, c) <= HeapEnd
    <3>1. c = first \/ c = t
      BY <1>11, <1>13, <2>5
    <3>2. CASE c = first
      BY <1>10, <1>12, <2>5, <3>2
    <3>3. CASE c = t /\ t # Null
      BY <1>7, <1>12, <3>3, Sizes
    <3> QED  BY <1>9, <3>1, <3>2, <3>3
  <2>6. ASSUME NEW c \in C, NEW d \in C, c < d
        PROVE  n[c].nextSeg # Null /\ End(n, c) <= d
    <3>1. c \in Nat /\ d \in Nat
      BY <1>1, <1>2, <1>8
    <3>2. CASE c \in chain \ {first} /\ d \in chain
      BY <1>1, <1>11, <2>6, <3>2 DEF Tiles
    <3>3. CASE c \in chain \ {first} /\ d = t /\ t # Null
      <4>1. m[c].nextSeg # Null /\ End(m, c) <= first /\ End(m, c) \in Nat
        BY <1>1, <1>2, <1>3, <1>11, <3>3 DEF Tiles
      <4> QED  BY <1>3, <1>8, <1>11, <3>3, <4>1
    <3>4. CASE c = first
      <4>1. d = t /\ t # Null
        BY <1>3, <1>11, <2>6, <3>1, <3>4
      <4>2. t \in Nat
        BY <1>8, <4>1
      <4> QED  BY <1>10, <1>12, <3>4, <4>1, <4>2
    <3>5. CASE c = t /\ t # Null
      <4>1. d \in chain
        BY <2>6, <3>1, <3>5
      <4>2. d <= first
        BY <1>3, <1>11, <4>1, <3>1
      <4> QED  BY <1>3, <1>8, <2>6, <3>1, <3>5, <4>2
    <3> QED  BY <3>2, <3>3, <3>4, <3>5
  <2> QED  BY <2>1, <2>2, <2>3, <2>4, <2>5, <2>6 DEF Tiles
<1>19. Uses(n, C, now)
  <2>1. ASSUME NEW c \in C PROVE n[c].isFree <=> \A d \in now : d.addr # c + HdrWords
    <3>1. CASE c = first
      BY <1>10, <1>14, <3>1
    <3>2. CASE c \in chain \ {first}
      BY <1>1, <1>11, <3>2 DEF Uses
    <3>3. CASE c = t /\ t # Null
      <4>1. \A d \in held : d.addr # t + HdrWords
        BY <1>8, <1>9, <1>16, <3>3, Sizes
      <4>2. b.addr # t + HdrWords
        BY <1>3, <1>8, <1>14, <3>3, Sizes
      <4> QED  BY <1>10, <3>3, <4>1, <4>2
    <3> QED  BY <3>1, <3>2, <3>3
  <2>2. ASSUME NEW d \in now
        PROVE  d.addr - HdrWords \in C /\ n[d.addr - HdrWords].memLength = d.size
    <3>1. CASE d \in held
      BY <1>11, <1>16, <3>1
    <3>2. CASE d = b
      <4>1. b.addr - HdrWords = first
        BY <1>3, <1>14, Sizes
      <4> QED  BY <1>3, <1>10, <1>14, <3>2, <4>1
    <3> QED  BY <3>1, <3>2
  <2> QED  BY <2>1, <2>2 DEF Uses
<1>20. \A c \in chain \ {first} : c # m[first].prevSeg =>
         /\ m[c].nextSeg \in chain \ {first}
         /\ m[c].nextFreeSeg \in {Null, m[m[c].nextSeg].nextSeg}
  <2>1. SUFFICES ASSUME NEW c \in chain \ {first}, c # m[first].prevSeg
                 PROVE  /\ m[c].nextSeg \in chain \ {first}
                        /\ m[c].nextFreeSeg \in {Null, m[m[c].nextSeg].nextSeg}
    OBVIOUS
  <2>2. m[c].nextSeg # Null /\ m[c].nextSeg \in chain /\ m[m[c].nextSeg].prevSeg = c
    BY <1>1, <1>13, <2>1 DEF Tiles
  <2>3. m[c].nextSeg # first
    BY <2>1, <2>2
  <2>4. ~ m[c].isFree /\ ~ m[m[c].nextSeg].isFree
    BY <1>11, <2>2, <2>3
  <2> QED  BY <1>1, <2>2, <2>3, <2>4 DEF Hints
<1>21. Hints(n, C)
  <2>1. ASSUME NEW c \in C, n[c].nextFreeSeg # Null PROVE c < n[c].nextFreeSeg
    <3>1. CASE c = first
      BY <1>8, <1>10, <2>1, <3>1
    <3>2. CASE c \in chain \ {first} /\ c = m[first].prevSeg
      <4>1. n[c].nextFreeSeg = t /\ t # Null /\ c < first /\ c \in Nat
        BY <1>1, <1>2, <1>11, <2>1, <3>2
      <4> QED  BY <1>3, <1>8, <4>1
    <3>3. CASE c \in chain \ {first} /\ c # m[first].prevSeg
      BY <1>1, <1>11, <2>1, <3>3 DEF Hints
    <3> QED  BY <1>10, <2>1, <3>1, <3>2, <3>3
  <2>2. \A c \in C : n[c].prevFreeSeg = Null
    BY <1>10, <1>11
  <2>3. \A c \in C : n[c].nextSeg = Null => n[c].nextFreeSeg = Null
    BY <1>10, <1>11, <1>13
  <2>4. ASSUME NEW c \in C, ~ n[c].isFree, n[c].nextSeg # Null, ~ n[n[c].nextSeg].isFree
        PROVE  n[c].nextFreeSeg \in {Null, n[n[c].nextSeg].nextSeg}
    <3>1. CASE c = first
      BY <1>10, <2>4, <3>1
    <3>2. CASE c \in chain \ {first} /\ c = m[first].prevSeg
      <4>1. first # HeapAddr
        <5>1. c # Null
          BY <1>1, <1>2, <3>2
        <5> QED  BY <1>1, <3>2, <5>1 DEF Tiles
      <4>2. m[c].nextSeg = first
        BY <1>1, <1>3, <3>2, <4>1 DEF Tiles
      <4> QED  BY <1>10, <1>11, <3>2, <4>2
    <3>3. CASE c \in chain \ {first} /\ c # m[first].prevSeg
      <4>1. n[c].nextSeg = m[c].nextSeg /\ n[c].nextFreeSeg = m[c].nextFreeSeg
        BY <1>11, <3>3
      <4>2. n[m[c].nextSeg].nextSeg = m[m[c].nextSeg].nextSeg
        BY <1>11, <1>20, <3>3
      <4> QED  BY <1>20, <3>3, <4>1, <4>2
    <3> QED  BY <1>10, <2>4, <3>1, <3>2, <3>3
  <2> QED  BY <2>1, <2>2, <2>3, <2>4 DEF Hints
<1>22. HeadIsLowest(n, C, t)
  <2>1. SUFFICES ASSUME t # Null
                 PROVE  /\ t \in C /\ n[t].isFree
                        /\ \A c \in C : n[c].isFree => t <= c
                        /\ \A c \in C : n[c].nextSeg = Null => End(n, c) = HeapEnd
    BY DEF HeadIsLowest
  <2>2. \A c \in C : n[c].isFree => c = t
    BY <1>10, <1>11
  <2>3. \A c \in C : n[c].nextSeg = Null => c = t
    BY <1>10, <1>11, <1>13, <2>1
  <2> QED  BY <1>8, <1>10, <1>12, <2>1, <2>2, <2>3
<1>23. Sound(n, C, now)
  <2>1. ASSUME NEW c \in C PROVE Pointers(n[c]) \subseteq C
    <3>1. n[c].nextSeg # Null => n[c].nextSeg \in C
      BY <1>18 DEF Tiles
    <3>2. n[c].prevSeg # Null => n[c].prevSeg \in C
      BY <1>18 DEF Tiles
    <3>3. n[c].prevFreeSeg = Null
      BY <1>10, <1>11
    <3>4. n[c].nextFreeSeg # Null => n[c].nextFreeSeg \in C
      <4>1. CASE c \in chain \ {first} /\ c # m[first].prevSeg
        <5>1. n[c].nextFreeSeg = m[c].nextFreeSeg
          BY <1>11, <4>1
        <5>2. m[m[c].nextSeg].nextSeg \in chain
          BY <1>13, <1>20, <4>1
        <5> QED  BY <1>20, <4>1, <5>1, <5>2
      <4>2. CASE c \in chain \ {first} /\ c = m[first].prevSeg
        BY <1>11, <4>2
      <4> QED  BY <1>10, <4>1, <4>2
    <3> QED  BY <3>1, <3>2, <3>3, <3>4 DEF Pointers
  <2>2. \A c \in C : ~ Covered(c, now)
    <3> HIDE DEF C, now
    <3> QED  BY <1>15, <1>17, <1>18, <1>19, HeadersBare
  <2> QED  BY <2>1, <2>2 DEF Sound
<1>24. Merged(n, C, Null)
  BY <1>10, <1>11 DEF Merged
<1>25. Good(n, C, C, t, now)
  BY <1>17, <1>18, <1>19, <1>21, <1>22, <1>23, <1>24 DEF Good, Shape
<1> QED  BY <1>14, <1>16, <1>25 DEF NewBlock, Unheld

(* What malloc leaves behind *)
Allocated(n, held, size) ==
    /\ n.first \in Nat /\ Fresh(n.addr, size, held)
    /\ \E C, L : Good(n.memory, C, L, n.first, held \cup Range(Block(n.addr, size)))

(* malloc, whether it finds room or not *)
LEMMA AfterMallocGood ==
    ASSUME NEW m, NEW chain, NEW live, NEW first, NEW held, held \subseteq Blocks,
           Good(m, chain, live, first, held), Dense(held),
           NEW size \in Nat, Stops(m, first, size) # {},
           NEW n, n = AfterMalloc(m, first, size)
    PROVE  Allocated(n, held, size)
<1> DEFINE s == Fit(m, first, size)
           m1 == Split(m, s, size)
           mem == Unlink(m1, s, size)
<1>1. Typed(m) /\ chain \subseteq DOMAIN m /\ HeadIsLowest(m, chain, first) /\ Uses(m, chain, held)
      /\ Tiles(m, chain)
  BY DEF Good, Shape
<1>2. DOMAIN m \subseteq Nat \ {Null} /\ Headers(m)
  BY <1>1, Fields DEF Typed, Headers
<1>3. first \in Nat
  BY <1>1, <1>2, Sizes DEF HeadIsLowest
<1>4. CASE s = Null
  <2>1. n.memory = m /\ n.first = first /\ n.addr = Null
    BY <1>4 DEF AfterMalloc
  <2>2. Range(Block(n.addr, size)) = {}
    BY <2>1 DEF Block, Range
  <2>3. \A d \in held : d.addr # Null
    <3>1. ASSUME NEW d \in held PROVE d.addr # Null
      <4>1. d.addr \in HeapAddr .. HeapEnd
        BY DEF Blocks
      <4> QED  BY <4>1, Sizes DEF Null, HeapEnd
    <3> QED  BY <3>1
  <2>4. n.addr \in Nat
    BY <2>1, Sizes
  <2>5. held \cup Range(Block(n.addr, size)) = held
    BY <2>2
  <2> QED  BY <1>3, <2>1, <2>2, <2>3, <2>4, <2>5 DEF Allocated, Fresh, Unheld
<1>5. CASE s # Null
  <2>1. s = first /\ s \in chain /\ m[s].isFree /\ m[s].memLength >= size
    BY <1>5, FitFirst
  <2> HIDE DEF s
  <2>2. first # Null /\ first \in DOMAIN m
    BY <1>1, <1>5, <2>1
  <2>3. /\ m[first].nextSeg = Null /\ m[first].nextFreeSeg = Null
        /\ m[first].prevFreeSeg = Null
        /\ \A c \in chain : c # first => c < first
    BY <2>1, DenseShape
  <2>4. m[first].prevSeg < first
    <3>1. HeapAddr \in chain /\ m[HeapAddr].prevSeg = Null
      BY <1>1 DEF Tiles
    <3>2. CASE first = HeapAddr
      BY <3>1, <3>2, Sizes DEF Null
    <3>3. CASE first # HeapAddr
      <4>1. m[first].prevSeg \in chain /\ m[m[first].prevSeg].nextSeg = first
        BY <1>1, <2>1, <3>3 DEF Tiles
      <4> QED  BY <2>2, <2>3, <4>1
    <3> QED  BY <3>2, <3>3
  <2>5. PICK t : t = IF m[first].memLength > size + HdrWords
                     THEN first + HdrWords + size ELSE Null
    OBVIOUS
  <2>6. /\ n.memory = Unlink(Split(m, first, size), first, size)
        /\ n.first = Split(m, first, size)[first].nextFreeSeg
        /\ n.addr = first + HdrWords
    BY <1>5, <2>1 DEF AfterMalloc, s
  <2>7. Taken(m, n.memory, first, size, t)
    <3>1. PICK x : x = n.memory
      OBVIOUS
    <3>2. Taken(m, x, first, size, t)
      BY <1>2, <2>1, <2>2, <2>3, <2>4, <2>5, <2>6, <3>1, MallocEffect
    <3> QED  BY <3>1, <3>2
  <2>8. n.first = t
    <3>1. CASE m[first].memLength > size + HdrWords
      <4>1. t = first + HdrWords + size /\ t # first
        BY <1>3, <2>5, <3>1, Sizes
      <4>2. Split(m, first, size)[first]
              = [m[first] EXCEPT !.nextFreeSeg = t, !.nextSeg = t]
        BY <2>2, <3>1, <4>1 DEF Split
      <4>3. m[first] \in memseghdr
        BY <1>2, <2>2 DEF Headers
      <4>4. [m[first] EXCEPT !.nextFreeSeg = t, !.nextSeg = t].nextFreeSeg = t
        BY <4>3 DEF memseghdr
      <4> QED  BY <2>6, <4>2, <4>4
    <3>2. CASE ~ (m[first].memLength > size + HdrWords)
      BY <2>3, <2>5, <2>6, <3>2 DEF Split
    <3> QED  BY <3>1, <3>2
  <2>9. PICK b : b = [addr |-> first + HdrWords, size |-> size]
    OBVIOUS
  <2>10. Range(Block(n.addr, size)) = {b} /\ n.addr = b.addr
    <3>1. n.addr # Null
      BY <1>3, <2>6, Sizes DEF Null
    <3>2. Block(n.addr, size) = <<b>>
      BY <2>6, <2>9, <3>1 DEF Block
    <3>3. Range(<<b>>) = {b}
      BY DEF Range
    <3> QED  BY <2>6, <2>9, <3>2, <3>3
  <2>11. PICK x : x = n.memory
    OBVIOUS
  <2>12. /\ NewBlock(b, held)
         /\ Good(x, chain \cup ({t} \ {Null}), chain \cup ({t} \ {Null}), t, held \cup {b})
    BY <2>1, <2>2, <2>5, <2>7, <2>9, <2>11, MallocGood
  <2>13. t \in Nat /\ first + HdrWords \in Nat
    BY <1>3, <2>5, Sizes
  <2> QED  BY <2>6, <2>8, <2>10, <2>11, <2>12, <2>13 DEF NewBlock, Allocated, Fresh
<1> QED  BY <1>4, <1>5

------------------------------------------------------------------------------
(* The lists of blocks *)

(* r is s without what is at i *)
Removal(s, r, i) ==
    /\ Len(r) = Len(s) - 1
    /\ \A k \in 1 .. Len(s) - 1 : r[k] = IF k < i THEN s[k] ELSE s[k + 1]

LEMMA Removed ==
    ASSUME NEW S, NEW s \in Seq(S), NEW i \in DOMAIN s, NEW r, r = RemoveAt(s, i)
    PROVE  r \in Seq(S) /\ Removal(s, r, i)
<1>1. Len(s) \in Nat /\ DOMAIN s = 1 .. Len(s) /\ i \in 1 .. Len(s)
      /\ \A k \in 1 .. Len(s) : s[k] \in S
  BY LenProperties
<1> DEFINE a == SubSeq(s, 1, i - 1)
           b == SubSeq(s, i + 1, Len(s))
<1>2. /\ a \in Seq(S) /\ Len(a) = i - 1
      /\ \A k \in 1 .. i - 1 : a[k] = s[k]
  <2>1. \A k \in 1 .. i - 1 : s[k] \in S
    BY <1>1
  <2>2. 1 \in Int /\ i - 1 \in Int
    BY <1>1
  <2>3. /\ a \in Seq(S) /\ Len(a) = IF 1 <= i - 1 THEN i - 1 - 1 + 1 ELSE 0
        /\ \A k \in 1 .. i - 1 - 1 + 1 : a[k] = s[1 + k - 1]
    BY <2>1, <2>2, SubSeqProperties
  <2> QED  BY <1>1, <2>3
<1>3. /\ b \in Seq(S) /\ Len(b) = Len(s) - i
      /\ \A k \in 1 .. Len(s) - i : b[k] = s[i + k]
  <2>1. \A k \in i + 1 .. Len(s) : s[k] \in S
    BY <1>1
  <2>2. i + 1 \in Int /\ Len(s) \in Int
    BY <1>1
  <2>3. /\ b \in Seq(S) /\ Len(b) = IF i + 1 <= Len(s) THEN Len(s) - (i + 1) + 1 ELSE 0
        /\ \A k \in 1 .. Len(s) - (i + 1) + 1 : b[k] = s[(i + 1) + k - 1]
    BY <2>1, <2>2, SubSeqProperties
  <2> QED  BY <1>1, <2>3
<1>4. r = a \o b
  BY DEF RemoveAt
<1> HIDE DEF a, b
<1>5. /\ r \in Seq(S) /\ Len(r) = Len(a) + Len(b)
      /\ \A k \in 1 .. Len(a) + Len(b) : r[k] = IF k <= Len(a) THEN a[k] ELSE b[k - Len(a)]
  <2>1. PICK x, y : x = a /\ y = b
    OBVIOUS
  <2>2. /\ x \o y \in Seq(S) /\ Len(x \o y) = Len(x) + Len(y)
        /\ \A k \in 1 .. Len(x) + Len(y) :
             (x \o y)[k] = IF k <= Len(x) THEN x[k] ELSE y[k - Len(x)]
    BY <1>2, <1>3, <2>1, ConcatProperties
  <2> QED  BY <1>4, <2>1, <2>2
<1>6. Len(r) = Len(s) - 1
  BY <1>1, <1>2, <1>3, <1>5
<1>7. ASSUME NEW k \in 1 .. Len(s) - 1
      PROVE  r[k] = IF k < i THEN s[k] ELSE s[k + 1]
  <2>1. r[k] = IF k <= i - 1 THEN a[k] ELSE b[k - (i - 1)]
    BY <1>1, <1>2, <1>3, <1>5
  <2>2. CASE k < i
    BY <1>1, <1>2, <2>1, <2>2
  <2>3. CASE ~ (k < i)
    <3>1. k - (i - 1) \in 1 .. Len(s) - i /\ i + (k - (i - 1)) = k + 1
      BY <1>1, <2>3
    <3> QED  BY <1>1, <1>3, <2>1, <2>3, <3>1
  <2> QED  BY <2>2, <2>3
<1> QED  BY <1>5, <1>6, <1>7 DEF Removal

LEMMA RemovedBlock ==
    ASSUME NEW list, Distinct(list), NEW i \in DOMAIN list, NEW r, r = RemoveAt(list, i)
    PROVE  /\ Distinct(r) /\ Range(r) = Range(list) \ {list[i]}
           /\ list[i] \in Range(list) /\ Alone(list[i], Range(list))
<1>1. /\ list \in Seq(Blocks) /\ Len(list) \in Nat /\ DOMAIN list = 1 .. Len(list)
      /\ \A k, l \in 1 .. Len(list) : list[k].addr = list[l].addr => k = l
  BY LenProperties DEF Distinct
<1>2. /\ r \in Seq(Blocks) /\ Len(r) = Len(list) - 1
      /\ \A k \in 1 .. Len(list) - 1 : r[k] = IF k < i THEN list[k] ELSE list[k + 1]
  <2>1. r \in Seq(Blocks) /\ Removal(list, r, i)
    BY <1>1, Removed
  <2> QED  BY <2>1 DEF Removal
<1>3. DOMAIN r = 1 .. Len(list) - 1
  BY <1>2, LenProperties
<1>4. PICK at : at = [k \in 1 .. Len(list) - 1 |-> IF k < i THEN k ELSE k + 1]
  OBVIOUS
<1>5. \A k \in 1 .. Len(list) - 1 :
        at[k] \in 1 .. Len(list) /\ at[k] # i /\ r[k] = list[at[k]]
  BY <1>1, <1>2, <1>4
<1>6. \A k, l \in 1 .. Len(list) - 1 : at[k] = at[l] => k = l
  BY <1>1, <1>4
<1>7. Distinct(r)
  <2>1. ASSUME NEW k \in DOMAIN r, NEW l \in DOMAIN r, r[k].addr = r[l].addr PROVE k = l
    BY <1>1, <1>3, <1>5, <1>6, <2>1
  <2> QED  BY <1>2, <2>1 DEF Distinct
<1>8. \A k \in 1 .. Len(list) : k # i => \E l \in 1 .. Len(list) - 1 : at[l] = k
  <2>1. ASSUME NEW k \in 1 .. Len(list), k # i
        PROVE  \E l \in 1 .. Len(list) - 1 : at[l] = k
    <3>1. CASE k < i
      <4>1. k \in 1 .. Len(list) - 1
        BY <1>1, <3>1
      <4> QED  BY <1>4, <3>1, <4>1
    <3>2. CASE ~ (k < i)
      <4>1. k - 1 \in 1 .. Len(list) - 1 /\ ~ (k - 1 < i) /\ (k - 1) + 1 = k
        BY <1>1, <2>1, <3>2
      <4> QED  BY <1>4, <4>1
    <3> QED  BY <3>1, <3>2
  <2> QED  BY <2>1
<1>9. Range(r) = Range(list) \ {list[i]}
  <2>1. ASSUME NEW d \in Range(r) PROVE d \in Range(list) \ {list[i]}
    <3>1. PICK k \in 1 .. Len(list) - 1 : d = r[k]
      BY <1>3 DEF Range
    <3>2. at[k] \in 1 .. Len(list) /\ at[k] # i /\ d = list[at[k]]
      BY <1>5, <3>1
    <3> QED  BY <1>1, <3>2 DEF Range
  <2>2. ASSUME NEW d \in Range(list), d # list[i] PROVE d \in Range(r)
    <3>1. PICK k \in 1 .. Len(list) : d = list[k]
      BY <1>1 DEF Range
    <3>2. PICK l \in 1 .. Len(list) - 1 : at[l] = k
      BY <1>8, <2>2, <3>1
    <3> QED  BY <1>3, <1>5, <3>1, <3>2 DEF Range
  <2> QED  BY <2>1, <2>2
<1>10. \A d \in Range(list) : d.addr = list[i].addr => d = list[i]
  BY <1>1 DEF Range
<1> QED  BY <1>1, <1>7, <1>9, <1>10 DEF Range, Alone

LEMMA AddedBlock ==
    ASSUME NEW list, Distinct(list), NEW addr, NEW size, Fresh(addr, size, Range(list))
    PROVE  /\ Distinct(list \o Block(addr, size))
           /\ Range(list \o Block(addr, size)) = Range(list) \cup Range(Block(addr, size))
<1> DEFINE r == list \o Block(addr, size)
<1>0. /\ addr \in Nat /\ size \in Nat /\ Range(Block(addr, size)) \subseteq Blocks
      /\ Unheld(addr, Range(list))
  BY DEF Fresh
<1>4. r = list \o Block(addr, size)
  OBVIOUS
<1> HIDE DEF r
<1>1. /\ list \in Seq(Blocks) /\ Len(list) \in Nat /\ DOMAIN list = 1 .. Len(list)
  BY LenProperties DEF Distinct
<1>2. CASE addr = Null
  <2>1. Block(addr, size) = << >>
    BY <1>2 DEF Block
  <2>2. r = list
    BY <1>1, <1>4, <2>1, ConcatEmptySeq
  <2> QED  BY <1>4, <2>1, <2>2 DEF Range
<1>3. CASE addr # Null
  <2>1. PICK b : b = [addr |-> addr, size |-> size]
    OBVIOUS
  <2>2. Block(addr, size) = <<b>>
    BY <1>3, <2>1 DEF Block
  <2>3. Range(<<b>>) = {b}
    BY DEF Range
  <2>4. b \in Blocks /\ b.addr = addr
    BY <1>0, <2>1, <2>2, <2>3
  <2>5. <<b>> \in Seq(Blocks) /\ Len(<<b>>) = 1 /\ <<b>>[1] = b
    BY <2>4
  <2>6. r = list \o <<b>>
    BY <1>4, <2>2
  <2>7. /\ r \in Seq(Blocks) /\ Len(r) = Len(list) + 1
        /\ \A k \in 1 .. Len(list) + 1 :
             r[k] = IF k <= Len(list) THEN list[k] ELSE <<b>>[k - Len(list)]
    BY <1>1, <2>5, <2>6, ConcatProperties
  <2>8. DOMAIN r = 1 .. Len(list) + 1
    BY <2>7, LenProperties
  <2>9. /\ \A k \in 1 .. Len(list) : r[k] = list[k]
        /\ r[Len(list) + 1] = b
    BY <1>1, <2>5, <2>7
  <2>10. Distinct(r)
    <3>1. ASSUME NEW k \in DOMAIN r, NEW l \in DOMAIN r, r[k].addr = r[l].addr PROVE k = l
      <4>1. \A n \in 1 .. Len(list) : list[n] \in Range(list)
        BY <1>1 DEF Range
      <4>2. \A n \in 1 .. Len(list) : r[n].addr # addr
        BY <1>0, <2>9, <4>1 DEF Unheld
      <4>3. CASE k \in 1 .. Len(list) /\ l \in 1 .. Len(list)
        BY <1>1, <2>9, <3>1, <4>3 DEF Distinct
      <4>4. \A n \in DOMAIN r : n \in 1 .. Len(list) \/ n = Len(list) + 1
        BY <1>1, <2>8
      <4> QED  BY <2>4, <2>9, <3>1, <4>2, <4>3, <4>4
    <3> QED  BY <2>7, <3>1 DEF Distinct
  <2>11. Range(r) = Range(list) \cup {b}
    <3>1. \A n \in DOMAIN r : n \in 1 .. Len(list) \/ n = Len(list) + 1
      BY <1>1, <2>8
    <3>2. 1 .. Len(list) \subseteq DOMAIN r /\ Len(list) + 1 \in DOMAIN r
      BY <1>1, <2>8
    <3> QED  BY <1>1, <2>9, <3>1, <3>2 DEF Range
  <2> QED  BY <1>4, <2>2, <2>3, <2>10, <2>11
<1> QED  BY <1>2, <1>3, <1>4

------------------------------------------------------------------------------
(* The invariant holds in every state, if nobody allocates above a hole *)

LEMMA AlignedIsNat == \A bytes \in Nat : Aligned(bytes) \in Nat
  BY DEF Aligned, WordBytes

LEMMA InitHolds == ASSUME Init PROVE IInv
<1> DEFINE h == [memLength |-> HeapLength - HdrWords, nextSeg |-> Null, prevSeg |-> Null,
                 nextFreeSeg |-> Null, prevFreeSeg |-> Null, isFree |-> TRUE]
<1>1. /\ memory = [a \in {HeapAddr} |-> h] /\ firstFreeMemSeg = HeapAddr
      /\ blocks = << >> /\ ret = HeapAddr
  BY DEF Init, initHeap
<1>2. /\ h \in memseghdr /\ h.memLength = HeapLength - HdrWords /\ h.nextSeg = Null
      /\ h.prevSeg = Null /\ h.nextFreeSeg = Null /\ h.prevFreeSeg = Null /\ h.isFree
  <2>1. HeapLength - HdrWords \in Nat /\ Null \in Nat
    BY HeapAssumption, Sizes
  <2> QED  BY <2>1 DEF memseghdr
<1> HIDE DEF h
<1>3. DOMAIN memory = {HeapAddr} /\ memory[HeapAddr] = h
  BY <1>1
<1>4. Range(blocks) = {} /\ Held
  <2>1. blocks \in Seq(Blocks) /\ DOMAIN blocks = {}
    BY <1>1
  <2> QED  BY <1>1, <2>1, Sizes DEF Held, Distinct, Range
<1>5. /\ HeapAddr \in Nat /\ HeapAddr # Null /\ HeapLength > HdrWords /\ HeapLength \in Nat
      /\ HeapEnd = HeapAddr + HeapLength
  BY HeapAssumption, Sizes DEF HeapEnd, Null
<1>6. End(memory, HeapAddr) = HeapEnd
  BY <1>2, <1>3, <1>5, Sizes DEF End
<1>7. Typed(memory)
  <2>1. HeapAddr \in HeapAddr .. (HeapEnd - 1)
    BY <1>5, Sizes
  <2> QED  BY <1>1, <1>2, <1>3, <2>1 DEF Typed
<1>8. Tiles(memory, {HeapAddr})
  BY <1>2, <1>3, <1>5, <1>6, Sizes DEF Tiles
<1>9. Uses(memory, {HeapAddr}, {})
  BY <1>2, <1>3 DEF Uses
<1>10. Hints(memory, {HeapAddr}) /\ Merged(memory, {HeapAddr}, Null)
  BY <1>2, <1>3 DEF Hints, Merged
<1>11. HeadIsLowest(memory, {HeapAddr}, HeapAddr)
  BY <1>2, <1>3, <1>5, <1>6 DEF HeadIsLowest
<1>12. Sound(memory, {HeapAddr}, {})
  BY <1>2, <1>3 DEF Sound, Pointers, Covered
<1>13. Good(memory, {HeapAddr}, DOMAIN memory, firstFreeMemSeg, Range(blocks))
  BY <1>1, <1>3, <1>4, <1>7, <1>8, <1>9, <1>10, <1>11, <1>12 DEF Good, Shape
<1> QED  BY <1>3, <1>4, <1>13 DEF IInv

(* What is left when a step has forgotten what nobody needs *)
Intact(n, live, first, held) ==
    /\ DOMAIN n \subseteq live
    /\ \E C \in SUBSET DOMAIN n : Good(n, C, DOMAIN n, first, held)

LEMMA Kept ==
    ASSUME NEW m, NEW chain, NEW live, NEW first, NEW held, held \subseteq Blocks,
           Good(m, chain, live, first, held), NEW n, n = Remembered(m, first, held)
    PROVE  Intact(n, live, first, held)
<1>1. Good(n, chain, DOMAIN n, first, held) /\ DOMAIN n \subseteq live
  BY PruneGood
<1> QED  BY <1>1 DEF Intact, Good, Shape

LEMMA RangeOfBlocks ==
    ASSUME NEW list, Distinct(list) PROVE Range(list) \subseteq Blocks
<1>1. list \in Seq(Blocks) /\ DOMAIN list = 1 .. Len(list)
      /\ \A k \in 1 .. Len(list) : list[k] \in Blocks
  BY LenProperties DEF Distinct
<1> QED  BY <1>1 DEF Range

LEMMA MallocStep ==
    ASSUME AnyOrder = FALSE, IInv, NEW bytes \in Nat, malloc(bytes)
    PROVE  IInv'
<1>1. PICK size : size = Aligned(bytes)
  OBVIOUS
<1>2. PICK n : n = AfterMalloc(memory, firstFreeMemSeg, size)
  OBVIOUS
<1>3. PICK chain \in SUBSET DOMAIN memory :
        Good(memory, chain, DOMAIN memory, firstFreeMemSeg, Range(blocks))
  BY DEF IInv
<1>4. /\ Stops(memory, firstFreeMemSeg, size) # {}
      /\ ret' = n.addr
      /\ blocks' = blocks \o Block(n.addr, size)
      /\ firstFreeMemSeg' = n.first
      /\ memory' = Remembered(n.memory, n.first, Range(blocks'))
  BY <1>1, <1>2 DEF malloc
<1>5. Dense(Range(blocks))
  BY DEF malloc, MayAllocate, NoHole, Dense
<1>6. Distinct(blocks) /\ Range(blocks) \subseteq Blocks /\ size \in Nat
  BY <1>1, AlignedIsNat, RangeOfBlocks DEF IInv, Held
<1>7. Allocated(n, Range(blocks), size)
  <2>1. PICK held : held = Range(blocks)
    OBVIOUS
  <2>2. Allocated(n, held, size)
    BY <1>2, <1>3, <1>4, <1>5, <1>6, <2>1, AfterMallocGood
  <2> QED  BY <2>1, <2>2
<1>8. Distinct(blocks') /\ Range(blocks') = Range(blocks) \cup Range(Block(n.addr, size))
  <2>1. PICK addr, list : addr = n.addr /\ list = blocks
    OBVIOUS
  <2>2. Fresh(addr, size, Range(list)) /\ Distinct(list)
    BY <1>6, <1>7, <2>1 DEF Allocated
  <2>3. /\ Distinct(list \o Block(addr, size))
        /\ Range(list \o Block(addr, size)) = Range(list) \cup Range(Block(addr, size))
    BY <2>2, AddedBlock
  <2> QED  BY <1>4, <2>1, <2>3
<1>9. Range(blocks') \subseteq Blocks
  BY <1>6, <1>7, <1>8 DEF Allocated, Fresh
<1>10. \E C \in SUBSET DOMAIN memory' :
         Good(memory', C, DOMAIN memory', firstFreeMemSeg', Range(blocks'))
  BY <1>4, <1>7, <1>8, <1>9, Kept DEF Allocated, Fresh, Intact
<1> QED  BY <1>4, <1>7, <1>8, <1>10 DEF IInv, Held, Allocated, Fresh

LEMMA FreeStep ==
    ASSUME IInv, NEW i \in DOMAIN blocks, free(i)
    PROVE  IInv' /\ DOMAIN memory' \subseteq DOMAIN memory
<1>1. PICK n : n = AfterFree(memory, firstFreeMemSeg, blocks[i].addr)
  OBVIOUS
<1>2. PICK chain \in SUBSET DOMAIN memory :
        Good(memory, chain, DOMAIN memory, firstFreeMemSeg, Range(blocks))
  BY DEF IInv
<1>3. /\ blocks' = RemoveAt(blocks, i)
      /\ firstFreeMemSeg' = n.first
      /\ memory' = Remembered(n.memory, n.first, Range(blocks'))
      /\ ret' = ret
  BY <1>1 DEF free
<1>4. Distinct(blocks) /\ Range(blocks) \subseteq Blocks
  BY RangeOfBlocks DEF IInv, Held
<1>5. PICK b : b = blocks[i]
  OBVIOUS
<1>6. /\ Distinct(blocks') /\ Range(blocks') = Range(blocks) \ {b}
      /\ b \in Range(blocks) /\ Alone(b, Range(blocks))
  BY <1>3, <1>4, <1>5, RemovedBlock
<1>7. Released(n, DOMAIN memory, Range(blocks) \ {b})
  <2>1. firstFreeMemSeg \in Nat
    <3>1. HeadIsLowest(memory, chain, firstFreeMemSeg) /\ Typed(memory)
      BY <1>2 DEF Good, Shape
    <3> QED  BY <1>2, <3>1, Fields, Sizes DEF HeadIsLowest
  <2>2. PICK held, m, live, first :
          held = Range(blocks) /\ m = memory /\ live = DOMAIN memory /\ first = firstFreeMemSeg
    OBVIOUS
  <2>3. Released(n, live, held \ {b})
    BY <1>1, <1>2, <1>4, <1>5, <1>6, <2>1, <2>2, FreeGood
  <2> QED  BY <2>2, <2>3
<1>8. Range(blocks') \subseteq Blocks
  BY <1>4, <1>6
<1>9. /\ DOMAIN memory' \subseteq DOMAIN memory
      /\ \E C \in SUBSET DOMAIN memory' :
           Good(memory', C, DOMAIN memory', firstFreeMemSeg', Range(blocks'))
  <2>1. Intact(memory', DOMAIN memory, firstFreeMemSeg', Range(blocks'))
    BY <1>3, <1>6, <1>7, <1>8, Kept DEF Released
  <2> QED  BY <2>1 DEF Intact
<1> QED  BY <1>3, <1>6, <1>9 DEF IInv, Held

LEMMA ReallocStep ==
    ASSUME AnyOrder = FALSE, IInv, NEW i \in DOMAIN blocks, NEW bytes \in Nat,
           realloc(i, bytes)
    PROVE  IInv'
<1>1. PICK size : size = Aligned(bytes)
  OBVIOUS
<1>2. PICK n : n = AfterMalloc(memory, firstFreeMemSeg, size)
  OBVIOUS
<1>3. PICK f : f = AfterFree(n.memory, n.first, blocks[i].addr)
  OBVIOUS
<1>4. PICK chain \in SUBSET DOMAIN memory :
        Good(memory, chain, DOMAIN memory, firstFreeMemSeg, Range(blocks))
  BY DEF IInv
<1>5. /\ Stops(memory, firstFreeMemSeg, size) # {}
      /\ ret' = n.addr
      /\ blocks' = RemoveAt(blocks, i) \o Block(n.addr, size)
      /\ firstFreeMemSeg' = f.first
      /\ memory' = Remembered(f.memory, f.first, Range(blocks'))
  BY <1>1, <1>2, <1>3 DEF realloc
<1>6. Dense(Range(blocks))
  BY DEF realloc, MayAllocate, NoHole, Dense
<1>7. Distinct(blocks) /\ Range(blocks) \subseteq Blocks /\ size \in Nat
  BY <1>1, AlignedIsNat, RangeOfBlocks DEF IInv, Held
<1>8. PICK b, list : b = blocks[i] /\ list = RemoveAt(blocks, i)
  OBVIOUS
<1>9. /\ Distinct(list) /\ Range(list) = Range(blocks) \ {b}
      /\ b \in Range(blocks) /\ Alone(b, Range(blocks))
  BY <1>7, <1>8, RemovedBlock
<1>10. PICK new : new = Range(Block(n.addr, size))
  OBVIOUS
<1>11. Allocated(n, Range(blocks), size)
  <2>1. PICK held : held = Range(blocks)
    OBVIOUS
  <2>2. Allocated(n, held, size)
    BY <1>2, <1>4, <1>5, <1>6, <1>7, <2>1, AfterMallocGood
  <2> QED  BY <2>1, <2>2
<1>12. \A d \in new : d.addr = n.addr
  BY <1>10 DEF Block, Range
<1>13. PICK held : held = Range(blocks) \cup new
  OBVIOUS
<1>14. held \subseteq Blocks /\ b \in held /\ Alone(b, held)
  BY <1>7, <1>9, <1>10, <1>11, <1>12, <1>13 DEF Allocated, Fresh, Alone, Unheld
<1>15. \E L : Released(f, L, held \ {b})
  <2>1. PICK C, L : Good(n.memory, C, L, n.first, held)
    BY <1>10, <1>11, <1>13 DEF Allocated, Fresh
  <2>2. PICK m, first : m = n.memory /\ first = n.first
    OBVIOUS
  <2>3. first \in Nat
    BY <1>11, <2>2 DEF Allocated, Fresh
  <2>4. Released(f, L, held \ {b})
    BY <1>3, <1>8, <1>14, <2>1, <2>2, <2>3, FreeGood
  <2> QED  BY <2>4
<1>16. /\ Distinct(blocks') /\ Range(blocks') = Range(list) \cup new
  <2>1. PICK addr : addr = n.addr
    OBVIOUS
  <2>2. Fresh(addr, size, Range(list)) /\ blocks' = list \o Block(addr, size)
    BY <1>5, <1>8, <1>9, <1>11, <2>1 DEF Allocated, Fresh, Unheld
  <2>3. /\ Distinct(list \o Block(addr, size))
        /\ Range(list \o Block(addr, size)) = Range(list) \cup Range(Block(addr, size))
    BY <1>9, <2>2, AddedBlock
  <2> QED  BY <1>10, <2>1, <2>2, <2>3
<1>17. Range(blocks') = held \ {b}
  BY <1>9, <1>11, <1>12, <1>13, <1>16 DEF Allocated, Fresh, Unheld
<1>18. \E C \in SUBSET DOMAIN memory' :
         Good(memory', C, DOMAIN memory', firstFreeMemSeg', Range(blocks'))
  BY <1>5, <1>14, <1>15, <1>17, Kept DEF Released, Intact
<1> QED  BY <1>5, <1>11, <1>16, <1>18 DEF IInv, Held, Allocated, Fresh

LEMMA NextHolds ==
    ASSUME AnyOrder = FALSE, IInv, [AlignedNext]_alignedVars
    PROVE  IInv'
<1>1. Requests \subseteq Nat
  BY HeapAssumption
<1>2. ASSUME NEW bytes \in Requests, NEW data \in Contents, malloc_(bytes, data) PROVE IInv'
  BY <1>1, <1>2, MallocStep DEF malloc_
<1>3. ASSUME NEW alignment \in Alignments, NEW bytes \in Requests,
             NEW data \in Contents, alignedAlloc(alignment, bytes, data)
      PROVE  IInv'
  <2>1. alignment \in Nat /\ bytes \in Nat
    BY <1>1, AlignmentAssumption
  <2>2. PICK n : n = WordBytes * (Aligned(bytes) + Aligned(alignment))
    OBVIOUS
  <2>3. n \in Nat
    BY <2>1, <2>2, AlignedIsNat DEF WordBytes
  <2>4. malloc(n)
    BY <1>3, <2>2 DEF alignedAlloc
  <2> QED  BY <2>3, <2>4, MallocStep
<1>4. ASSUME NEW i \in DOMAIN blocks, free_(i) PROVE IInv'
  BY <1>4, FreeStep DEF free_
<1>5. ASSUME NEW i \in DOMAIN blocks, NEW bytes \in Requests, NEW data \in Contents,
             realloc_(i, bytes, data)
      PROVE  IInv'
  BY <1>1, <1>5, ReallocStep DEF realloc_
<1>6. CASE UNCHANGED alignedVars
  <2>1. UNCHANGED <<memory, firstFreeMemSeg, blocks, ret>>
    BY <1>6 DEF alignedVars, vars
  <2> QED  BY <2>1 DEF IInv, Held
<1> QED  BY <1>2, <1>3, <1>4, <1>5, <1>6 DEF AlignedNext

(* The invariant, of the heap with everything its callers do *)
THEOREM Invariance ==
    ASSUME AnyOrder = FALSE
    PROVE  AlignedSpec => []IInv
<1>1. AlignedInit => IInv
  BY InitHolds DEF AlignedInit
<1>2. IInv /\ [AlignedNext]_alignedVars => IInv'
  BY NextHolds
<1> QED  BY <1>1, <1>2, PTL DEF AlignedSpec

------------------------------------------------------------------------------
(* What the invariant is for *)

(* The segments found by following the chain are those of the invariant *)
LEMMA SegmentsAreChain ==
    ASSUME NEW chain \in SUBSET DOMAIN memory,
           Good(memory, chain, DOMAIN memory, firstFreeMemSeg, Range(blocks))
    PROVE  Segments = chain
<1> DEFINE leads == [a \in DOMAIN memory |-> {memory[a].nextSeg} \ {Null}]
           S == Closure(leads, {HeapAddr})
<1>1. Typed(memory) /\ Tiles(memory, chain)
  BY DEF Good, Shape
<1>2. /\ DOMAIN leads = DOMAIN memory
      /\ \A a \in DOMAIN memory : leads[a] = {memory[a].nextSeg} \ {Null}
  OBVIOUS
<1> HIDE DEF leads
<1>3. \A a \in chain : leads[a] \subseteq chain
  BY <1>1, <1>2 DEF Tiles
<1>4. HeapAddr \in chain
  BY <1>1 DEF Tiles
<1>5. /\ {HeapAddr} \subseteq S /\ S \subseteq chain
      /\ \A a \in S : leads[a] \subseteq S
  <2>1. PICK roots : roots = {HeapAddr}
    OBVIOUS
  <2>2. roots \subseteq chain /\ roots # {}
    BY <1>4, <2>1
  <2>3. IsFiniteSet(DOMAIN leads) /\ chain \subseteq DOMAIN leads
    BY <1>1, <1>2, FiniteDomain
  <2>4. /\ roots \subseteq Closure(leads, roots)
        /\ Closure(leads, roots) \subseteq chain
        /\ \A a \in Closure(leads, roots) : leads[a] \subseteq Closure(leads, roots)
    BY <1>3, <2>2, <2>3, ClosureIsClosed
  <2> QED  BY <2>1, <2>4
<1>6. Segments = S
  BY DEF Segments, leads
<1> HIDE DEF S
<1>7. \A a \in S : a \in chain /\ memory[a].nextSeg # Null => memory[a].nextSeg \in S
  BY <1>2, <1>5
<1>8. chain \subseteq S
  BY <1>1, <1>5, <1>7, ChainWithin
<1> QED  BY <1>5, <1>6, <1>8

(* The blocks are the data of segments in use *)
LEMMA BlocksAreSegments ==
    ASSUME NEW m, NEW chain, NEW live, NEW first, NEW held, held \subseteq Blocks,
           Good(m, chain, live, first, held)
    PROVE  /\ \A b \in held : /\ b.addr \in Nat /\ b.size \in Nat
                              /\ b.addr - HdrWords \in chain
                              /\ b.addr >= HeapAddr + HdrWords
                              /\ b.addr + b.size <= HeapEnd
           /\ \A b, d \in held : b.addr < d.addr => b.addr + b.size <= d.addr - HdrWords
<1>1. Typed(m) /\ chain \subseteq DOMAIN m /\ Tiles(m, chain) /\ Uses(m, chain, held)
  BY DEF Good, Shape
<1>2. \A a \in DOMAIN m : a \in Nat /\ HeapAddr <= a /\ End(m, a) \in Nat /\ a < HeapEnd
  <2>1. \A a \in DOMAIN m : a \in Nat /\ HeapAddr <= a /\ End(m, a) \in Nat
    BY <1>1, Fields
  <2>2. \A a \in DOMAIN m : a < HeapEnd
    <3>1. HeapEnd \in Nat /\ HeapAddr \in Nat
      BY Sizes DEF HeapEnd
    <3> QED  BY <1>1, <3>1 DEF Typed
  <2> QED  BY <2>1, <2>2
<1>3. \A c \in chain : End(m, c) <= HeapEnd
  <2>1. ASSUME NEW c \in chain PROVE End(m, c) <= HeapEnd
    <3>1. CASE m[c].nextSeg = Null
      BY <1>1, <3>1 DEF Tiles
    <3>2. CASE m[c].nextSeg # Null
      <4>1. m[c].nextSeg \in chain /\ m[c].nextSeg = End(m, c)
        BY <1>1, <3>2 DEF Tiles
      <4>2. End(m, c) \in Nat /\ End(m, c) < HeapEnd /\ HeapEnd \in Nat
        BY <1>1, <1>2, <4>1, Sizes DEF HeapEnd
      <4> QED  BY <4>2
    <3> QED  BY <3>1, <3>2
  <2> QED  BY <2>1
<1>4. ASSUME NEW b \in held
      PROVE  /\ b.addr \in Nat /\ b.size \in Nat /\ b.addr - HdrWords \in chain
             /\ b.addr - HdrWords \in Nat /\ HeapAddr <= b.addr - HdrWords
             /\ End(m, b.addr - HdrWords) = b.addr + b.size
  <2>1. b.addr \in Nat /\ b.size \in Nat
    BY Sizes DEF Blocks, HeapEnd
  <2>2. b.addr - HdrWords \in chain /\ m[b.addr - HdrWords].memLength = b.size
    BY <1>1 DEF Uses
  <2>3. (b.addr - HdrWords) + HdrWords = b.addr
    BY <2>1, Sizes
  <2>4. End(m, b.addr - HdrWords) = b.addr + b.size
    BY <2>2, <2>3 DEF End
  <2> QED  BY <1>1, <1>2, <2>1, <2>2, <2>4
<1>5. ASSUME NEW b \in held
      PROVE  b.addr >= HeapAddr + HdrWords /\ b.addr + b.size <= HeapEnd
  <2>1. HeapAddr \in Nat /\ HdrWords \in Nat
    BY Sizes
  <2> QED  BY <1>3, <1>4, <2>1
<1>6. ASSUME NEW b \in held, NEW d \in held, b.addr < d.addr
      PROVE  b.addr + b.size <= d.addr - HdrWords
  <2>1. b.addr - HdrWords < d.addr - HdrWords
    BY <1>4, <1>6, Sizes
  <2> QED  BY <1>1, <1>4, <2>1 DEF Tiles
<1> QED  BY <1>4, <1>5, <1>6

LEMMA IInvBlocks ==
    ASSUME IInv
    PROVE  /\ DOMAIN blocks = 1 .. Len(blocks) /\ Len(blocks) \in Nat
           /\ Range(blocks) \subseteq Blocks
           /\ \A i \in DOMAIN blocks :
                /\ blocks[i] \in Range(blocks)
                /\ blocks[i].addr \in Nat /\ blocks[i].size \in Nat
                /\ blocks[i].addr - HdrWords \in DOMAIN memory
                /\ memory[blocks[i].addr - HdrWords].memLength = blocks[i].size
                /\ blocks[i].addr >= HeapAddr + HdrWords
                /\ blocks[i].addr + blocks[i].size <= HeapEnd
           /\ \A i, j \in DOMAIN blocks :
                i # j => \/ blocks[i].addr + blocks[i].size <= blocks[j].addr - HdrWords
                         \/ blocks[j].addr + blocks[j].size <= blocks[i].addr - HdrWords
<1>1. PICK chain \in SUBSET DOMAIN memory :
        Good(memory, chain, DOMAIN memory, firstFreeMemSeg, Range(blocks))
  BY DEF IInv
<1>2. Distinct(blocks) /\ Range(blocks) \subseteq Blocks
  BY RangeOfBlocks DEF IInv, Held
<1>3. DOMAIN blocks = 1 .. Len(blocks) /\ Len(blocks) \in Nat
      /\ \A i \in DOMAIN blocks : blocks[i] \in Range(blocks)
  BY <1>2, LenProperties DEF Distinct, Range
<1>4. PICK held : held = Range(blocks)
  OBVIOUS
<1>5. /\ \A b \in held : /\ b.addr \in Nat /\ b.size \in Nat
                         /\ b.addr - HdrWords \in chain
                         /\ b.addr >= HeapAddr + HdrWords
                         /\ b.addr + b.size <= HeapEnd
      /\ \A b, d \in held : b.addr < d.addr => b.addr + b.size <= d.addr - HdrWords
  BY <1>1, <1>2, <1>4, BlocksAreSegments
<1>6. \A b \in held : memory[b.addr - HdrWords].memLength = b.size
  BY <1>1, <1>4 DEF Good, Shape, Uses
<1>7. ASSUME NEW i \in DOMAIN blocks, NEW j \in DOMAIN blocks, i # j
      PROVE  \/ blocks[i].addr + blocks[i].size <= blocks[j].addr - HdrWords
             \/ blocks[j].addr + blocks[j].size <= blocks[i].addr - HdrWords
  <2>1. blocks[i].addr # blocks[j].addr
    BY <1>2, <1>7 DEF Distinct
  <2>2. blocks[i] \in held /\ blocks[j] \in held
    BY <1>3, <1>4
  <2>3. blocks[i].addr < blocks[j].addr \/ blocks[j].addr < blocks[i].addr
    BY <1>5, <2>1, <2>2
  <2> QED  BY <1>5, <2>2, <2>3
<1> QED  BY <1>2, <1>3, <1>4, <1>5, <1>6, <1>7

------------------------------------------------------------------------------
(* The properties: all of them of callers that never allocate above a hole *)

(* The heap keeps the types of what it holds *)
THEOREM TypeCorrect ==
    ASSUME AnyOrder = FALSE
    PROVE  AlignedSpec => []TypeOK
<1>1. IInv => TypeOK
  <2>1. SUFFICES ASSUME IInv PROVE TypeOK
    OBVIOUS
  <2>2. PICK chain \in SUBSET DOMAIN memory :
          Good(memory, chain, DOMAIN memory, firstFreeMemSeg, Range(blocks))
    BY <2>1 DEF IInv
  <2>3. Typed(memory) /\ HeadIsLowest(memory, chain, firstFreeMemSeg)
    BY <2>2 DEF Good, Shape
  <2>4. \A a \in DOMAIN memory : memory[a] \in memseghdr
    BY <2>3 DEF Typed
  <2>5. firstFreeMemSeg \in {Null} \cup DOMAIN memory
    BY <2>2, <2>3 DEF HeadIsLowest
  <2>6. blocks \in Seq([addr : HeapAddr .. HeapEnd, size : Nat]) /\ ret \in Nat
    BY <2>1 DEF IInv, Held, Distinct, Blocks
  <2> QED  BY <2>3, <2>4, <2>5, <2>6 DEF TypeOK, Typed
<1> QED  BY <1>1, Invariance, PTL

(* Blocks, with their headers, are inside the heap and never overlap *)
THEOREM BlocksNeverOverlap ==
    ASSUME AnyOrder = FALSE
    PROVE  AlignedSpec => []NoOverlap
<1>1. IInv => NoOverlap
  BY IInvBlocks DEF NoOverlap
<1> QED  BY <1>1, Invariance, PTL

(* No pointer that the heap may still follow leads into a caller's data *)
THEOREM PointersStayInHeaders ==
    ASSUME AnyOrder = FALSE
    PROVE  AlignedSpec => []NoPointerIntoData
<1>1. IInv => NoPointerIntoData
  BY DEF IInv, Good, Shape, Sound, NoPointerIntoData
<1> QED  BY <1>1, Invariance, PTL

(* The segments tile the heap, free ones never side by side *)
THEOREM SegmentsTileTheHeap ==
    ASSUME AnyOrder = FALSE
    PROVE  AlignedSpec => []ChainTilesHeap
<1>1. IInv => ChainTilesHeap
  <2>1. SUFFICES ASSUME IInv PROVE ChainTilesHeap
    OBVIOUS
  <2>2. PICK chain \in SUBSET DOMAIN memory :
          Good(memory, chain, DOMAIN memory, firstFreeMemSeg, Range(blocks))
    BY <2>1 DEF IInv
  <2>3. /\ Typed(memory) /\ Tiles(memory, chain) /\ Uses(memory, chain, Range(blocks))
        /\ Merged(memory, chain, Null)
    BY <2>2 DEF Good, Shape
  <2>4. Segments = chain
    BY <2>2, SegmentsAreChain
  <2>5. {b.addr - HdrWords : b \in Range(blocks)} \subseteq Segments
    BY <2>3, <2>4 DEF Uses
  <2>6. ASSUME NEW s \in Segments
        PROVE  memory[s].isFree <=> s + HdrWords \notin {b.addr : b \in Range(blocks)}
    BY <2>3, <2>4 DEF Uses
  <2>7. ASSUME NEW s \in Segments, memory[s].nextSeg # Null
        PROVE  /\ memory[s].nextSeg = s + HdrWords + memory[s].memLength
               /\ memory[memory[s].nextSeg].prevSeg = s
               /\ ~ (memory[s].isFree /\ memory[memory[s].nextSeg].isFree)
    <3>1. s # Null
      BY <2>3, <2>4, Fields
    <3> QED  BY <2>3, <2>4, <2>7, <3>1 DEF Tiles, Merged, End
  <2> QED  BY <2>5, <2>6, <2>7 DEF ChainTilesHeap
<1> QED  BY <1>1, Invariance, PTL

(* A heap in which nothing is in use is one segment again *)
THEOREM HeapRecovers ==
    ASSUME AnyOrder = FALSE
    PROVE  AlignedSpec => []AllRecovered
<1>1. IInv => AllRecovered
  <2>1. SUFFICES ASSUME IInv, blocks = << >>
                 PROVE  /\ Segments = {HeapAddr}
                        /\ memory[HeapAddr].memLength >= HeapLength - HdrWords - HdrWords
    BY DEF AllRecovered
  <2>2. PICK chain \in SUBSET DOMAIN memory :
          Good(memory, chain, DOMAIN memory, firstFreeMemSeg, Range(blocks))
    BY <2>1 DEF IInv
  <2>3. /\ Typed(memory) /\ Tiles(memory, chain) /\ Uses(memory, chain, Range(blocks))
        /\ Merged(memory, chain, Null)
    BY <2>2 DEF Good, Shape
  <2>4. Segments = chain
    BY <2>2, SegmentsAreChain
  <2>5. Range(blocks) = {}
    BY <2>1 DEF Range
  <2>6. \A c \in chain : memory[c].isFree
    BY <2>3, <2>5 DEF Uses
  <2>7. HeapAddr \in chain /\ HeapAddr # Null
    BY <2>3, Sizes DEF Tiles, Null
  <2>8. memory[HeapAddr].nextSeg = Null
    BY <2>3, <2>6, <2>7 DEF Tiles, Merged
  <2>9. chain = {HeapAddr}
    <3>1. \A c \in chain : c \in Nat /\ HeapAddr <= c
      BY <2>3, Fields
    <3>2. \A c \in chain : ~ (HeapAddr < c)
      BY <2>3, <2>7, <2>8 DEF Tiles
    <3> QED  BY <2>7, <3>1, <3>2, Sizes
  <2>10. HeapEnd - HdrWords <= End(memory, HeapAddr)
    BY <2>3, <2>7, <2>8 DEF Tiles
  <2>11. memory[HeapAddr].memLength \in Nat
    BY <2>3, <2>7, Fields
  <2>12. memory[HeapAddr].memLength >= HeapLength - HdrWords - HdrWords
    BY <2>10, <2>11, Sizes DEF End, HeapEnd
  <2> QED  BY <2>4, <2>9, <2>12
<1> QED  BY <1>1, Invariance, PTL

(* A free list that has a head leads to every free segment and to no other *)
THEOREM FreeListIsComplete ==
    ASSUME AnyOrder = FALSE
    PROVE  AlignedSpec => []NoneHidden
<1>1. IInv => NoneHidden
  <2>1. SUFFICES ASSUME IInv, firstFreeMemSeg # Null, NoHole
                 PROVE  {s \in Segments : memory[s].isFree}
                          = Range(FreeList(memory, firstFreeMemSeg)) \ {Null}
    BY DEF NoneHidden
  <2>2. PICK chain \in SUBSET DOMAIN memory :
          Good(memory, chain, DOMAIN memory, firstFreeMemSeg, Range(blocks))
    BY <2>1 DEF IInv
  <2>3. Segments = chain
    BY <2>2, SegmentsAreChain
  <2>4. PICK held : held = Range(blocks)
    OBVIOUS
  <2>5. held \subseteq Blocks /\ Dense(held)
    BY <2>1, <2>4, RangeOfBlocks DEF IInv, Held, NoHole, Dense
  <2>6. firstFreeMemSeg \in chain /\ memory[firstFreeMemSeg].isFree
    BY <2>1, <2>2 DEF Good, Shape, HeadIsLowest
  <2>7. PICK first : first = firstFreeMemSeg
    OBVIOUS
  <2>8. \A c \in chain : c # first => c < first /\ ~ memory[c].isFree
    BY <2>2, <2>4, <2>5, <2>6, <2>7, DenseShape
  <2>9. PICK at : at = FreeList(memory, first)
    OBVIOUS
  <2>10. /\ DOMAIN at = Hops(memory) /\ 0 \in Hops(memory) /\ at[0] = first
         /\ \A k \in Hops(memory) : k # 0 => at[k] = Null
    BY <2>2, <2>4, <2>5, <2>7, <2>9, OnlyFree
  <2>11. Range(at) \ {Null} = {first}
    BY <2>1, <2>7, <2>10 DEF Range
  <2>12. {s \in chain : memory[s].isFree} = {first}
    BY <2>6, <2>7, <2>8
  <2> QED  BY <2>3, <2>7, <2>9, <2>11, <2>12
<1> QED  BY <1>1, Invariance, PTL

------------------------------------------------------------------------------
(* What callers are given, aligned or not *)

(* The pairs of bs1 and gs1 are pairs of bs and gs *)
Within(bs, gs, bs1, gs1) ==
    /\ bs1 \in Seq(Blocks) /\ gs1 \in Seq(Gifts) /\ Len(gs1) = Len(bs1)
    /\ \A k \in DOMAIN bs1 : \E j \in DOMAIN bs : bs1[k] = bs[j] /\ gs1[k] = gs[j]

(* Each pair of bs2 and gs2 is one of bs and gs, or that of the new block *)
From(bs, gs, bs2, gs2, addr, room, ptr, size) ==
    /\ gs2 \in Seq(Gifts) /\ Len(gs2) = Len(bs2)
    /\ addr # Null => [addr |-> addr, size |-> room] \in Range(bs2)
    /\ \A k \in DOMAIN bs2 :
         \/ /\ addr # Null => bs2[k].addr # addr
            /\ \E j \in DOMAIN bs : bs2[k] = bs[j] /\ gs2[k] = gs[j]
         \/ /\ addr # Null
            /\ bs2[k] = [addr |-> addr, size |-> room]
            /\ gs2[k] = [ptr |-> ptr, size |-> size]

LEMMA PairRemoved ==
    ASSUME NEW bs, Distinct(bs), NEW gs, Fits(bs, gs), NEW i \in DOMAIN bs
    PROVE  Within(bs, gs, RemoveAt(bs, i), RemoveAt(gs, i))
<1>1. /\ bs \in Seq(Blocks) /\ DOMAIN bs = 1 .. Len(bs) /\ Len(bs) \in Nat
      /\ gs \in Seq(Gifts) /\ DOMAIN gs = 1 .. Len(bs) /\ Len(gs) = Len(bs)
  BY LenProperties DEF Distinct, Fits
<1>2. PICK r, q : r = RemoveAt(bs, i) /\ q = RemoveAt(gs, i)
  OBVIOUS
<1>3. r \in Seq(Blocks) /\ Removal(bs, r, i)
  BY <1>1, <1>2, Removed
<1>4. q \in Seq(Gifts) /\ Removal(gs, q, i)
  BY <1>1, <1>2, Removed
<1>5. Len(r) = Len(bs) - 1 /\ Len(q) = Len(bs) - 1 /\ DOMAIN r = 1 .. Len(bs) - 1
  BY <1>1, <1>3, <1>4, LenProperties DEF Removal
<1>6. ASSUME NEW k \in DOMAIN r PROVE \E j \in DOMAIN bs : r[k] = bs[j] /\ q[k] = gs[j]
  <2>1. k \in 1 .. Len(bs) - 1
    BY <1>5
  <2>2. r[k] = IF k < i THEN bs[k] ELSE bs[k + 1]
    BY <1>3, <2>1 DEF Removal
  <2>3. q[k] = IF k < i THEN gs[k] ELSE gs[k + 1]
    BY <1>1, <1>4, <2>1 DEF Removal
  <2>4. k \in DOMAIN bs /\ k + 1 \in DOMAIN bs
    BY <1>1, <2>1
  <2> QED  BY <2>2, <2>3, <2>4
<1> QED  BY <1>2, <1>3, <1>4, <1>5, <1>6 DEF Within

LEMMA PairAdded ==
    ASSUME NEW bs, NEW gs, NEW bs1, NEW gs1, Within(bs, gs, bs1, gs1),
           NEW addr \in Nat, NEW room \in Nat, NEW ptr \in Nat, NEW size \in Nat,
           addr = Null <=> ptr = Null, Distinct(bs1 \o Block(addr, room))
    PROVE  From(bs, gs, bs1 \o Block(addr, room), Give(gs1, ptr, size), addr, room, ptr, size)
<1>1. /\ bs1 \in Seq(Blocks) /\ DOMAIN bs1 = 1 .. Len(bs1) /\ Len(bs1) \in Nat
      /\ gs1 \in Seq(Gifts) /\ DOMAIN gs1 = 1 .. Len(bs1) /\ Len(gs1) = Len(bs1)
      /\ \A k \in DOMAIN bs1 : \E j \in DOMAIN bs : bs1[k] = bs[j] /\ gs1[k] = gs[j]
  BY LenProperties DEF Within
<1>2. CASE addr = Null
  <2>1. Block(addr, room) = << >> /\ Give(gs1, ptr, size) = gs1
    BY <1>2 DEF Block, Give
  <2>2. bs1 \o Block(addr, room) = bs1
    BY <1>1, <2>1, ConcatEmptySeq
  <2> QED  BY <1>1, <1>2, <2>1, <2>2 DEF From
<1>3. CASE addr # Null
  <2>1. PICK b, g : b = [addr |-> addr, size |-> room] /\ g = [ptr |-> ptr, size |-> size]
    OBVIOUS
  <2>2. PICK r, q : r = bs1 \o Block(addr, room) /\ q = Give(gs1, ptr, size)
    OBVIOUS
  <2>3. r = bs1 \o <<b>> /\ q = Append(gs1, g) /\ g \in Gifts
    BY <1>3, <2>1, <2>2 DEF Block, Give, Gifts
  <2>4. /\ r \in Seq(Blocks) /\ Distinct(r)
        /\ \A k, l \in DOMAIN r : r[k].addr = r[l].addr => k = l
    BY <2>2 DEF Distinct
  <2>5. Len(r) = Len(bs1) + 1 /\ r[Len(bs1) + 1] = b /\ DOMAIN r = 1 .. Len(bs1) + 1
        /\ \A k \in 1 .. Len(bs1) : r[k] = bs1[k]
    BY <1>1, <2>3, <2>4
  <2>6. q \in Seq(Gifts) /\ Len(q) = Len(bs1) + 1 /\ q[Len(bs1) + 1] = g
        /\ \A k \in 1 .. Len(bs1) : q[k] = gs1[k]
    BY <1>1, <2>3
  <2>7. Len(bs1) + 1 \in DOMAIN r
    BY <1>1, <2>5
  <2>8. b \in Range(r)
    BY <2>5, <2>7 DEF Range
  <2>9. ASSUME NEW k \in DOMAIN r
        PROVE  \/ /\ r[k].addr # addr
                  /\ \E j \in DOMAIN bs : r[k] = bs[j] /\ q[k] = gs[j]
               \/ r[k] = b /\ q[k] = g
    <3>1. CASE k = Len(bs1) + 1
      BY <2>5, <2>6, <3>1
    <3>2. CASE k # Len(bs1) + 1
      <4>1. k \in DOMAIN bs1 /\ r[k] = bs1[k] /\ q[k] = gs1[k]
        BY <1>1, <2>5, <2>6, <3>2
      <4>2. r[k].addr # addr
        BY <2>1, <2>4, <2>5, <2>7, <3>2
      <4> QED  BY <1>1, <4>1, <4>2
    <3> QED  BY <3>1, <3>2
  <2>10. Len(q) = Len(r) /\ q \in Seq(Gifts)
    BY <2>5, <2>6
  <2> QED  BY <1>3, <2>1, <2>2, <2>8, <2>9, <2>10 DEF From
<1> QED  BY <1>2, <1>3

LEMMA FitsFrom ==
    ASSUME NEW bs, NEW gs, Fits(bs, gs), NEW bs2, NEW gs2,
           NEW addr \in Nat, NEW room \in Nat, NEW ptr \in Nat, NEW size \in Nat,
           From(bs, gs, bs2, gs2, addr, room, ptr, size),
           addr # Null => addr <= ptr /\ ptr + size <= addr + room
    PROVE  Fits(bs2, gs2)
<1>1. ASSUME NEW k \in DOMAIN bs2
      PROVE  /\ bs2[k].addr <= gs2[k].ptr
             /\ gs2[k].ptr + gs2[k].size <= bs2[k].addr + bs2[k].size
  <2>1. CASE \E j \in DOMAIN bs : bs2[k] = bs[j] /\ gs2[k] = gs[j]
    BY <2>1 DEF Fits
  <2>2. CASE /\ addr # Null
             /\ bs2[k] = [addr |-> addr, size |-> room]
             /\ gs2[k] = [ptr |-> ptr, size |-> size]
    BY <2>2
  <2> QED  BY <2>1, <2>2 DEF From
<1> QED  BY <1>1 DEF Fits, From

(* What a step does to the marks, when it adds the headers in new, and a    *)
(* block at addr of which a caller is given what begins at ptr.             *)
Remarked(m, n, new, addr, room, ptr) ==
    /\ \A w \in DOMAIN m :
         /\ \A h \in new : w \notin Words(h, HdrWords)
         /\ addr # Null => w \notin Words(addr, room)
         => w \in DOMAIN n /\ n[w] = m[w]
    /\ addr # Null /\ ptr # addr => ptr - 1 \in DOMAIN n /\ n[ptr - 1] = addr - HdrWords

LEMMA MarksFrom ==
    ASSUME IInv', Given, Marks,
           NEW addr \in Nat, NEW room \in Nat, NEW ptr \in Nat, NEW size \in Nat,
           From(blocks, given, blocks', given', addr, room, ptr, size),
           addr = Null => ptr = Null,
           addr # Null => addr <= ptr /\ ptr + size <= addr + room,
           Remarked(marked, marked', NewHeaders, addr, room, ptr)
    PROVE  Marks'
<1>1. PICK chain \in SUBSET DOMAIN memory' :
        Good(memory', chain, DOMAIN memory', firstFreeMemSeg', Range(blocks'))
  BY DEF IInv
<1>2. PICK m, held, bs, gs : m = memory' /\ held = Range(blocks') /\ bs = blocks' /\ gs = given'
  OBVIOUS
<1>3. held \subseteq Blocks
  BY <1>2, RangeOfBlocks DEF IInv, Held
<1>4. /\ \A b \in held : /\ b.addr \in Nat /\ b.size \in Nat
                         /\ b.addr - HdrWords \in chain
                         /\ b.addr >= HeapAddr + HdrWords
                         /\ b.addr + b.size <= HeapEnd
      /\ \A b, d \in held : b.addr < d.addr => b.addr + b.size <= d.addr - HdrWords
  <2>1. PICK first : first = firstFreeMemSeg'
    OBVIOUS
  <2> QED  BY <1>1, <1>2, <1>3, <2>1, BlocksAreSegments
<1>5. /\ \A a \in DOMAIN m : a \in Nat
      /\ \A a \in DOMAIN m, b \in held : ~ (a < b.addr + b.size /\ b.addr < a + HdrWords)
  <2>1. Typed(m) /\ Sound(m, DOMAIN m, held)
    BY <1>1, <1>2 DEF Good, Shape
  <2> QED  BY <2>1, Fields DEF Sound, Covered
<1>6. PICK new : new = NewHeaders
  OBVIOUS
<1>7. new \subseteq DOMAIN m /\ \A a \in DOMAIN m : a \in new \/ a \in DOMAIN memory
  BY <1>2, <1>6 DEF NewHeaders
<1>8. /\ \A w \in DOMAIN marked :
           /\ \A h \in new : w \notin Words(h, HdrWords)
           /\ addr # Null => w \notin Words(addr, room)
           => w \in DOMAIN marked' /\ marked'[w] = marked[w]
      /\ addr # Null /\ ptr # addr =>
           ptr - 1 \in DOMAIN marked' /\ marked'[ptr - 1] = addr - HdrWords
  BY <1>6 DEF Remarked
<1>9. PICK b : b = [addr |-> addr, size |-> room]
  OBVIOUS
<1>10. addr # Null => b \in held
  BY <1>2, <1>9 DEF From
<1>12. ASSUME NEW k \in DOMAIN bs, gs[k].ptr # bs[k].addr
       PROVE  /\ gs[k].ptr - 1 \in DOMAIN marked'
              /\ marked'[gs[k].ptr - 1] = bs[k].addr - HdrWords
  <2>1. CASE /\ addr # Null /\ bs[k] = [addr |-> addr, size |-> room]
             /\ gs[k] = [ptr |-> ptr, size |-> size]
    BY <1>8, <1>12, <2>1
  <2>2. CASE /\ addr # Null => bs[k].addr # addr
             /\ \E j \in DOMAIN blocks : bs[k] = blocks[j] /\ gs[k] = given[j]
    <3>1. PICK j \in DOMAIN blocks : bs[k] = blocks[j] /\ gs[k] = given[j]
      BY <2>2
    <3>2. PICK c, g, w : c = bs[k] /\ g = gs[k] /\ w = g.ptr - 1
      OBVIOUS
    <3>3. c \in held
      BY <1>2, <3>2 DEF Range
    <3>4. g.ptr \in Nat /\ g.size \in Nat
      <4>1. g \in Gifts
        <5>1. given \in Seq(Gifts) /\ Len(given) = Len(blocks)
          BY DEF Given, Fits
        <5>2. gs \in Seq(Gifts) /\ Len(gs) = Len(bs)
          BY <1>2 DEF From
        <5>3. DOMAIN bs = 1 .. Len(bs)
          BY <1>2, IInvBlocks, LenProperties DEF IInv, Held, Distinct
        <5> QED  BY <3>2, <5>2, <5>3
      <4> QED  BY <4>1 DEF Gifts
    <3>5. c.addr <= g.ptr /\ g.ptr + g.size <= c.addr + c.size
      BY <3>1, <3>2 DEF Given, Fits
    <3>6. /\ w \in DOMAIN marked /\ marked[w] = c.addr - HdrWords
      BY <1>12, <3>1, <3>2 DEF Marks
    <3>7. /\ w \in Nat /\ c.addr <= w /\ w < c.addr + c.size
      BY <1>4, <1>12, <3>2, <3>3, <3>4, <3>5
    <3>8. \A h \in new : w \notin Words(h, HdrWords)
      <4>1. SUFFICES ASSUME NEW h \in new, w \in Words(h, HdrWords) PROVE FALSE
        OBVIOUS
      <4>2. h \in DOMAIN m /\ h \in Nat
        BY <1>5, <1>7
      <4>3. h <= w /\ w < h + HdrWords
        BY <3>7, <4>1, <4>2, Sizes DEF Words
      <4> QED  BY <1>4, <1>5, <3>3, <3>7, <4>2, <4>3, Sizes
    <3>9. addr # Null => w \notin Words(addr, room)
      <4>1. SUFFICES ASSUME addr # Null, w \in Words(addr, room) PROVE FALSE
        OBVIOUS
      <4>2. addr <= w /\ w < addr + room
        BY <3>7, <4>1 DEF Words
      <4>3. b \in held /\ b.addr = addr /\ b.size = room /\ c.addr # addr
        BY <1>9, <1>10, <2>2, <3>2, <4>1
      <4>4. \/ c.addr + c.size <= addr - HdrWords
            \/ addr + room <= c.addr - HdrWords
        BY <1>4, <3>3, <4>3
      <4> QED  BY <1>4, <3>3, <3>7, <4>2, <4>4, Sizes
    <3> QED  BY <1>8, <3>2, <3>6, <3>8, <3>9
  <2> QED  BY <1>2, <2>1, <2>2 DEF From
<1> QED  BY <1>2, <1>12 DEF Marks

(* Filling what one was given, and writing headers, leaves other marks alone *)
Clean(m, c, new, ptr, size) ==
    \A w \in DOMAIN m :
         /\ \A h \in new : w \notin Words(h, HdrWords)
         /\ ptr # Null => w \notin Words(ptr, size)
         => w \in DOMAIN c /\ c[w] = m[w]

LEMMA CleanMarks ==
    ASSUME NEW m, NEW new, new \subseteq Nat, NEW ptr, NEW size, NEW data,
           NEW c, c = Filled(Written(m, new), ptr, size, data)
    PROVE  Clean(m, c, new, ptr, size)
<1> DEFINE gone == UNION {Words(h, HdrWords - 1) : h \in new}
           mid == Written(m, new)
           over == IF ptr = Null THEN {} ELSE Words(ptr, size)
<1>1. mid = [w \in DOMAIN m \ gone |->
               IF \E h \in new : w = h + HdrWords - 1 THEN Null ELSE m[w]]
  BY DEF Written
<1>2. c = [w \in (DOMAIN mid \ over) \cup (DOMAIN data \cap over) |->
             IF w \in over THEN data[w] ELSE mid[w]]
  BY DEF Filled
<1> HIDE DEF gone, mid, over
<1>3. DOMAIN mid = DOMAIN m \ gone /\ DOMAIN mid \ over \subseteq DOMAIN c
  BY <1>1, <1>2
<1>4. ASSUME NEW w \in DOMAIN m, \A h \in new : w \notin Words(h, HdrWords),
             ptr # Null => w \notin Words(ptr, size)
      PROVE  w \in DOMAIN c /\ c[w] = m[w]
  <2>1. ASSUME NEW h \in new
        PROVE  w \notin Words(h, HdrWords - 1) /\ w # h + HdrWords - 1
    BY <1>4, Sizes DEF Words
  <2>2. w \notin gone /\ ~ \E h \in new : w = h + HdrWords - 1
    BY <2>1 DEF gone
  <2>3. w \in DOMAIN mid /\ mid[w] = m[w]
    BY <1>1, <1>3, <2>2
  <2>4. w \notin over
    BY <1>4 DEF over
  <2> QED  BY <1>2, <1>3, <2>3, <2>4
<1> QED  BY <1>4 DEF Clean

(* A step hands out at most one block *)
Handed ==
    \E addr, room, ptr, size \in Nat :
      /\ From(blocks, given, blocks', given', addr, room, ptr, size)
      /\ addr = Null => ptr = Null
      /\ addr # Null => addr <= ptr /\ ptr + size <= addr + room
      /\ Remarked(marked, marked', NewHeaders, addr, room, ptr)

LEMMA NewAreNat == ASSUME IInv' PROVE NewHeaders \subseteq Nat /\ ret' \in Nat /\ Distinct(blocks')
<1>1. PICK chain \in SUBSET DOMAIN memory' :
        Good(memory', chain, DOMAIN memory', firstFreeMemSeg', Range(blocks'))
  BY DEF IInv
<1>2. PICK m : m = memory'
  OBVIOUS
<1>3. Typed(m)
  BY <1>1, <1>2 DEF Good, Shape
<1>4. DOMAIN m \subseteq Nat
  BY <1>3, Fields
<1> QED  BY <1>2, <1>4 DEF NewHeaders, IInv, Held

LEMMA WithinSelf ==
    ASSUME NEW bs, Distinct(bs), NEW gs, Fits(bs, gs) PROVE Within(bs, gs, bs, gs)
  BY DEF Within, Distinct, Fits

(* A block that is filled from its beginning *)
LEMMA PlainMarks ==
    ASSUME NEW m, NEW new, new \subseteq Nat, NEW addr, NEW size, NEW data,
           NEW c, c = Filled(Written(m, new), addr, size, data)
    PROVE  Remarked(m, c, new, addr, size, addr)
<1>1. Clean(m, c, new, addr, size)
  BY CleanMarks
<1> QED  BY <1>1 DEF Clean, Remarked

LEMMA MallocHands ==
    ASSUME IInv, IInv', Given, NEW bytes \in Nat, NEW data, malloc_(bytes, data)
    PROVE  Handed
<1>1. PICK addr, size : addr = ret' /\ size = Aligned(bytes)
  OBVIOUS
<1>2. addr \in Nat /\ size \in Nat /\ NewHeaders \subseteq Nat
  BY <1>1, NewAreNat, AlignedIsNat
<1>3. /\ blocks' = blocks \o Block(addr, size) /\ given' = Give(given, addr, size)
      /\ marked' = Filled(Written(marked, NewHeaders), addr, size, data)
  BY <1>1 DEF malloc_, malloc
<1>4. Distinct(blocks \o Block(addr, size))
  BY <1>3, NewAreNat
<1>5. Within(blocks, given, blocks, given)
  BY WithinSelf DEF IInv, Held, Given
<1>6. From(blocks, given, blocks \o Block(addr, size), Give(given, addr, size),
           addr, size, addr, size)
  BY <1>2, <1>4, <1>5, PairAdded
<1>7. Remarked(marked, marked', NewHeaders, addr, size, addr)
  BY <1>2, <1>3, PlainMarks
<1> QED  BY <1>2, <1>3, <1>6, <1>7 DEF Handed

LEMMA ReallocHands ==
    ASSUME IInv, IInv', Given, NEW i \in DOMAIN blocks, NEW bytes \in Nat, NEW data,
           realloc_(i, bytes, data)
    PROVE  Handed
<1>1. PICK addr, size : addr = ret' /\ size = Aligned(bytes)
  OBVIOUS
<1>2. addr \in Nat /\ size \in Nat /\ NewHeaders \subseteq Nat
  BY <1>1, NewAreNat, AlignedIsNat
<1>3. PICK bs, gs : bs = RemoveAt(blocks, i) /\ gs = RemoveAt(given, i)
  OBVIOUS
<1>4. /\ blocks' = bs \o Block(addr, size) /\ given' = Give(gs, addr, size)
      /\ marked' = Filled(Written(marked, NewHeaders), addr, size, data)
  BY <1>1, <1>3 DEF realloc_, realloc
<1>5. Distinct(bs \o Block(addr, size))
  BY <1>4, NewAreNat
<1>6. Within(blocks, given, bs, gs)
  BY <1>3, PairRemoved DEF IInv, Held, Given
<1>7. From(blocks, given, bs \o Block(addr, size), Give(gs, addr, size), addr, size, addr, size)
  BY <1>2, <1>5, <1>6, PairAdded
<1>8. Remarked(marked, marked', NewHeaders, addr, size, addr)
  BY <1>2, <1>4, PlainMarks
<1> QED  BY <1>2, <1>4, <1>7, <1>8 DEF Handed

LEMMA FreeHands ==
    ASSUME IInv, IInv', Given, NEW i \in DOMAIN blocks, free_(i)
    PROVE  Handed
<1>1. PICK bs, gs : bs = RemoveAt(blocks, i) /\ gs = RemoveAt(given, i)
  OBVIOUS
<1>2. blocks' = bs /\ given' = gs /\ marked' = marked
  BY <1>1 DEF free_, free
<1>3. Within(blocks, given, bs, gs)
  BY <1>1, PairRemoved DEF IInv, Held, Given
<1>4. From(blocks, given, bs, gs, Null, 0, Null, 0)
  BY <1>3 DEF From, Within
<1>5. Remarked(marked, marked', NewHeaders, Null, 0, Null)
  BY <1>2 DEF Remarked
<1>6. Null \in Nat /\ 0 \in Nat
  BY Sizes
<1> QED  BY <1>2, <1>4, <1>5, <1>6 DEF Handed

(* Where an address moves up to *)
LEMMA MovedUp ==
    ASSUME NEW addr \in Nat, NEW alignment \in Nat \ {0}
    PROVE  /\ Up(addr, alignment) \in Nat /\ addr <= Up(addr, alignment)
           /\ Up(addr, alignment) <= addr + alignment
           /\ Up(Null, alignment) = Null
<1>1. addr % alignment \in 0 .. alignment - 1 /\ 0 % alignment = 0
  OBVIOUS
<1> QED  BY <1>1 DEF Up, Null

LEMMA AlignedHands ==
    ASSUME IInv, IInv', Given, NEW aligned \in Nat \ {0}, NEW bytes \in Nat,
           NEW data, alignedAlloc(aligned, bytes, data)
    PROVE  Handed
<1>1. PICK addr, size, alignment :
        addr = ret' /\ size = Aligned(bytes) /\ alignment = Aligned(aligned)
  OBVIOUS
<1>2. addr \in Nat /\ size \in Nat /\ NewHeaders \subseteq Nat
  BY <1>1, NewAreNat, AlignedIsNat
<1>3. alignment \in Nat \ {0}
  BY <1>1 DEF Aligned, WordBytes
<1>4. PICK ptr, room : ptr = Up(addr, alignment) /\ room = size + alignment
  OBVIOUS
<1>5. /\ ptr \in Nat /\ addr <= ptr /\ ptr <= addr + alignment /\ room \in Nat
      /\ addr = Null => ptr = Null
  BY <1>2, <1>3, <1>4, MovedUp
<1>6. Aligned(WordBytes * (size + alignment)) = room
  BY <1>2, <1>3, <1>4 DEF Aligned, WordBytes
<1>7. PICK clean : clean = Filled(Written(marked, NewHeaders), ptr, size, data)
  OBVIOUS
<1>8. /\ blocks' = blocks \o Block(addr, room) /\ given' = Give(given, ptr, size)
      /\ marked' = IF ptr = addr THEN clean
                   ELSE [w \in DOMAIN clean \cup {ptr - 1} |->
                           IF w = ptr - 1 THEN addr - HdrWords ELSE clean[w]]
  BY <1>1, <1>4, <1>6, <1>7 DEF alignedAlloc, malloc
<1>9. Distinct(blocks \o Block(addr, room))
  BY <1>8, NewAreNat
<1>10. Within(blocks, given, blocks, given)
  BY WithinSelf DEF IInv, Held, Given
<1>11. addr = Null <=> ptr = Null
  BY <1>2, <1>5 DEF Null
<1>12. From(blocks, given, blocks \o Block(addr, room), Give(given, ptr, size),
            addr, room, ptr, size)
  BY <1>2, <1>5, <1>9, <1>10, <1>11, PairAdded
<1>13. Remarked(marked, marked', NewHeaders, addr, room, ptr)
  <2>1. PICK new : new = NewHeaders
    OBVIOUS
  <2>2. /\ \A w \in DOMAIN marked :
             /\ \A h \in new : w \notin Words(h, HdrWords)
             /\ ptr # Null => w \notin Words(ptr, size)
             => w \in DOMAIN clean /\ clean[w] = marked[w]
    <3>1. PICK m : m = marked
      OBVIOUS
    <3>2. Clean(m, clean, new, ptr, size)
      BY <1>2, <1>7, <2>1, <3>1, CleanMarks
    <3> QED  BY <3>1, <3>2 DEF Clean
  <2>3. DOMAIN marked' = DOMAIN clean \cup (IF ptr = addr THEN {} ELSE {ptr - 1})
    BY <1>8
  <2>4. \A w \in DOMAIN clean : (ptr # addr => w # ptr - 1) => marked'[w] = clean[w]
    BY <1>8
  <2>5. ptr # addr => ptr - 1 \in DOMAIN marked' /\ marked'[ptr - 1] = addr - HdrWords
    BY <1>8
  <2>6. ASSUME NEW w \in DOMAIN marked, \A h \in new : w \notin Words(h, HdrWords),
               addr # Null => w \notin Words(addr, room)
        PROVE  w \in DOMAIN marked' /\ marked'[w] = marked[w]
    <3>1. ptr # Null => w \notin Words(ptr, size)
      BY <1>2, <1>3, <1>4, <1>5, <1>11, <2>6 DEF Words
    <3>2. ptr # addr => w # ptr - 1
      <4>1. SUFFICES ASSUME ptr # addr, w = ptr - 1 PROVE FALSE
        OBVIOUS
      <4>2. addr # Null
        BY <1>5, <4>1
      <4>3. w \in addr .. addr + room - 1
        BY <1>2, <1>3, <1>4, <1>5, <4>1
      <4> QED  BY <2>6, <4>2, <4>3 DEF Words
    <3> QED  BY <2>2, <2>3, <2>4, <2>6, <3>1, <3>2
  <2> QED  BY <2>1, <2>2, <2>3, <2>5, <2>6 DEF Remarked
<1>14. addr <= ptr /\ ptr + size <= addr + room
  BY <1>2, <1>3, <1>4, <1>5
<1> QED  BY <1>2, <1>5, <1>8, <1>12, <1>13, <1>14 DEF Handed

LEMMA StepHands ==
    ASSUME AnyOrder = FALSE, IInv, Given, AlignedNext
    PROVE  Handed
<1>1. IInv'
  BY NextHolds
<1>2. Requests \subseteq Nat /\ Alignments \subseteq Nat \ {0}
  BY HeapAssumption, AlignmentAssumption
<1>3. ASSUME NEW bytes \in Requests, NEW data \in Contents, malloc_(bytes, data) PROVE Handed
  BY <1>1, <1>2, <1>3, MallocHands
<1>4. ASSUME NEW alignment \in Alignments, NEW bytes \in Requests,
             NEW data \in Contents, alignedAlloc(alignment, bytes, data)
      PROVE  Handed
  BY <1>1, <1>2, <1>4, AlignedHands
<1>5. ASSUME NEW i \in DOMAIN blocks, free_(i) PROVE Handed
  BY <1>1, <1>5, FreeHands
<1>6. ASSUME NEW i \in DOMAIN blocks, NEW bytes \in Requests, NEW data \in Contents,
             realloc_(i, bytes, data)
      PROVE  Handed
  BY <1>1, <1>2, <1>6, ReallocHands
<1> QED  BY <1>3, <1>4, <1>5, <1>6 DEF AlignedNext

LEMMA GivenHolds ==
    ASSUME AnyOrder = FALSE, IInv, Given, [AlignedNext]_alignedVars
    PROVE  Given'
<1>1. CASE AlignedNext
  <2>1. PICK addr, room, ptr, size \in Nat :
          /\ From(blocks, given, blocks', given', addr, room, ptr, size)
          /\ addr # Null => addr <= ptr /\ ptr + size <= addr + room
    BY <1>1, StepHands DEF Handed
  <2>2. Fits(blocks', given')
    BY <2>1, FitsFrom DEF Given
  <2> QED  BY <2>2 DEF Given
<1>2. CASE UNCHANGED alignedVars
  BY <1>2 DEF alignedVars, vars, Given
<1> QED  BY <1>1, <1>2

LEMMA MarksHold ==
    ASSUME AnyOrder = FALSE, IInv, Given, Marks, [AlignedNext]_alignedVars
    PROVE  Marks'
<1>1. CASE AlignedNext
  <2>1. PICK addr, room, ptr, size \in Nat :
          /\ From(blocks, given, blocks', given', addr, room, ptr, size)
          /\ addr = Null => ptr = Null
          /\ addr # Null => addr <= ptr /\ ptr + size <= addr + room
          /\ Remarked(marked, marked', NewHeaders, addr, room, ptr)
    BY <1>1, StepHands DEF Handed
  <2>2. IInv'
    BY <1>1, NextHolds
  <2> QED  BY <2>1, <2>2, MarksFrom
<1>2. CASE UNCHANGED alignedVars
  BY <1>2 DEF alignedVars, vars, Marks
<1> QED  BY <1>1, <1>2

(* What a caller is given is in its block, however far alignment moved it *)
THEOREM GivenStaysInside ==
    ASSUME AnyOrder = FALSE
    PROVE  AlignedSpec => []GivenInside
<1>1. AlignedInit => Given
  <2>1. SUFFICES ASSUME blocks = << >>, given = << >> PROVE Fits(blocks, given)
    BY DEF AlignedInit, Init, Given
  <2> QED  BY <2>1 DEF Fits
<1>2. IInv /\ Given /\ [AlignedNext]_alignedVars => Given'
  BY GivenHolds
<1>3. IInv /\ Given => GivenInside
  BY IInvBlocks DEF Given, Fits, GivenInside
<1> QED  BY <1>1, <1>2, <1>3, Invariance, PTL DEF AlignedSpec

(* free and realloc find the segment of every block that alignedAlloc moved *)
(* up, whatever callers write in their blocks and the memory held before.   *)
THEOREM MovedIsFound ==
    ASSUME AnyOrder = FALSE
    PROVE  AlignedSpec => []MovedFound
<1>1. AlignedInit => Given /\ Marks
  <2>1. SUFFICES ASSUME blocks = << >>, given = << >>
                 PROVE  Fits(blocks, given) /\ Marks
    BY DEF AlignedInit, Init, Given
  <2> QED  BY <2>1 DEF Fits, Marks
<1>2. IInv /\ Given /\ Marks /\ [AlignedNext]_alignedVars => Given' /\ Marks'
  BY GivenHolds, MarksHold
<1>3. Marks => MovedFound
  BY DEF Marks, MovedFound, IsSegment, SegmentOf
<1> QED  BY <1>1, <1>2, <1>3, Invariance, PTL DEF AlignedSpec
==============================================================================
