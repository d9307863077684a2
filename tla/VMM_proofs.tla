----------------------------- MODULE VMM_proofs ------------------------------
(***************************************************************************)
(* Proofs about VMM: the page tables of the boot code and those grown from *)
(* them stay a tree, for every size of the tables, every pool of frames    *)
(* and every content of a frame that is handed out, and to clients that    *)
(* take no attribute back the tree implements an address space.            *)
(***************************************************************************)
EXTENDS VMM, FiniteSetTheorems, WellFoundedInduction, TLAPS

RAM == {BootTables[k] : k \in 1 .. 4} \cup Pool
Root == BootTables[1]
Virt == Index \X Index \X Index \X Index
Entries == [frame : Nat, attrib : SUBSET {"P", "W"}]

------------------------------------------------------------------------------
(* The invariant *)

(* The tables by level, the root's first: those of a level are what the     *)
(* entries of the level above lead to                                       *)
FramesIn(m, T) == {m[t][i].frame : t \in T, i \in Index} \ {Null}
Levels(m) ==
    LET two == FramesIn(m, {Root})
        three == FramesIn(m, two)
    IN  <<{Root}, two, three, FramesIn(m, three)>>

Tables(L) == L[1] \cup L[2] \cup L[3] \cup L[4]

(* A table is at one level *)
Layered(m, L) ==
    /\ L \in [1 .. 4 -> SUBSET RAM]
    /\ L[1] = {Root}
    /\ \A k \in 1 .. 3 : L[k + 1] = FramesIn(m, L[k])
    /\ \A j, k \in 1 .. 4 : j # k => L[j] \cap L[k] = {}

(* Above the page tables an entry is zero or leads to a table *)
ZeroOrPresent(m, L) ==
    \A k \in 1 .. 3 : \A t \in L[k], i \in Index :
        m[t][i] = Zero \/ ("P" \in m[t][i].attrib /\ m[t][i].frame # Null)

(* No table is reached by two entries *)
OneParent(m, L) ==
    \A k, l \in 1 .. 3 : \A t \in L[k], u \in L[l], i, j \in Index :
        m[t][i].frame = m[u][j].frame /\ m[t][i].frame # Null => t = u /\ i = j

(* What is writable is writable all the way down to it *)
WritableAbove(m, L) ==
    \A k \in 1 .. 3 : \A t \in L[k], i, j \in Index :
        m[t][i].frame # Null /\ "W" \in m[m[t][i].frame][j].attrib
            => "W" \in m[t][i].attrib

Tree(m, L) ==
    /\ m \in [RAM -> Table]
    /\ Layered(m, L)
    /\ ZeroOrPresent(m, L)
    /\ OneParent(m, L)
    /\ WritableAbove(m, L)

(* The walk of the tables m *)
Step(m, e, i) == IF "P" \in e.attrib THEN m[e.frame][i] ELSE Zero
At1(m, v) == m[Root][v[1]]
At2(m, v) == Step(m, At1(m, v), v[2])
At3(m, v) == Step(m, At2(m, v), v[3])
At4(m, v) == Step(m, At3(m, v), v[4])

(* Every frame of the pool has one use; f are the free ones, T the tables *)
Accounted(m, f, T) ==
    /\ f \subseteq Pool /\ others \subseteq Pool
    /\ f \cap others = {}
    /\ (f \cup others) \cap T = {}
    /\ \A v \in owned : /\ "P" \in At4(m, v).attrib
                        /\ At4(m, v).frame \in Pool \ (f \cup others \cup T)
    /\ \A u, v \in owned : At4(m, u).frame = At4(m, v).frame => u = v
    /\ Pool \subseteq f \cup others \cup T \cup {At4(m, v).frame : v \in owned}
    /\ \A v \in Pages \ owned :
          "P" \in At4(m, v).attrib => At4(m, v).frame \notin Pool

(* The boot code's root is loaded: the kernel runs *)
Booted ==
    /\ current_PML4 = Root
    /\ Accounted(mem, free, Tables(Levels(mem)))

(* vm_initialize has loaded an empty one: nothing runs any more *)
Stopped ==
    /\ current_PML4 \in Pool \ Tables(Levels(mem))
    /\ mem[current_PML4] = Zeroed
    /\ DOMAIN tlb = {}

IInv == TypeOK /\ Tree(mem, Levels(mem)) /\ (Booted \/ Stopped)

------------------------------------------------------------------------------
(* Frames and entries *)

(* Tables are frames, and none is null *)
LEMMA RAMType ==
    /\ RAM \subseteq Nat \ {Null}
    /\ Root \in RAM \ Pool
    /\ \A k \in 1 .. 4 : BootTables[k] \in RAM \ Pool
    /\ Pool \subseteq RAM
<1>1. \A k \in 1 .. 4 : BootTables[k] \in Nat \ {Null} /\ BootTables[k] \in RAM \ Pool
  BY BootAssumption, PoolAssumption DEF RAM
<1>2. Pool \subseteq RAM /\ Pool \subseteq Nat \ {Null}
  BY PoolAssumption DEF RAM
<1>3. RAM \subseteq Nat \ {Null}
  BY <1>1, <1>2 DEF RAM
<1> QED  BY <1>1, <1>2, <1>3 DEF Root

(* The lowest of some frames is one of them, and null when there are none *)
LEMMA LowestFrame ==
    ASSUME NEW F, F \subseteq Pool
    PROVE  /\ Null \notin F
           /\ Lowest(F) = Null <=> F = {}
           /\ F # {} => Lowest(F) \in F
<1>1. F \subseteq Nat /\ Null \notin F
  BY PoolAssumption
<1>2. ASSUME F # {} PROVE Lowest(F) \in F
  <2>1. \E f \in F : \A g \in F : ~ (<<g, f>> \in OpToRel(<, Nat))
    BY <1>1, <1>2, NatLessThanWellFounded, WFMin
  <2>2. PICK f \in F : \A g \in F : ~ (<<g, f>> \in OpToRel(<, Nat))
    BY <2>1
  <2>3. \A g \in F : f <= g
    <3>1. \A g \in F : ~ (g < f)
      BY <1>1, <2>2 DEF OpToRel
    <3> QED  BY <1>1, <3>1
  <2> QED  BY <1>2, <2>3 DEF Lowest
<1> QED  BY <1>1, <1>2 DEF Lowest

LEMMA ZeroType == Zero \in Entries /\ Zeroed \in Table
BY DEF Zero, Zeroed, Table, Entries, Null

LEMMA TableType == Table = [Index -> Entries]
BY DEF Table, Entries

------------------------------------------------------------------------------
(* What a tree is made of *)

(* Every table of a tree is a frame whose entries are entries *)
LEMMA TreeType ==
    ASSUME NEW m, NEW L, Tree(m, L)
    PROVE  /\ \A t \in RAM, i \in Index : m[t][i] \in Entries
           /\ \A k \in 1 .. 4 : L[k] \subseteq RAM
           /\ Tables(L) \subseteq RAM
           /\ Root \in L[1] /\ Root \in Tables(L)
           /\ \A k \in 1 .. 4 : L[k] \subseteq Tables(L)
           /\ Tables(L) = UNION {L[k] : k \in 1 .. 4}
BY TableType DEF Tree, Layered, Tables

(* An entry above the page tables is zero or leads one level down *)
LEMMA TreeDown ==
    ASSUME NEW m, NEW L, Tree(m, L), NEW k \in 1 .. 3, NEW t \in L[k], NEW i \in Index
    PROVE  \/ m[t][i] = Zero /\ m[t][i].frame = Null /\ m[t][i].attrib = {}
           \/ /\ "P" \in m[t][i].attrib
              /\ m[t][i].frame # Null
              /\ m[t][i].frame \in L[k + 1]
<1>1. m[t][i].frame # Null => m[t][i].frame \in L[k + 1]
  BY DEF Tree, Layered, FramesIn
<1>2. m[t][i] = Zero \/ ("P" \in m[t][i].attrib /\ m[t][i].frame # Null)
  BY DEF Tree, ZeroOrPresent
<1>3. Zero.frame = Null /\ Zero.attrib = {}
  BY DEF Zero
<1> QED  BY <1>1, <1>2, <1>3

(* A table below the root is reached by an entry of the level above *)
LEMMA TreeUp ==
    ASSUME NEW m, NEW L, Tree(m, L), NEW k \in 1 .. 3, NEW f \in L[k + 1]
    PROVE  \E t \in L[k], i \in Index : m[t][i].frame = f /\ f # Null
BY DEF Tree, Layered, FramesIn

(* The levels are those of the tables *)
LEMMA LevelsUnique ==
    ASSUME NEW m, NEW L, Layered(m, L)
    PROVE  L = Levels(m)
<1>1. L[1] = {Root} /\ L[2] = FramesIn(m, L[1]) /\ L[3] = FramesIn(m, L[2])
      /\ L[4] = FramesIn(m, L[3])
  BY DEF Layered
<1>2. L = <<L[1], L[2], L[3], L[4]>>
  BY DEF Layered
<1> QED  BY <1>1, <1>2 DEF Levels

(* The walk of a page meets a zero entry, or a table of every level *)
LEMMA WalkType ==
    ASSUME NEW m, NEW L, Tree(m, L), NEW v \in Virt
    PROVE  /\ At1(m, v) = Zero \/ ("P" \in At1(m, v).attrib /\ At1(m, v).frame \in L[2])
           /\ At2(m, v) = Zero \/ ("P" \in At2(m, v).attrib /\ At2(m, v).frame \in L[3])
           /\ At3(m, v) = Zero \/ ("P" \in At3(m, v).attrib /\ At3(m, v).frame \in L[4])
           /\ At4(m, v) \in Entries
<1>0. v[1] \in Index /\ v[2] \in Index /\ v[3] \in Index /\ v[4] \in Index
  BY DEF Virt
<1>1. At1(m, v) = Zero \/ ("P" \in At1(m, v).attrib /\ At1(m, v).frame \in L[2])
  BY <1>0, TreeDown, TreeType DEF At1
<1>2. At2(m, v) = Zero \/ ("P" \in At2(m, v).attrib /\ At2(m, v).frame \in L[3])
  <2>1. CASE At1(m, v) = Zero
    BY <2>1 DEF At2, Step, Zero
  <2>2. CASE At1(m, v).frame \in L[2]
    <3>1. 2 \in 1 .. 3 /\ 2 + 1 = 3
      OBVIOUS
    <3>2. \A i \in Index : m[At1(m, v).frame][i] = Zero
            \/ ("P" \in m[At1(m, v).frame][i].attrib /\ m[At1(m, v).frame][i].frame \in L[3])
      BY <2>2, <3>1, TreeDown
    <3> QED  BY <1>0, <3>2 DEF At2, Step
  <2> QED  BY <1>1, <2>1, <2>2
<1>3. At3(m, v) = Zero \/ ("P" \in At3(m, v).attrib /\ At3(m, v).frame \in L[4])
  <2>1. CASE At2(m, v) = Zero
    BY <2>1 DEF At3, Step, Zero
  <2>2. CASE At2(m, v).frame \in L[3]
    <3>1. 3 \in 1 .. 3 /\ 3 + 1 = 4
      OBVIOUS
    <3>2. \A i \in Index : m[At2(m, v).frame][i] = Zero
            \/ ("P" \in m[At2(m, v).frame][i].attrib /\ m[At2(m, v).frame][i].frame \in L[4])
      BY <2>2, <3>1, TreeDown
    <3> QED  BY <1>0, <3>2 DEF At3, Step
  <2> QED  BY <1>2, <2>1, <2>2
<1>4. At4(m, v) \in Entries
  BY <1>0, <1>3, TreeType, ZeroType DEF At4, Step, Zero
<1> QED  BY <1>1, <1>2, <1>3, <1>4

------------------------------------------------------------------------------
(* What may be done to a tree *)

(* Virtual pages whose walks the tables m and n end in the same entries *)
SameWalks(m, n) == \A v \in Virt : At4(m, v) = At4(n, v)

(* The entry that leads to a table allows what flags a give below it *)
Allowed(m, L, t, a) ==
    \A k \in 1 .. 3 : \A u \in L[k], j \in Index :
        m[u][j].frame = t /\ "W" \in a => "W" \in m[u][j].attrib

(* Filling a frame that is no table *)
LEMMA FillOutside ==
    ASSUME NEW m, NEW L, Tree(m, L), NEW t \in RAM \ Tables(L), NEW x \in Table
    PROVE  Tree([m EXCEPT ![t] = x], L) /\ SameWalks([m EXCEPT ![t] = x], m)
<1> DEFINE n == [m EXCEPT ![t] = x]
<1>1. n \in [RAM -> Table] /\ \A u \in Tables(L) : n[u] = m[u]
  BY TreeType DEF Tree
<1>2. \A k \in 1 .. 4 : \A u \in L[k] : n[u] = m[u]
  BY <1>1, TreeType
<1>3. \A k \in 1 .. 3 : FramesIn(n, L[k]) = FramesIn(m, L[k])
  BY <1>2 DEF FramesIn
<1>4. Layered(n, L)
  BY <1>3 DEF Tree, Layered
<1>5. ZeroOrPresent(n, L)
  BY <1>2 DEF Tree, ZeroOrPresent
<1>6. OneParent(n, L)
  BY <1>2 DEF Tree, OneParent
<1>7. WritableAbove(n, L)
  <2> SUFFICES ASSUME NEW k \in 1 .. 3, NEW u \in L[k], NEW i \in Index, NEW j \in Index,
                      n[u][i].frame # Null, "W" \in n[n[u][i].frame][j].attrib
               PROVE  "W" \in n[u][i].attrib
    BY DEF WritableAbove
  <2>1. n[u] = m[u] /\ m[u][i].frame \in Tables(L)
    BY <1>2, TreeDown, TreeType
  <2> QED  BY <1>1, <2>1 DEF Tree, WritableAbove
<1>8. ASSUME NEW v \in Virt PROVE At4(n, v) = At4(m, v)
  <2>1. At1(n, v) = At1(m, v)
    BY <1>1, TreeType DEF At1
  <2>2. At2(n, v) = At2(m, v)
    BY <1>1, <2>1, WalkType, TreeType DEF At2, Step, Zero
  <2>3. At3(n, v) = At3(m, v)
    BY <1>1, <2>2, WalkType, TreeType DEF At3, Step, Zero
  <2> QED  BY <1>1, <2>3, WalkType, TreeType DEF At4, Step, Zero
<1> QED  BY <1>1, <1>4, <1>5, <1>6, <1>7, <1>8 DEF Tree, SameWalks

(* Writing an entry of a page table *)
LEMMA WriteLeaf ==
    ASSUME NEW m, NEW L, Tree(m, L), NEW t \in L[4], NEW i \in Index, NEW x \in Entries,
           Allowed(m, L, t, x.attrib)
    PROVE  Tree([m EXCEPT ![t][i] = x], L)
<1> DEFINE n == [m EXCEPT ![t][i] = x]
<1>1. t \in RAM /\ m \in [RAM -> [Index -> Entries]]
  BY TreeType, TableType DEF Tree
<1>2. n \in [RAM -> Table] /\ n[t] = [m[t] EXCEPT ![i] = x]
      /\ \A u \in RAM \ {t} : n[u] = m[u]
  BY <1>1, TableType
<1>3. \A k \in 1 .. 3 : \A u \in L[k] : u # t /\ n[u] = m[u]
  <2>1. \A k \in 1 .. 3 : L[k] \cap L[4] = {}
    BY DEF Tree, Layered
  <2> QED  BY <1>2, <2>1, TreeType
<1>4. \A k \in 1 .. 3 : FramesIn(n, L[k]) = FramesIn(m, L[k])
  BY <1>3 DEF FramesIn
<1>5. Layered(n, L)
  BY <1>4 DEF Tree, Layered
<1>6. ZeroOrPresent(n, L)
  BY <1>3 DEF Tree, ZeroOrPresent
<1>7. OneParent(n, L)
  BY <1>3 DEF Tree, OneParent
<1>8. WritableAbove(n, L)
  <2> SUFFICES ASSUME NEW k \in 1 .. 3, NEW u \in L[k], NEW j \in Index, NEW h \in Index,
                      n[u][j].frame # Null, "W" \in n[n[u][j].frame][h].attrib
               PROVE  "W" \in n[u][j].attrib
    BY DEF WritableAbove
  <2>1. n[u] = m[u] /\ m[u][j].frame \in RAM
    BY <1>3, TreeDown, TreeType
  <2>2. CASE m[u][j].frame # t
    BY <1>2, <2>1, <2>2 DEF Tree, WritableAbove
  <2>3. CASE m[u][j].frame = t /\ h = i
    <3>1. n[t][i] = x
      BY <1>1, <1>2
    <3> QED  BY <2>1, <2>3, <3>1 DEF Allowed
  <2>4. CASE m[u][j].frame = t /\ h # i
    <3>1. n[t][h] = m[t][h]
      BY <1>1, <1>2, <2>4
    <3> QED  BY <2>1, <2>4, <3>1 DEF Tree, WritableAbove
  <2> QED  BY <2>2, <2>3, <2>4
<1> QED  BY <1>2, <1>5, <1>6, <1>7, <1>8 DEF Tree

(* Tables whose frames are where those of m are, but for entries that were  *)
(* zero and lead to an empty table, end every walk where m does             *)
Grown(m, L, n) ==
    /\ \A k \in 1 .. 3 : \A t \in L[k], i \in Index :
          \/ n[t][i].frame = m[t][i].frame
             /\ ("P" \in n[t][i].attrib <=> "P" \in m[t][i].attrib)
          \/ m[t][i] = Zero /\ n[n[t][i].frame] = Zeroed
    /\ \A t \in L[4] : n[t] = m[t]

LEMMA GrownWalks ==
    ASSUME NEW m, NEW L, Tree(m, L), NEW n, Grown(m, L, n)
    PROVE  SameWalks(n, m)
<1> SUFFICES ASSUME NEW v \in Virt PROVE At4(n, v) = At4(m, v)
  BY DEF SameWalks
<1>0. v[1] \in Index /\ v[2] \in Index /\ v[3] \in Index /\ v[4] \in Index
  BY DEF Virt
<1> DEFINE Same(e, f) == f.frame = e.frame /\ ("P" \in f.attrib <=> "P" \in e.attrib)
           Fresh(e, f) == e = Zero /\ n[f.frame] = Zeroed
           Gone(e, f) == e = Zero /\ f = Zero
<1>1. \A i \in Index : Step(n, Zero, i) = Zero /\ Step(m, Zero, i) = Zero /\ Zeroed[i] = Zero
  BY DEF Step, Zero, Zeroed
<1>2. Same(At1(m, v), At1(n, v)) \/ Fresh(At1(m, v), At1(n, v))
  BY <1>0, TreeType DEF Grown, At1
<1>3. Same(At2(m, v), At2(n, v)) \/ Fresh(At2(m, v), At2(n, v))
  <2>1. CASE Fresh(At1(m, v), At1(n, v))
    BY <1>0, <1>1, <2>1 DEF At2, Step, Zero
  <2>2. CASE Same(At1(m, v), At1(n, v)) /\ At1(m, v) = Zero
    BY <1>1, <2>2 DEF At2, Step, Zero
  <2>3. CASE Same(At1(m, v), At1(n, v)) /\ At1(m, v).frame \in L[2]
             /\ "P" \in At1(m, v).attrib
    BY <1>0, <2>3 DEF At2, Step, Grown
  <2> QED  BY <1>2, <2>1, <2>2, <2>3, WalkType
<1>4. Same(At3(m, v), At3(n, v)) \/ Fresh(At3(m, v), At3(n, v))
  <2>1. CASE Fresh(At2(m, v), At2(n, v))
    BY <1>0, <1>1, <2>1 DEF At3, Step, Zero
  <2>2. CASE Same(At2(m, v), At2(n, v)) /\ At2(m, v) = Zero
    BY <1>1, <2>2 DEF At3, Step, Zero
  <2>3. CASE Same(At2(m, v), At2(n, v)) /\ At2(m, v).frame \in L[3]
             /\ "P" \in At2(m, v).attrib
    BY <1>0, <2>3 DEF At3, Step, Grown
  <2> QED  BY <1>3, <2>1, <2>2, <2>3, WalkType
<1>5. CASE Fresh(At3(m, v), At3(n, v))
  BY <1>0, <1>1, <1>5 DEF At4, Step, Zero
<1>6. CASE Same(At3(m, v), At3(n, v)) /\ At3(m, v) = Zero
  BY <1>1, <1>6 DEF At4, Step, Zero
<1>7. CASE Same(At3(m, v), At3(n, v)) /\ At3(m, v).frame \in L[4]
           /\ "P" \in At3(m, v).attrib
  BY <1>0, <1>7 DEF At4, Step, Grown
<1> QED  BY <1>4, <1>5, <1>6, <1>7, WalkType

(* Adding attributes to an entry that leads to a table *)
LEMMA MarkEntry ==
    ASSUME NEW m, NEW L, Tree(m, L), NEW k \in 1 .. 3, NEW t \in L[k], NEW i \in Index,
           m[t][i] # Zero, NEW a \in SUBSET {"P", "W"}, Allowed(m, L, t, a)
    PROVE  LET n == [m EXCEPT ![t][i].attrib = @ \cup a]
           IN  Tree(n, L) /\ SameWalks(n, m)
<1> DEFINE n == [m EXCEPT ![t][i].attrib = @ \cup a]
           y == [m[t][i] EXCEPT !.attrib = @ \cup a]
<1>1. t \in RAM /\ m \in [RAM -> [Index -> Entries]] /\ m[t][i] \in Entries
      /\ t \in Tables(L)
  BY TreeType, TableType DEF Tree
<1>2. y \in Entries /\ y.frame = m[t][i].frame /\ y.attrib = m[t][i].attrib \cup a
  BY <1>1 DEF Entries
<1>3. n \in [RAM -> Table] /\ n[t] = [m[t] EXCEPT ![i] = y]
      /\ \A u \in RAM \ {t} : n[u] = m[u]
  BY <1>1, <1>2, TableType
<1>4. \A u \in RAM, j \in Index :
        /\ n[u][j].frame = m[u][j].frame
        /\ u = t /\ j = i => n[u][j].attrib = m[u][j].attrib \cup a
        /\ ~ (u = t /\ j = i) => n[u][j] = m[u][j]
  BY <1>1, <1>2, <1>3
<1>5. \A l \in 1 .. 4 : L[l] \subseteq RAM
  BY TreeType
<1>6. "P" \in m[t][i].attrib /\ m[t][i].frame # Null /\ m[t][i].frame \in L[k + 1]
  BY TreeDown
<1>7. \A l \in 1 .. 3 : FramesIn(n, L[l]) = FramesIn(m, L[l])
  BY <1>4, <1>5 DEF FramesIn
<1>8. Layered(n, L)
  BY <1>7 DEF Tree, Layered
<1>9. ZeroOrPresent(n, L)
  <2> SUFFICES ASSUME NEW l \in 1 .. 3, NEW u \in L[l], NEW j \in Index
               PROVE  n[u][j] = Zero \/ ("P" \in n[u][j].attrib /\ n[u][j].frame # Null)
    BY DEF ZeroOrPresent
  <2>1. u \in RAM
    BY <1>5
  <2>2. CASE u = t /\ j = i
    BY <1>4, <1>6, <2>1, <2>2
  <2>3. CASE ~ (u = t /\ j = i)
    BY <1>4, <2>1, <2>3 DEF Tree, ZeroOrPresent
  <2> QED  BY <2>2, <2>3
<1>10. OneParent(n, L)
  BY <1>4, <1>5 DEF Tree, OneParent
<1>11. WritableAbove(n, L)
  <2> SUFFICES ASSUME NEW l \in 1 .. 3, NEW u \in L[l], NEW j \in Index, NEW h \in Index,
                      n[u][j].frame # Null, "W" \in n[n[u][j].frame][h].attrib
               PROVE  "W" \in n[u][j].attrib
    BY DEF WritableAbove
  <2> DEFINE f == m[u][j].frame
  <2>1. u \in RAM /\ n[u][j].frame = f /\ f # Null /\ f \in RAM
    BY <1>4, <1>5, TreeDown, TreeType
  <2>2. m[u][j].attrib \subseteq n[u][j].attrib
    BY <1>4, <2>1
  <2>3. CASE "W" \in m[f][h].attrib
    BY <2>1, <2>2, <2>3 DEF Tree, WritableAbove
  <2>4. CASE f = t /\ h = i /\ "W" \in a
    BY <2>2, <2>4 DEF Allowed
  <2> QED  BY <1>4, <2>1, <2>3, <2>4
<1>12. Grown(m, L, n)
  <2>1. \A u \in L[4] : n[u] = m[u]
    <3>1. L[k] \cap L[4] = {}
      BY DEF Tree, Layered
    <3> QED  BY <1>3, <1>5, <3>1
  <2>2. ASSUME NEW l \in 1 .. 3, NEW u \in L[l], NEW j \in Index
        PROVE  n[u][j].frame = m[u][j].frame
               /\ ("P" \in n[u][j].attrib <=> "P" \in m[u][j].attrib)
    <3>1. u \in RAM
      BY <1>5
    <3> QED  BY <1>4, <1>6, <3>1
  <2> QED  BY <2>1, <2>2 DEF Grown
<1>13. Tree(n, L)
  BY <1>3, <1>8, <1>9, <1>10, <1>11 DEF Tree
<1>14. SameWalks(n, m)
  BY <1>12, GrownWalks
<1> QED  BY <1>13, <1>14

(* Making a zero entry lead to an empty frame that is no table yet *)
LEMMA LinkTable ==
    ASSUME NEW m, NEW L, Tree(m, L), NEW k \in 1 .. 3, NEW t \in L[k], NEW i \in Index,
           m[t][i] = Zero, NEW new \in RAM \ Tables(L), m[new] = Zeroed,
           NEW a \in SUBSET {"P", "W"}, "P" \in a, Allowed(m, L, t, a)
    PROVE  LET n == [m EXCEPT ![t][i] = Entry(new, a)]
               K == [L EXCEPT ![k + 1] = @ \cup {new}]
           IN  Tree(n, K) /\ SameWalks(n, m)
<1> DEFINE x == Entry(new, a)
           n == [m EXCEPT ![t][i] = x]
           K == [L EXCEPT ![k + 1] = @ \cup {new}]
<1>1. t \in RAM /\ t \in Tables(L) /\ m \in [RAM -> [Index -> Entries]]
      /\ \A l \in 1 .. 4 : L[l] \subseteq RAM /\ new \notin L[l]
  BY TreeType, TableType DEF Tree
<1>2. x \in Entries /\ x.frame = new /\ x.attrib = a /\ new # Null /\ new \in RAM /\ new # t
  BY <1>1, RAMType DEF Entries, Entry
<1>3. n \in [RAM -> Table] /\ n[t] = [m[t] EXCEPT ![i] = x]
      /\ \A u \in RAM \ {t} : n[u] = m[u]
  BY <1>1, <1>2, TableType
<1>4. /\ n[t][i] = x
      /\ \A u \in RAM, j \in Index : ~ (u = t /\ j = i) => n[u][j] = m[u][j]
      /\ \A j \in Index : n[new][j] = Zero
  BY <1>1, <1>2, <1>3 DEF Zeroed
<1>5. Zero.frame = Null /\ Zero.attrib = {}
  BY DEF Zero
<1>6. L \in [1 .. 4 -> SUBSET RAM] /\ L[1] = {Root} /\ k + 1 \in 2 .. 4
      /\ \A l \in 1 .. 3 : L[l + 1] = FramesIn(m, L[l])
      /\ \A h, j \in 1 .. 4 : h # j => L[h] \cap L[j] = {}
  BY DEF Tree, Layered
<1>7. K \in [1 .. 4 -> SUBSET RAM] /\ K[k + 1] = L[k + 1] \cup {new}
      /\ \A l \in 1 .. 4 : l # k + 1 => K[l] = L[l]
  BY <1>2, <1>6
<1>8. \A l \in 1 .. 3 : l # k => t \notin L[l]
  BY <1>6
<1>9. Layered(n, K)
  <2>1. K[1] = {Root}
    BY <1>6, <1>7
  <2>2. \A j, l \in 1 .. 4 : j # l => K[j] \cap K[l] = {}
    BY <1>1, <1>6, <1>7
  <2>3. ASSUME NEW l \in 1 .. 3 PROVE K[l + 1] = FramesIn(n, K[l])
    <3>1. CASE l = k
      <4>1. K[l] = L[l] /\ L[l + 1] = FramesIn(m, L[l]) /\ K[l + 1] = L[l + 1] \cup {new}
        BY <1>6, <1>7, <3>1
      <4>2. FramesIn(n, L[l]) \subseteq FramesIn(m, L[l]) \cup {new}
        BY <1>1, <1>2, <1>4 DEF FramesIn
      <4>3. new \in FramesIn(n, L[l])
        BY <1>2, <1>4, <3>1 DEF FramesIn
      <4>4. FramesIn(m, L[l]) \subseteq FramesIn(n, L[l])
        BY <1>1, <1>4, <1>5 DEF FramesIn
      <4> QED  BY <4>1, <4>2, <4>3, <4>4
    <3>2. CASE l = k + 1
      <4>1. K[l] = L[l] \cup {new} /\ L[l + 1] = FramesIn(m, L[l]) /\ K[l + 1] = L[l + 1]
        BY <1>6, <1>7, <3>2
      <4>2. l # k /\ t \notin L[l]
        BY <1>8, <3>2
      <4>3. FramesIn(n, L[l] \cup {new}) \subseteq FramesIn(m, L[l])
        BY <1>1, <1>4, <1>5, <4>2 DEF FramesIn
      <4>4. FramesIn(m, L[l]) \subseteq FramesIn(n, L[l] \cup {new})
        BY <1>1, <1>4, <4>2 DEF FramesIn
      <4>5. FramesIn(n, L[l] \cup {new}) = FramesIn(m, L[l])
        BY <4>3, <4>4
      <4> HIDE DEF n
      <4> QED  BY <4>1, <4>5
    <3>3. CASE l # k /\ l # k + 1
      <4>1. K[l] = L[l] /\ L[l + 1] = FramesIn(m, L[l]) /\ K[l + 1] = L[l + 1]
            /\ t \notin L[l]
        BY <1>6, <1>7, <1>8, <3>3
      <4>2. FramesIn(n, L[l]) = FramesIn(m, L[l])
        BY <1>1, <1>3, <4>1 DEF FramesIn
      <4> QED  BY <4>1, <4>2
    <3> QED  BY <3>1, <3>2, <3>3
  <2> QED  BY <1>7, <2>1, <2>2, <2>3 DEF Layered
<1>10. \A l \in 1 .. 3 : \A u \in K[l] : u \in RAM /\ (u = new \/ u \in L[l])
  BY <1>1, <1>2, <1>7
<1>11. \A l \in 1 .. 3 : \A u \in L[l], j \in Index :
          /\ m[u][j].frame # Null => m[u][j].frame \in RAM \ {new}
          /\ m[u][j].frame # Null => m[u][j].frame # Root
  <2> SUFFICES ASSUME NEW l \in 1 .. 3, NEW u \in L[l], NEW j \in Index,
                      m[u][j].frame # Null
               PROVE  m[u][j].frame \in RAM \ {new} /\ m[u][j].frame # Root
    OBVIOUS
  <2>1. m[u][j].frame \in L[l + 1] /\ l + 1 \in 1 .. 4 /\ l + 1 # 1
    BY TreeDown
  <2> QED  BY <1>1, <1>6, <2>1
<1>12. ZeroOrPresent(n, K)
  <2> SUFFICES ASSUME NEW l \in 1 .. 3, NEW u \in K[l], NEW j \in Index
               PROVE  n[u][j] = Zero \/ ("P" \in n[u][j].attrib /\ n[u][j].frame # Null)
    BY DEF ZeroOrPresent
  <2>1. CASE u = new
    BY <1>4, <2>1
  <2>2. CASE u = t /\ j = i
    BY <1>2, <1>4, <2>2
  <2>3. CASE u \in L[l] /\ ~ (u = t /\ j = i)
    BY <1>4, <1>10, <2>3 DEF Tree, ZeroOrPresent
  <2> QED  BY <1>10, <2>1, <2>2, <2>3
<1>13. OneParent(n, K)
  <2> SUFFICES ASSUME NEW l \in 1 .. 3, NEW h \in 1 .. 3, NEW u \in K[l], NEW w \in K[h],
                      NEW j \in Index, NEW g \in Index,
                      n[u][j].frame = n[w][g].frame, n[u][j].frame # Null
               PROVE  u = w /\ j = g
    BY DEF OneParent
  <2>1. u # new /\ w # new /\ u \in L[l] /\ w \in L[h] /\ u \in RAM /\ w \in RAM
    BY <1>4, <1>5, <1>10
  <2>2. CASE (u = t /\ j = i) \/ (w = t /\ g = i)
    BY <1>2, <1>4, <1>11, <2>1, <2>2
  <2>3. CASE ~ (u = t /\ j = i) /\ ~ (w = t /\ g = i)
    BY <1>4, <2>1, <2>3 DEF Tree, OneParent
  <2> QED  BY <2>2, <2>3
<1>14. WritableAbove(n, K)
  <2> SUFFICES ASSUME NEW l \in 1 .. 3, NEW u \in K[l], NEW j \in Index, NEW h \in Index,
                      n[u][j].frame # Null, "W" \in n[n[u][j].frame][h].attrib
               PROVE  "W" \in n[u][j].attrib
    BY DEF WritableAbove
  <2>1. u # new /\ u \in L[l] /\ u \in RAM
    BY <1>4, <1>5, <1>10
  <2>2. CASE u = t /\ j = i
    BY <1>2, <1>4, <1>5, <2>2
  <2>3. CASE ~ (u = t /\ j = i)
    <3> DEFINE f == m[u][j].frame
    <3>1. n[u][j] = m[u][j] /\ f # Null /\ f \in RAM
      BY <1>4, <1>11, <2>1, <2>3
    <3>2. CASE f = t /\ h = i
      BY <1>2, <1>4, <2>1, <3>1, <3>2 DEF Allowed
    <3>3. CASE ~ (f = t /\ h = i)
      BY <1>4, <2>1, <3>1, <3>3 DEF Tree, WritableAbove
    <3> QED  BY <3>2, <3>3
  <2> QED  BY <2>2, <2>3
<1>15. Grown(m, L, n)
  <2>1. \A u \in L[4] : n[u] = m[u]
    BY <1>1, <1>3, <1>6
  <2>2. n[new] = Zeroed
    BY <1>2, <1>3
  <2>3. ASSUME NEW l \in 1 .. 3, NEW u \in L[l], NEW j \in Index
        PROVE  \/ n[u][j] = m[u][j]
               \/ m[u][j] = Zero /\ n[n[u][j].frame] = Zeroed
    BY <1>1, <1>2, <1>4, <2>2
  <2> QED  BY <2>1, <2>3 DEF Grown
<1>16. Tree(n, K)
  BY <1>3, <1>9, <1>12, <1>13, <1>14 DEF Tree
<1>17. SameWalks(n, m)
  BY <1>15, GrownWalks
<1> QED  BY <1>16, <1>17

------------------------------------------------------------------------------
(* One level of the walk of vm_map_page_flags, and the walk *)

(* The tables n with the free frames g are what a map may leave of m and f: *)
(* a frame went from the free ones to the tables or stayed, and no page     *)
(* changed                                                                  *)
Extended(m, f, L, n, g, K) ==
    /\ Tree(n, K)
    /\ SameWalks(n, m)
    /\ g \subseteq f
    /\ g \cap Tables(K) = {}
    /\ g \cup Tables(K) = f \cup Tables(L)
    /\ \A k \in 1 .. 4 : L[k] \subseteq K[k]

LEMMA ExtendedTransitive ==
    ASSUME NEW m, NEW f, NEW L, NEW n, NEW g, NEW K, NEW o, NEW h, NEW M,
           Extended(m, f, L, n, g, K), Extended(n, g, K, o, h, M)
    PROVE  Extended(m, f, L, o, h, M)
BY DEF Extended, SameWalks

(* The walk w has reached a table that the entry i of the table t leads to *)
Reached(w, K, k, t, i, a) ==
    /\ w.table \in K[k + 1]
    /\ w.table = w.mem[t][i].frame
    /\ "P" \in w.mem[t][i].attrib
    /\ a \subseteq w.mem[t][i].attrib

LEMMA InheritedType ==
    ASSUME NEW flags
    PROVE  Inherited(flags) \in SUBSET {"P", "W"} /\ "P" \in Inherited(flags)
BY DEF Inherited

(* A table that the entry i of t leads to may give what that entry has *)
LEMMA ReachedAllowed ==
    ASSUME NEW w, NEW K, Tree(w.mem, K), NEW k \in 1 .. 3, NEW t \in K[k], NEW i \in Index,
           NEW a, Reached(w, K, k, t, i, a)
    PROVE  Allowed(w.mem, K, w.table, a)
<1> SUFFICES ASSUME NEW l \in 1 .. 3, NEW u \in K[l], NEW j \in Index,
                    w.mem[u][j].frame = w.table, "W" \in a
             PROVE  "W" \in w.mem[u][j].attrib
  BY DEF Allowed
<1>1. w.table # Null
  BY TreeDown, TreeType, RAMType DEF Reached, Zero
<1>2. u = t /\ j = i
  BY <1>1 DEF Reached, Tree, OneParent
<1> QED  BY <1>2 DEF Reached

LEMMA EnsureNull ==
    ASSUME NEW w, w.table = Null, w = [mem |-> w.mem, free |-> w.free, table |-> w.table],
           NEW i, NEW flags
    PROVE  ensure(w, i, flags) = w
BY DEF ensure

LEMMA EnsureStep ==
    ASSUME NEW w, w = [mem |-> w.mem, free |-> w.free, table |-> w.table],
           NEW L, Tree(w.mem, L), w.free \subseteq Pool, w.free \cap Tables(L) = {},
           NEW k \in 1 .. 3, w.table \in L[k], NEW i \in Index, NEW flags,
           Allowed(w.mem, L, w.table, Inherited(flags))
    PROVE  LET r == ensure(w, i, flags) IN
           /\ r = [mem |-> r.mem, free |-> r.free, table |-> r.table]
           /\ \E K : /\ Extended(w.mem, w.free, L, r.mem, r.free, K)
                     /\ \A u \in Tables(L) \ {w.table} : r.mem[u] = w.mem[u]
                     /\ \/ r.table = Null
                        \/ Reached(r, K, k, w.table, i, Inherited(flags))
<1> DEFINE m == w.mem
           f == w.free
           t == w.table
           a == Inherited(flags)
           e == m[t][i]
           new == Lowest(f)
           r == ensure(w, i, flags)
<1>1. /\ t \in RAM /\ t # Null /\ t \in Tables(L) /\ m \in [RAM -> [Index -> Entries]]
      /\ e \in Entries
      /\ a \in SUBSET {"P", "W"} /\ "P" \in a
  BY TreeType, TableType, RAMType, InheritedType DEF Tree
<1>2. Extended(m, f, L, m, f, L)
  BY DEF Extended, SameWalks
<1>3. CASE e = Zero /\ new = Null
  <2>1. r = [w EXCEPT !.table = Null]
    BY <1>3 DEF ensure
  <2>2. r.mem = m /\ r.free = f /\ r.table = Null
        /\ r = [mem |-> r.mem, free |-> r.free, table |-> r.table]
    BY <2>1
  <2> QED  BY <1>2, <2>2
<1>4. CASE e = Zero /\ new # Null
  <2> DEFINE o == NewTable(m, new)
             n == [o EXCEPT ![t][i] = Entry(new, a)]
             K == [L EXCEPT ![k + 1] = @ \cup {new}]
  <2>1. r = [mem |-> n, free |-> f \ {new}, table |-> new]
    BY <1>1, <1>4 DEF ensure
  <2>2. new \in f /\ new \in RAM \ Tables(L) /\ new \in Pool
    BY <1>4, LowestFrame, RAMType
  <2>3. Tree(o, L) /\ SameWalks(o, m)
    BY <2>2, FillOutside, ZeroType DEF NewTable
  <2>4. o[new] = Zeroed /\ \A u \in RAM \ {new} : o[u] = m[u]
    BY <1>1, <2>2 DEF NewTable
  <2>5. o[t][i] = Zero
    BY <1>1, <1>4, <2>2, <2>4
  <2>6. Allowed(o, L, t, a)
    BY <2>2, <2>4, TreeType DEF Allowed
  <2>7. Tree(n, K) /\ SameWalks(n, o)
    <3> HIDE DEF o, a
    <3> QED  BY <1>1, <2>2, <2>3, <2>4, <2>5, <2>6, LinkTable
  <2>8. Tables(K) = Tables(L) \cup {new} /\ K[k + 1] = L[k + 1] \cup {new}
        /\ \A l \in 1 .. 4 : L[l] \subseteq K[l]
    <3>1. L \in [1 .. 4 -> SUBSET RAM] /\ k + 1 \in 1 .. 4
      BY DEF Tree, Layered
    <3>2. K[k + 1] = L[k + 1] \cup {new} /\ \A l \in 1 .. 4 : l # k + 1 => K[l] = L[l]
      BY <3>1
    <3>3. Tables(K) = Tables(L) \cup {new}
      <4>1. k = 1 \/ k = 2 \/ k = 3
        OBVIOUS
      <4> HIDE DEF K
      <4> QED  BY <4>1, <3>1, <3>2 DEF Tables
    <3> QED  BY <3>2, <3>3
  <2>9. SameWalks(n, m)
    BY <2>3, <2>7 DEF SameWalks
  <2>10. Extended(m, f, L, n, f \ {new}, K)
    <3> HIDE DEF n, K
    <3> QED  BY <2>2, <2>7, <2>8, <2>9 DEF Extended
  <2>11. n[t][i] = Entry(new, a) /\ \A u \in Tables(L) \ {t} : n[u] = m[u]
    <3>1. o \in [RAM -> [Index -> Entries]]
      BY <2>3, TableType DEF Tree
    <3>2. n[t][i] = Entry(new, a) /\ \A u \in RAM \ {t} : n[u] = o[u]
      BY <1>1, <3>1
    <3> QED  BY <2>2, <2>4, <3>2, TreeType
  <2>12. Reached(r, K, k, t, i, a)
    BY <1>1, <2>1, <2>8, <2>11 DEF Reached, Entry
  <2>13. r.mem = n /\ r.free = f \ {new}
         /\ r = [mem |-> r.mem, free |-> r.free, table |-> r.table]
    BY <2>1
  <2> HIDE DEF n, K, r, m, f, t, a
  <2>14. \E M : /\ Extended(m, f, L, r.mem, r.free, M)
                /\ \A u \in Tables(L) \ {t} : r.mem[u] = m[u]
                /\ Reached(r, M, k, t, i, a)
    BY <2>10, <2>11, <2>12, <2>13
  <2> QED  BY <2>13, <2>14 DEF r, m, f, t, a
<1>5. CASE e # Zero
  <2> DEFINE n == [m EXCEPT ![t][i].attrib = @ \cup a]
  <2>1. r = [w EXCEPT !.mem[t][i].attrib = @ \cup a, !.table = e.frame]
    BY <1>1, <1>5 DEF ensure
  <2>2. r.mem = n /\ r.free = f /\ r.table = e.frame
        /\ r = [mem |-> r.mem, free |-> r.free, table |-> r.table]
    BY <2>1
  <2>3. Tree(n, L) /\ SameWalks(n, m)
    <3>1. Tree(m, L) /\ t \in L[k] /\ Allowed(m, L, t, a) /\ m[t][i] # Zero
      BY <1>5
    <3> HIDE DEF m, t, a
    <3> QED  BY <1>1, <3>1, MarkEntry
  <2>4. Extended(m, f, L, n, f, L)
    <3> HIDE DEF n
    <3> QED  BY <2>3 DEF Extended
  <2>5. n[t][i].frame = e.frame /\ n[t][i].attrib = e.attrib \cup a
        /\ \A u \in RAM \ {t} : n[u] = m[u]
    BY <1>1 DEF Entries
  <2>6. e.frame \in L[k + 1]
    BY <1>5, TreeDown
  <2>7. Reached(r, L, k, t, i, a)
    BY <1>1, <2>2, <2>5, <2>6 DEF Reached
  <2>8. \A u \in Tables(L) \ {t} : n[u] = m[u]
    BY <2>5, TreeType
  <2> HIDE DEF n, r, m, f, t, a
  <2>9. \E M : /\ Extended(m, f, L, r.mem, r.free, M)
               /\ \A u \in Tables(L) \ {t} : r.mem[u] = m[u]
               /\ Reached(r, M, k, t, i, a)
    BY <2>2, <2>4, <2>7, <2>8
  <2> QED  BY <2>2, <2>9 DEF r, m, f, t, a
<1> QED  BY <1>3, <1>4, <1>5

(* The three levels above the page table of a page: either the walk ends    *)
(* for want of a frame, or in the page table, which may have the flags      *)
LEMMA MapWalk ==
    ASSUME NEW m, NEW f, NEW L, Tree(m, L), f \subseteq Pool, f \cap Tables(L) = {},
           NEW v \in Virt, NEW flags
    PROVE  LET w == ensure(ensure(ensure([mem |-> m, free |-> f, table |-> Root],
                             v[1], flags), v[2], flags), v[3], flags)
           IN  \E K : /\ Extended(m, f, L, w.mem, w.free, K)
                      /\ \/ w.table = Null
                         \/ /\ w.table \in K[4]
                            /\ w.table = At3(w.mem, v).frame
                            /\ "P" \in At3(w.mem, v).attrib
                            /\ Allowed(w.mem, K, w.table, Inherited(flags))
<1> DEFINE a == Inherited(flags)
           w0 == [mem |-> m, free |-> f, table |-> Root]
           w1 == ensure(w0, v[1], flags)
           w2 == ensure(w1, v[2], flags)
           w3 == ensure(w2, v[3], flags)
           Goal == \E K : /\ Extended(m, f, L, w3.mem, w3.free, K)
                          /\ \/ w3.table = Null
                             \/ /\ w3.table \in K[4]
                                /\ w3.table = At3(w3.mem, v).frame
                                /\ "P" \in At3(w3.mem, v).attrib
                                /\ Allowed(w3.mem, K, w3.table, a)
<1> SUFFICES Goal
  OBVIOUS
<1>0. v[1] \in Index /\ v[2] \in Index /\ v[3] \in Index /\ v[4] \in Index
  BY DEF Virt
<1>1. /\ w1 = [mem |-> w1.mem, free |-> w1.free, table |-> w1.table]
      /\ \E K : /\ Extended(m, f, L, w1.mem, w1.free, K)
                /\ w1.table = Null \/ Reached(w1, K, 1, Root, v[1], a)
  <2>1. w0.mem = m /\ w0.free = f /\ w0.table = Root
        /\ w0 = [mem |-> w0.mem, free |-> w0.free, table |-> w0.table]
    OBVIOUS
  <2>2. Root \in L[1] /\ 1 \in 1 .. 3
    BY TreeType
  <2>3. Allowed(m, L, Root, a)
    <3> SUFFICES ASSUME NEW l \in 1 .. 3, NEW u \in L[l], NEW j \in Index,
                        m[u][j].frame = Root
                 PROVE  FALSE
      BY DEF Allowed
    <3>1. m[u][j].frame \in L[l + 1] /\ l + 1 \in 1 .. 4 /\ l + 1 # 1
      BY TreeDown, RAMType, TreeType
    <3> QED  BY <2>2, <3>1 DEF Tree, Layered
  <2> HIDE DEF w0, a
  <2>4. /\ w1 = [mem |-> w1.mem, free |-> w1.free, table |-> w1.table]
        /\ \E K : /\ Extended(w0.mem, w0.free, L, w1.mem, w1.free, K)
                  /\ \A u \in Tables(L) \ {w0.table} : w1.mem[u] = w0.mem[u]
                  /\ \/ w1.table = Null
                     \/ Reached(w1, K, 1, w0.table, v[1], Inherited(flags))
    BY <1>0, <2>1, <2>2, <2>3, EnsureStep DEF a
  <2> QED  BY <2>1, <2>4 DEF a
<1>2. PICK K1 : /\ Extended(m, f, L, w1.mem, w1.free, K1)
                /\ w1.table = Null \/ Reached(w1, K1, 1, Root, v[1], a)
  BY <1>1
<1> HIDE DEF w1
<1>3. CASE w1.table = Null
  <2>1. w2 = w1
    BY <1>1, <1>3, EnsureNull
  <2>2. w3 = w1
    BY <1>1, <1>3, <2>1, EnsureNull
  <2> HIDE DEF w3
  <2> QED  BY <1>2, <1>3, <2>2
<1>4. CASE w1.table # Null
  <2> DEFINE t1 == w1.table
  <2>1. /\ Tree(w1.mem, K1) /\ w1.free \subseteq Pool /\ w1.free \cap Tables(K1) = {}
        /\ Reached(w1, K1, 1, Root, v[1], a)
    BY <1>2, <1>4 DEF Extended
  <2>2. Root \in K1[1] /\ t1 \in K1[2] /\ Root # t1 /\ Root \in Tables(K1)
    BY <2>1, TreeType DEF Reached, Tree, Layered
  <2>3. Allowed(w1.mem, K1, t1, a)
    BY <1>0, <2>1, <2>2, ReachedAllowed
  <2>4. /\ w2 = [mem |-> w2.mem, free |-> w2.free, table |-> w2.table]
        /\ \E K : /\ Extended(w1.mem, w1.free, K1, w2.mem, w2.free, K)
                  /\ \A u \in Tables(K1) \ {t1} : w2.mem[u] = w1.mem[u]
                  /\ w2.table = Null \/ Reached(w2, K, 2, t1, v[2], a)
    <3>1. 2 \in 1 .. 3
      OBVIOUS
    <3> QED  BY <1>0, <1>1, <2>1, <2>2, <2>3, <3>1, EnsureStep
  <2>5. PICK K2 : /\ Extended(w1.mem, w1.free, K1, w2.mem, w2.free, K2)
                  /\ \A u \in Tables(K1) \ {t1} : w2.mem[u] = w1.mem[u]
                  /\ w2.table = Null \/ Reached(w2, K2, 2, t1, v[2], a)
    BY <2>4
  <2>6. Extended(m, f, L, w2.mem, w2.free, K2)
    BY <1>2, <2>5, ExtendedTransitive
  <2> HIDE DEF w2
  <2>7. CASE w2.table = Null
    <3>1. w3 = w2
      BY <2>4, <2>7, EnsureNull
    <3> HIDE DEF w3
    <3> QED  BY <2>6, <2>7, <3>1
  <2>8. CASE w2.table # Null
    <3> DEFINE t2 == w2.table
    <3>1. /\ Tree(w2.mem, K2) /\ w2.free \subseteq Pool /\ w2.free \cap Tables(K2) = {}
          /\ Reached(w2, K2, 2, t1, v[2], a)
      BY <2>1, <2>5, <2>8 DEF Extended
    <3>2. /\ Root \in K2[1] /\ t1 \in K2[2] /\ t2 \in K2[3] /\ t1 # t2 /\ Root # t2
          /\ Root \in Tables(K2) /\ t1 \in Tables(K2)
      BY <2>2, <2>5, <3>1, TreeType DEF Extended, Reached, Tree, Layered
    <3>3. Allowed(w2.mem, K2, t2, a)
      BY <1>0, <3>1, <3>2, ReachedAllowed
    <3>4. /\ w3 = [mem |-> w3.mem, free |-> w3.free, table |-> w3.table]
          /\ \E K : /\ Extended(w2.mem, w2.free, K2, w3.mem, w3.free, K)
                    /\ \A u \in Tables(K2) \ {t2} : w3.mem[u] = w2.mem[u]
                    /\ w3.table = Null \/ Reached(w3, K, 3, t2, v[3], a)
      <4>1. 3 \in 1 .. 3
        OBVIOUS
      <4> QED  BY <1>0, <2>4, <3>1, <3>2, <3>3, <4>1, EnsureStep
    <3>5. PICK K3 : /\ Extended(w2.mem, w2.free, K2, w3.mem, w3.free, K3)
                    /\ \A u \in Tables(K2) \ {t2} : w3.mem[u] = w2.mem[u]
                    /\ w3.table = Null \/ Reached(w3, K3, 3, t2, v[3], a)
      BY <3>4
    <3>6. Extended(m, f, L, w3.mem, w3.free, K3)
      BY <2>6, <3>5, ExtendedTransitive
    <3> HIDE DEF w3
    <3>7. CASE w3.table = Null
      BY <3>6, <3>7
    <3>8. CASE w3.table # Null
      <4>1. Tree(w3.mem, K3) /\ Reached(w3, K3, 3, t2, v[3], a)
        BY <3>5, <3>8 DEF Extended
      <4>2. w3.mem[Root] = w1.mem[Root] /\ w3.mem[t1] = w2.mem[t1]
        BY <2>2, <2>5, <3>2, <3>5
      <4>3. At1(w3.mem, v).frame = t1 /\ "P" \in At1(w3.mem, v).attrib
        BY <2>1, <4>2 DEF At1, Reached
      <4>4. At2(w3.mem, v).frame = t2 /\ "P" \in At2(w3.mem, v).attrib
        BY <3>1, <4>2, <4>3 DEF At2, Step, Reached
      <4>5. At3(w3.mem, v).frame = w3.table /\ "P" \in At3(w3.mem, v).attrib
        BY <4>1, <4>4 DEF At3, Step, Reached
      <4>6. w3.table \in K3[4]
        BY <4>1 DEF Reached
      <4>7. t2 \in K3[3] /\ 3 \in 1 .. 3
        BY <3>2, <3>5 DEF Extended
      <4>8. Allowed(w3.mem, K3, w3.table, a)
        BY <1>0, <4>1, <4>7, ReachedAllowed
      <4> QED  BY <3>6, <4>5, <4>6, <4>8
    <3> QED  BY <3>7, <3>8
  <2> QED  BY <2>7, <2>8
<1> QED  BY <1>3, <1>4

------------------------------------------------------------------------------
(* One page's entry *)

(* The pages of a page table differ in their last index *)
LEMMA SamePath ==
    ASSUME NEW m, NEW L, Tree(m, L), NEW u \in Virt, NEW v \in Virt,
           At3(m, u) # Zero, At3(m, u).frame = At3(m, v).frame, u[4] = v[4]
    PROVE  u = v
<1>0. /\ v[1] \in Index /\ v[2] \in Index /\ v[3] \in Index
      /\ u[1] \in Index /\ u[2] \in Index /\ u[3] \in Index
      /\ u = <<u[1], u[2], u[3], u[4]>> /\ v = <<v[1], v[2], v[3], v[4]>>
  BY DEF Virt
<1>1. Null \notin L[2] /\ Null \notin L[3] /\ Null \notin L[4]
  <2>1. \A k \in 1 .. 4 : L[k] \subseteq RAM
    BY TreeType
  <2>2. 2 \in 1 .. 4 /\ 3 \in 1 .. 4 /\ 4 \in 1 .. 4
    OBVIOUS
  <2> QED  BY <2>1, <2>2, RAMType
<1>2. At3(m, u).frame # Null /\ At3(m, v) # Zero
  BY <1>1, WalkType DEF Zero
<1>3. At2(m, u) # Zero /\ At2(m, v) # Zero
  BY <1>2 DEF At3, Step, Zero
<1>4. At1(m, u) # Zero /\ At1(m, v) # Zero
  BY <1>3 DEF At2, Step, Zero
<1>5. /\ At3(m, u) = m[At2(m, u).frame][u[3]] /\ At3(m, v) = m[At2(m, v).frame][v[3]]
      /\ At2(m, u) = m[At1(m, u).frame][u[2]] /\ At2(m, v) = m[At1(m, v).frame][v[2]]
      /\ At1(m, u).frame \in L[2] /\ At1(m, v).frame \in L[2]
      /\ At2(m, u).frame \in L[3] /\ At2(m, v).frame \in L[3]
  BY <1>2, <1>3, <1>4, WalkType DEF At3, At2, Step
<1>6. At2(m, u).frame = At2(m, v).frame /\ u[3] = v[3]
  <2>1. 3 \in 1 .. 3
    OBVIOUS
  <2> QED  BY <1>0, <1>2, <1>5, <2>1 DEF Tree, OneParent
<1>7. At1(m, u).frame = At1(m, v).frame /\ u[2] = v[2]
  <2>1. 2 \in 1 .. 3
    OBVIOUS
  <2> QED  BY <1>0, <1>1, <1>5, <1>6, <2>1 DEF Tree, OneParent
<1>8. u[1] = v[1]
  <2>1. 1 \in 1 .. 3 /\ Root \in L[1]
    BY TreeType
  <2>2. \A i, j \in Index :
          m[Root][i].frame = m[Root][j].frame /\ m[Root][i].frame # Null => i = j
    BY <2>1 DEF Tree, OneParent
  <2>3. m[Root][u[1]].frame = m[Root][v[1]].frame /\ m[Root][u[1]].frame # Null
    BY <1>1, <1>5, <1>7 DEF At1
  <2> QED  BY <1>0, <2>2, <2>3
<1> QED  BY <1>0, <1>6, <1>7, <1>8

(* Writing the entry of a page changes no other page *)
Written(m, v, x) == [m EXCEPT ![At3(m, v).frame][v[4]] = x]

LEMMA LeafWalks ==
    ASSUME NEW m, NEW L, Tree(m, L), NEW v \in Virt, "P" \in At3(m, v).attrib,
           NEW x \in Entries, Allowed(m, L, At3(m, v).frame, x.attrib)
    PROVE  /\ Tree(Written(m, v, x), L)
           /\ At4(Written(m, v, x), v) = x
           /\ \A u \in Virt : u # v => At4(Written(m, v, x), u) = At4(m, u)
<1> DEFINE t == At3(m, v).frame
           n == Written(m, v, x)
<1>0. v[4] \in Index
  BY DEF Virt
<1>1. At3(m, v) # Zero /\ t \in L[4] /\ t \in RAM
  BY WalkType, TreeType DEF Zero
<1>2. Tree(n, L)
  BY <1>0, <1>1, WriteLeaf DEF Written
<1>3. \A s \in RAM, j \in Index :
        n[s][j] = IF s = t /\ j = v[4] THEN x ELSE m[s][j]
  <2>1. m \in [RAM -> [Index -> Entries]]
    BY TableType DEF Tree
  <2> QED  BY <1>1, <2>1 DEF Written
<1>4. \A k \in 1 .. 3 : \A s \in L[k], j \in Index : n[s][j] = m[s][j]
  <2>1. \A k \in 1 .. 3 : L[k] \cap L[4] = {} /\ L[k] \subseteq RAM
    BY TreeType DEF Tree, Layered
  <2> QED  BY <1>1, <1>3, <2>1
<1>5. ASSUME NEW u \in Virt PROVE At3(n, u) = At3(m, u)
  <2>0. u[1] \in Index /\ u[2] \in Index /\ u[3] \in Index
    BY DEF Virt
  <2>1. At1(n, u) = At1(m, u)
    BY <1>4, <2>0, TreeType DEF At1
  <2>2. At2(n, u) = At2(m, u)
    <3>1. \A s \in L[2], j \in Index : n[s][j] = m[s][j]
      BY <1>4
    <3> HIDE DEF n
    <3> QED  BY <2>0, <2>1, <3>1, WalkType DEF At2, Step, Zero
  <2>3. \A s \in L[3], j \in Index : n[s][j] = m[s][j]
    BY <1>4
  <2> HIDE DEF n
  <2> QED  BY <2>0, <2>2, <2>3, WalkType DEF At3, Step, Zero
<1> HIDE DEF t, n
<1>6. At4(n, v) = x
  BY <1>0, <1>1, <1>3, <1>5 DEF At4, Step, t
<1>7. ASSUME NEW u \in Virt, u # v PROVE At4(n, u) = At4(m, u)
  <2>0. u[4] \in Index /\ At3(n, u) = At3(m, u)
    BY <1>5 DEF Virt
  <2>1. CASE At3(m, u) = Zero
    BY <2>0, <2>1 DEF At4, Step, Zero
  <2>2. CASE At3(m, u) # Zero
    <3>1. At3(m, u).frame \in RAM
      BY <2>2, WalkType, TreeType
    <3>2. ~ (At3(m, u).frame = t /\ u[4] = v[4])
      BY <1>7, <2>2, SamePath DEF t
    <3> QED  BY <1>3, <2>0, <3>1, <3>2 DEF At4, Step
  <2> QED  BY <2>1, <2>2
<1> QED  BY <1>2, <1>6, <1>7 DEF n

(* What the CPU makes of the entry of a page *)
Mapped(e) ==
    IF "P" \in e.attrib THEN Entry(e.frame, e.attrib \ {"P"}) ELSE NoMapping

(* The code's walk is that of the tables from the boot code's root *)
LEMMA RootWalk ==
    ASSUME current_PML4 = Root, NEW v
    PROVE  /\ PML4Eof(v) = At1(mem, v) /\ PDPTEof(v) = At2(mem, v)
           /\ PDEof(v) = At3(mem, v) /\ PTEof(v) = At4(mem, v)
           /\ PageTable(v) = At3(mem, v).frame
           /\ HasPTE(v) <=> "P" \in At3(mem, v).attrib
BY DEF PML4Eof, PDPTEof, PDEof, PTEof, At1, At2, At3, At4, Follow, Step, PageTable, HasPTE

(* A page has the attributes of its own entry: those above allow them *)
LEMMA TranslationIsEntry ==
    ASSUME NEW L, Tree(mem, L), current_PML4 = Root, NEW v \in Virt
    PROVE  Translation(v) = Mapped(At4(mem, v))
<1>0. v[1] \in Index /\ v[2] \in Index /\ v[3] \in Index /\ v[4] \in Index
  BY DEF Virt
<1>1. Null \notin L[2] /\ Null \notin L[3] /\ Null \notin L[4]
  <2>1. \A k \in 1 .. 4 : L[k] \subseteq RAM
    BY TreeType
  <2>2. 2 \in 1 .. 4 /\ 3 \in 1 .. 4 /\ 4 \in 1 .. 4
    OBVIOUS
  <2> QED  BY <2>1, <2>2, RAMType
<1>2. CASE "P" \notin At4(mem, v).attrib
  BY <1>2, RootWalk DEF Translation, Mapped
<1>3. CASE "P" \in At4(mem, v).attrib
  <2>1. At3(mem, v) # Zero
    BY <1>3 DEF At4, Step, Zero
  <2>2. At2(mem, v) # Zero
    BY <2>1 DEF At3, Step, Zero
  <2>3. At1(mem, v) # Zero
    BY <2>2 DEF At2, Step, Zero
  <2>4. /\ At4(mem, v) = mem[At3(mem, v).frame][v[4]] /\ At3(mem, v).frame \in L[4]
        /\ At3(mem, v) = mem[At2(mem, v).frame][v[3]] /\ At2(mem, v).frame \in L[3]
        /\ At2(mem, v) = mem[At1(mem, v).frame][v[2]] /\ At1(mem, v).frame \in L[2]
        /\ At1(mem, v) = mem[Root][v[1]] /\ Root \in L[1]
    BY <2>1, <2>2, <2>3, WalkType, TreeType DEF At4, At3, At2, At1, Step
  <2>5. "W" \in At4(mem, v).attrib => "W" \in At3(mem, v).attrib
    <3>1. 3 \in 1 .. 3
      OBVIOUS
    <3>2. \A t \in L[3], i, j \in Index :
            mem[t][i].frame # Null /\ "W" \in mem[mem[t][i].frame][j].attrib
              => "W" \in mem[t][i].attrib
      BY <3>1 DEF Tree, WritableAbove
    <3>3. mem[At2(mem, v).frame][v[3]].frame # Null
          /\ "W" \in mem[mem[At2(mem, v).frame][v[3]].frame][v[4]].attrib
            => "W" \in mem[At2(mem, v).frame][v[3]].attrib
      BY <1>0, <2>4, <3>2
    <3>4. At3(mem, v).frame # Null
      BY <1>1, <2>4
    <3> QED  BY <2>4, <3>3, <3>4
  <2>6. "W" \in At3(mem, v).attrib => "W" \in At2(mem, v).attrib
    <3>1. 2 \in 1 .. 3
      OBVIOUS
    <3>2. \A t \in L[2], i, j \in Index :
            mem[t][i].frame # Null /\ "W" \in mem[mem[t][i].frame][j].attrib
              => "W" \in mem[t][i].attrib
      BY <3>1 DEF Tree, WritableAbove
    <3>3. mem[At1(mem, v).frame][v[2]].frame # Null
          /\ "W" \in mem[mem[At1(mem, v).frame][v[2]].frame][v[3]].attrib
            => "W" \in mem[At1(mem, v).frame][v[2]].attrib
      BY <1>0, <2>4, <3>2
    <3>4. At2(mem, v).frame # Null
      BY <1>1, <2>4
    <3> QED  BY <2>4, <3>3, <3>4
  <2>7. "W" \in At2(mem, v).attrib => "W" \in At1(mem, v).attrib
    <3>1. 1 \in 1 .. 3
      OBVIOUS
    <3>2. \A t \in L[1], i, j \in Index :
            mem[t][i].frame # Null /\ "W" \in mem[mem[t][i].frame][j].attrib
              => "W" \in mem[t][i].attrib
      BY <3>1 DEF Tree, WritableAbove
    <3>3. mem[Root][v[1]].frame # Null
          /\ "W" \in mem[mem[Root][v[1]].frame][v[2]].attrib
            => "W" \in mem[Root][v[1]].attrib
      BY <1>0, <2>4, <3>2
    <3>4. At1(mem, v).frame # Null
      BY <1>1, <2>4
    <3> QED  BY <2>4, <3>3, <3>4
  <2>8. Writable(v) <=> "W" \in At4(mem, v).attrib
    BY <2>5, <2>6, <2>7, RootWalk DEF Writable
  <2>9. At4(mem, v).attrib \in SUBSET {"P", "W"}
    BY WalkType DEF Entries
  <2>10. At4(mem, v).attrib \ {"P"} = IF Writable(v) THEN {"W"} ELSE {}
    BY <2>8, <2>9
  <2> QED  BY <1>3, <2>10, RootWalk DEF Translation, Mapped
<1> QED  BY <1>2, <1>3

------------------------------------------------------------------------------
(* The boot code's tables *)

BootLevels == <<{BootTables[1]}, {BootTables[2]}, {BootTables[3]}, {BootTables[4]}>>

LEMMA BootTableType ==
    ASSUME NEW f \in Nat \ {Null}
    PROVE  /\ BootTable(f) \in Table
           /\ BootTable(f)[0] = Entry(f, {"P", "W"})
           /\ \A i \in Index : i # 0 => BootTable(f)[i] = Zero
BY IndexAssumption, ZeroType, TableType DEF BootTable, Entry, Entries, Zeroed

LEMMA InitMemory ==
    ASSUME Init
    PROVE  /\ mem \in [RAM -> Table]
           /\ mem[BootTables[1]] = BootTable(BootTables[2])
           /\ mem[BootTables[2]] = BootTable(BootTables[3])
           /\ mem[BootTables[3]] = BootTable(BootTables[4])
           /\ \A i \in Index : "P" \in mem[BootTables[4]][i].attrib
<1> DEFINE B(k) == BootTables[k]
           Last == [i \in Index |-> Entry(IdentityMap[i], {"P", "W"})]
           Rest == [i \in Index |-> Dirt]
<1>1. B(1) # B(2) /\ B(1) # B(3) /\ B(1) # B(4) /\ B(2) # B(3) /\ B(2) # B(4) /\ B(3) # B(4)
  BY BootAssumption
<1>2. /\ B(1) \in RAM /\ B(2) \in RAM /\ B(3) \in RAM /\ B(4) \in RAM
      /\ B(2) \in Nat \ {Null} /\ B(3) \in Nat \ {Null} /\ B(4) \in Nat \ {Null}
  <2>1. 1 \in 1 .. 4 /\ 2 \in 1 .. 4 /\ 3 \in 1 .. 4 /\ 4 \in 1 .. 4
    OBVIOUS
  <2>2. RAM \subseteq Nat \ {Null} /\ \A k \in 1 .. 4 : BootTables[k] \in RAM
    BY RAMType
  <2> QED  BY <2>1, <2>2
<1>3. Last \in Table /\ Rest \in Table
  BY BootAssumption, PoolAssumption, TableType DEF Entry, Entries
<1> DEFINE F(t) == CASE t = B(1) -> BootTable(B(2))
                     [] t = B(2) -> BootTable(B(3))
                     [] t = B(3) -> BootTable(B(4))
                     [] t = B(4) -> Last
                     [] OTHER -> Rest
<1>4. mem = [t \in RAM |-> F(t)]
  BY DEF Init, RAM
<1>5. F(B(1)) = BootTable(B(2)) /\ F(B(2)) = BootTable(B(3))
      /\ F(B(3)) = BootTable(B(4)) /\ F(B(4)) = Last
  <2> HIDE DEF Last, Rest, B
  <2> QED  BY <1>1
<1>6. BootTable(B(2)) \in Table /\ BootTable(B(3)) \in Table /\ BootTable(B(4)) \in Table
  BY <1>2, BootTableType
<1>7. \A t \in RAM : F(t) \in Table
  <2> HIDE DEF Last, Rest, B
  <2> QED  BY <1>3, <1>6
<1>8. \A i \in Index : "P" \in Last[i].attrib
  BY DEF Entry
<1> HIDE DEF F, Last, Rest
<1> QED  BY <1>2, <1>4, <1>5, <1>7, <1>8

LEMMA InitTree ==
    ASSUME Init
    PROVE  /\ Tree(mem, BootLevels)
           /\ \A v \in Pages : At4(mem, v) = Zero
<1> DEFINE L == BootLevels
           B(k) == BootTables[k]
<1>1. /\ \A k \in 1 .. 4 : L[k] = {BootTables[k]}
      /\ L \in [1 .. 4 -> SUBSET RAM]
  BY RAMType DEF BootLevels
<1>2. /\ \A k \in 1 .. 4 : BootTables[k] # Null
      /\ \A j, k \in 1 .. 4 : BootTables[j] = BootTables[k] => j = k
  BY BootAssumption
<1> HIDE DEF L
<1>3. ASSUME NEW k \in 1 .. 3
      PROVE  /\ mem[BootTables[k]][0].frame = BootTables[k + 1]
             /\ mem[BootTables[k]][0].attrib = {"P", "W"}
             /\ \A i \in Index : i # 0 => mem[BootTables[k]][i] = Zero
  <2>1. k = 1 \/ k = 2 \/ k = 3
    OBVIOUS
  <2>2. ASSUME NEW f \in Nat \ {Null}
        PROVE  /\ BootTable(f)[0].frame = f /\ BootTable(f)[0].attrib = {"P", "W"}
               /\ \A i \in Index : i # 0 => BootTable(f)[i] = Zero
    <3>1. BootTable(f)[0] = Entry(f, {"P", "W"})
          /\ \A i \in Index : i # 0 => BootTable(f)[i] = Zero
      BY BootTableType
    <3> QED  BY <3>1 DEF Entry
  <2>3. B(2) \in Nat \ {Null} /\ B(3) \in Nat \ {Null} /\ B(4) \in Nat \ {Null}
    BY BootAssumption
  <2> QED  BY <2>1, <2>2, <2>3, InitMemory
<1>4. Zero.frame = Null /\ Zero.attrib = {}
  BY DEF Zero
<1>5. Layered(mem, L)
  <2>1. ASSUME NEW k \in 1 .. 3 PROVE L[k + 1] = FramesIn(mem, L[k])
    <3>1. k + 1 \in 1 .. 4 /\ L[k + 1] = {BootTables[k + 1]} /\ L[k] = {BootTables[k]}
          /\ BootTables[k + 1] # Null
      BY <1>1, <1>2
    <3> QED  BY <1>3, <1>4, <3>1, IndexAssumption DEF FramesIn
  <2>2. L[1] = {Root}
    BY <1>1 DEF Root
  <2>3. \A j, k \in 1 .. 4 : j # k => L[j] \cap L[k] = {}
    BY <1>1, <1>2
  <2> QED  BY <1>1, <2>1, <2>2, <2>3 DEF Layered
<1>6. \A k \in 1 .. 3 : \A t \in L[k] : t = BootTables[k]
  BY <1>1
<1>7. ZeroOrPresent(mem, L)
  <2> SUFFICES ASSUME NEW k \in 1 .. 3, NEW i \in Index
               PROVE  LET e == mem[BootTables[k]][i]
                      IN  e = Zero \/ ("P" \in e.attrib /\ e.frame # Null)
    BY <1>6 DEF ZeroOrPresent
  <2>1. k + 1 \in 1 .. 4 /\ BootTables[k + 1] # Null
    BY <1>2
  <2> QED  BY <1>3, <2>1
<1>8. OneParent(mem, L)
  <2> SUFFICES ASSUME NEW k \in 1 .. 3, NEW l \in 1 .. 3, NEW i \in Index, NEW j \in Index,
                      mem[BootTables[k]][i].frame = mem[BootTables[l]][j].frame,
                      mem[BootTables[k]][i].frame # Null
               PROVE  BootTables[k] = BootTables[l] /\ i = j
    BY <1>6 DEF OneParent
  <2>1. i = 0 /\ j = 0
    BY <1>3, <1>4
  <2>2. BootTables[k + 1] = BootTables[l + 1] /\ k + 1 \in 1 .. 4 /\ l + 1 \in 1 .. 4
    BY <1>3, <2>1
  <2> QED  BY <1>2, <2>1, <2>2
<1>9. WritableAbove(mem, L)
  <2> SUFFICES ASSUME NEW k \in 1 .. 3, NEW i \in Index,
                      mem[BootTables[k]][i].frame # Null
               PROVE  "W" \in mem[BootTables[k]][i].attrib
    BY <1>6 DEF WritableAbove
  <2> QED  BY <1>3, <1>4
<1>10. Tree(mem, L)
  BY <1>5, <1>7, <1>8, <1>9, InitMemory DEF Tree
<1>11. ASSUME NEW v \in Pages PROVE At4(mem, v) = Zero
  <2>1. /\ v[1] \in Index /\ v[2] \in Index /\ v[3] \in Index
        /\ <<v[1], v[2], v[3]>> # <<0, 0, 0>>
    BY PagesAssumption
  <2>2. 1 \in 1 .. 3 /\ 2 \in 1 .. 3 /\ 3 \in 1 .. 3
    OBVIOUS
  <2>3. \A i : Step(mem, Zero, i) = Zero
    BY DEF Step, Zero
  <2>4. CASE v[1] # 0
    <3>1. At1(mem, v) = Zero
      BY <1>3, <2>1, <2>2, <2>4 DEF At1, Root
    <3> QED  BY <2>3, <3>1 DEF At2, At3, At4
  <2>5. CASE v[1] = 0 /\ v[2] # 0
    <3>1. At1(mem, v).frame = BootTables[2]
      BY <1>3, <2>2, <2>5 DEF At1, Root
    <3>2. At2(mem, v) = Zero
      BY <1>3, <2>1, <2>2, <2>5, <3>1 DEF At2, Step
    <3> QED  BY <2>3, <3>2 DEF At3, At4
  <2>6. CASE v[1] = 0 /\ v[2] = 0 /\ v[3] # 0
    <3>1. At1(mem, v).frame = BootTables[2] /\ "P" \in At1(mem, v).attrib
      BY <1>3, <2>2, <2>6 DEF At1, Root
    <3>2. At2(mem, v).frame = BootTables[3]
      BY <1>3, <2>2, <2>6, <3>1 DEF At2, Step
    <3>3. At3(mem, v) = Zero
      BY <1>3, <2>1, <2>2, <2>6, <3>2 DEF At3, Step
    <3> QED  BY <2>3, <3>3 DEF At4
  <2> QED  BY <2>1, <2>4, <2>5, <2>6
<1> QED  BY <1>10, <1>11 DEF L

------------------------------------------------------------------------------
(* The actions *)

LEMMA PagesAreVirt == Pages \subseteq Virt /\ KernelPage \in Virt /\ StackPage \in Virt
BY PagesAssumption DEF Virt

(* What a page has may be kept or taken away *)
LEMMA OwnAllowed ==
    ASSUME NEW m, NEW L, Tree(m, L), NEW v \in Virt, "P" \in At3(m, v).attrib,
           NEW a, a \subseteq At4(m, v).attrib \cup {"P"}
    PROVE  Allowed(m, L, At3(m, v).frame, a)
<1> SUFFICES ASSUME NEW k \in 1 .. 3, NEW u \in L[k], NEW j \in Index,
                    m[u][j].frame = At3(m, v).frame, "W" \in a
             PROVE  "W" \in m[u][j].attrib
  BY DEF Allowed
<1>1. At3(m, v).frame \in L[4]
  BY WalkType DEF Zero
<1>2. At3(m, v).frame # Null
  <2>1. L[4] \subseteq RAM
    BY TreeType
  <2> QED  BY <1>1, <2>1, RAMType
<1>3. "W" \in m[m[u][j].frame][v[4]].attrib /\ v[4] \in Index
  BY DEF At4, Step, Virt
<1> QED  BY <1>2, <1>3 DEF Tree, WritableAbove

(* The variables that no other part of the invariant is about               *)
Noted == interruptsOn \in BOOLEAN /\ asked \in [Pages -> Entries]

LEMMA TypeNoted == TypeOK => Noted
BY DEF TypeOK, Noted, Entries

LEMMA NotedKept ==
    ASSUME IInv, UNCHANGED <<interruptsOn, asked>> PROVE Noted'
BY TypeNoted DEF IInv, Noted

(* A step of the system that keeps the tree and the accounts keeps the      *)
(* invariant                                                                *)
LEMMA BootedNext ==
    ASSUME NEW K, Tree(mem, K)', Accounted(mem, free, Tables(K))',
           current_PML4' = Root,
           owned' \subseteq Pages, DOMAIN tlb' \subseteq Pages \cup {StackPage},
           unflushed' \subseteq Pages, Noted'
    PROVE  IInv' /\ Booted'
<1>1. K = Levels(mem')
  BY LevelsUnique DEF Tree
<1>2. Booted'
  BY <1>1 DEF Booted
<1>3. mem' \in [RAM -> Table] /\ Tree(mem, Levels(mem))'
  BY <1>1 DEF Tree
<1>4. DOMAIN mem' = RAM /\ \A t \in RAM : mem'[t] \in Table
  BY <1>3
<1>5. TypeOK'
  BY <1>4, RAMType DEF TypeOK, Accounted, RAM, Noted, Entries
<1> QED  BY <1>2, <1>3, <1>5 DEF IInv

(* A map that made tables on its way keeps the accounts *)
LEMMA ExtendedAccounted ==
    ASSUME NEW m, NEW f, NEW L, NEW n, NEW g, NEW K, Extended(m, f, L, n, g, K),
           owned \subseteq Pages, Accounted(m, f, Tables(L))
    PROVE  Accounted(n, g, Tables(K))
<1>1. /\ \A v \in Pages : At4(n, v) = At4(m, v)
      /\ g \subseteq f /\ g \cap Tables(K) = {} /\ g \cup Tables(K) = f \cup Tables(L)
  BY PagesAreVirt DEF Extended, SameWalks
<1>2. {At4(n, v).frame : v \in owned} = {At4(m, v).frame : v \in owned}
  BY <1>1
<1>3. /\ g \subseteq Pool /\ others \subseteq Pool
      /\ g \cap others = {} /\ (g \cup others) \cap Tables(K) = {}
      /\ Pool \ (g \cup others \cup Tables(K)) = Pool \ (f \cup others \cup Tables(L))
  BY <1>1 DEF Accounted
<1>4. \A v \in owned : /\ "P" \in At4(n, v).attrib
                       /\ At4(n, v).frame \in Pool \ (g \cup others \cup Tables(K))
  BY <1>1, <1>3 DEF Accounted
<1>5. \A u, v \in owned : At4(n, u).frame = At4(n, v).frame => u = v
  BY <1>1 DEF Accounted
<1>6. Pool \subseteq g \cup others \cup Tables(K) \cup {At4(n, v).frame : v \in owned}
  BY <1>2, <1>3 DEF Accounted
<1>7. \A v \in Pages \ owned : "P" \in At4(n, v).attrib => At4(n, v).frame \notin Pool
  BY <1>1 DEF Accounted
<1> QED  BY <1>3, <1>4, <1>5, <1>6, <1>7 DEF Accounted

(* Mapping a frame of no client's over a page that owns none keeps them too *)
LEMMA WrittenAccounted ==
    ASSUME NEW m, NEW n, NEW f, NEW T, Accounted(m, f, T), owned \subseteq Pages,
           NEW v \in Pages \ owned, At4(n, v).frame \notin Pool,
           \A u \in Virt : u # v => At4(n, u) = At4(m, u)
    PROVE  Accounted(n, f, T)
<1>1. \A u \in owned : At4(n, u) = At4(m, u)
  BY PagesAreVirt
<1>2. {At4(n, u).frame : u \in owned} = {At4(m, u).frame : u \in owned}
  BY <1>1
<1>3. \A u \in Pages \ owned : "P" \in At4(n, u).attrib => At4(n, u).frame \notin Pool
  BY PagesAreVirt DEF Accounted
<1> QED  BY <1>1, <1>2, <1>3 DEF Accounted

(* What vm_map_page_flags does to the entry of every page *)
MapsOnly(v, p, flags) ==
    /\ \A u \in Virt : u # v => At4(mem', u) = At4(mem, u)
    /\ \/ At4(mem', v) = At4(mem, v) /\ asked' = asked
       \/ /\ At4(mem', v) = Entry(p, At4(mem, v).attrib \cup flags)
          /\ asked' = [asked EXCEPT ![v] = Entry(p, flags \ {"P"})]

LEMMA MapStep ==
    ASSUME IInv, Booted, NEW v \in Pages \ owned, NEW p \in Devices,
           NEW flags \in SUBSET {"P", "W"}, vm_map_page_flags(p, v, flags)
    PROVE  IInv' /\ Booted' /\ MapsOnly(v, p, flags)
<1> DEFINE L == Levels(mem)
           w == ensure(ensure(ensure([mem |-> mem, free |-> free, table |-> Root],
                  v[1], flags), v[2], flags), v[3], flags)
           x == Entry(p, At4(w.mem, v).attrib \cup flags)
           n == Written(w.mem, v, x)
<1>0. /\ v \in Virt /\ owned \subseteq Pages /\ current_PML4 = Root
      /\ Tree(mem, L) /\ Accounted(mem, free, Tables(L))
      /\ free \subseteq Pool /\ free \cap Tables(L) = {}
  BY PagesAreVirt DEF IInv, Booted, TypeOK, Accounted
<1>1. /\ mem' = IF w.table = Null THEN w.mem
                ELSE [w.mem EXCEPT ![w.table][v[4]] = Entry(p, @.attrib \cup flags)]
      /\ free' = w.free
      /\ unflushed' = unflushed \cup (DOMAIN tlb \cap {v})
      /\ others' = others /\ current_PML4' = Root /\ owned' = owned /\ tlb' = tlb
      /\ asked' = IF w.table = Null THEN asked
                  ELSE [asked EXCEPT ![v] = Entry(p, flags \ {"P"})]
      /\ interruptsOn' = interruptsOn
  BY <1>0 DEF vm_map_page_flags
<1>2. PICK K : /\ Extended(mem, free, L, w.mem, w.free, K)
               /\ \/ w.table = Null
                  \/ /\ w.table \in K[4]
                     /\ w.table = At3(w.mem, v).frame
                     /\ "P" \in At3(w.mem, v).attrib
                     /\ Allowed(w.mem, K, w.table, Inherited(flags))
  <2> HIDE DEF L
  <2> QED  BY <1>0, MapWalk
<1> HIDE DEF w, L
<1>3. Tree(w.mem, K) /\ \A u \in Virt : At4(w.mem, u) = At4(mem, u)
  BY <1>2 DEF Extended, SameWalks
<1>4. Accounted(w.mem, w.free, Tables(K))
  BY <1>0, <1>2, ExtendedAccounted
<1>5. /\ owned' \subseteq Pages /\ DOMAIN tlb' \subseteq Pages \cup {StackPage}
      /\ unflushed' \subseteq Pages
  BY <1>1 DEF IInv, TypeOK
<1>8. Noted'
  <2>1. Entry(p, flags \ {"P"}) \in Entries
    BY PoolAssumption DEF Entry, Entries
  <2>2. interruptsOn \in BOOLEAN /\ asked \in [Pages -> Entries]
    BY TypeNoted DEF IInv, Noted
  <2>3. asked' = asked \/ asked' = [asked EXCEPT ![v] = Entry(p, flags \ {"P"})]
    BY <1>1
  <2>4. asked' \in [Pages -> Entries]
    BY <2>1, <2>2, <2>3
  <2> QED  BY <1>1, <2>2, <2>4 DEF Noted
<1>6. CASE w.table = Null
  <2>1. mem' = w.mem
    BY <1>1, <1>6
  <2>2. Tree(mem, K)' /\ Accounted(mem, free, Tables(K))'
    BY <1>1, <1>3, <1>4, <2>1 DEF Accounted
  <2>3. MapsOnly(v, p, flags)
    BY <1>0, <1>1, <1>3, <1>6, <2>1 DEF MapsOnly
  <2> QED  BY <1>1, <1>5, <1>8, <2>2, <2>3, BootedNext
<1>7. CASE w.table # Null
  <2>1. /\ w.table = At3(w.mem, v).frame /\ "P" \in At3(w.mem, v).attrib
        /\ Allowed(w.mem, K, w.table, Inherited(flags))
    BY <1>2, <1>7
  <2>2. w.mem[w.table][v[4]] = At4(w.mem, v)
    BY <2>1 DEF At4, Step
  <2>3. mem' = n
    <3>1. [w.mem EXCEPT ![w.table][v[4]] = Entry(p, @.attrib \cup flags)]
            = [w.mem EXCEPT ![w.table][v[4]] =
                 Entry(p, w.mem[w.table][v[4]].attrib \cup flags)]
      OBVIOUS
    <3> QED  BY <1>1, <1>7, <2>1, <2>2, <3>1 DEF Written
  <2>4. x \in Entries /\ x.frame = p /\ p \notin Pool
    <3>1. p \in Nat /\ p \notin Pool
      BY PoolAssumption
    <3>2. At4(w.mem, v).attrib \in SUBSET {"P", "W"}
      BY <1>0, <1>3, WalkType DEF Entries
    <3> QED  BY <3>1, <3>2 DEF Entry, Entries
  <2>5. Allowed(w.mem, K, At3(w.mem, v).frame, x.attrib)
    <3>1. Allowed(w.mem, K, At3(w.mem, v).frame, At4(w.mem, v).attrib)
      BY <1>0, <1>3, <2>1, OwnAllowed
    <3>2. "W" \in x.attrib => "W" \in At4(w.mem, v).attrib \/ "W" \in Inherited(flags)
      BY DEF Entry, Inherited
    <3> HIDE DEF x
    <3> QED  BY <2>1, <3>1, <3>2 DEF Allowed
  <2>6. /\ Tree(n, K) /\ At4(n, v) = x
        /\ \A u \in Virt : u # v => At4(n, u) = At4(w.mem, u)
    <3> HIDE DEF x
    <3> QED  BY <1>0, <1>3, <2>1, <2>4, <2>5, LeafWalks
  <2>7. Accounted(n, w.free, Tables(K))
    <3> HIDE DEF n, x
    <3> QED  BY <1>0, <1>4, <2>4, <2>6, WrittenAccounted
  <2>8. Tree(mem, K)' /\ Accounted(mem, free, Tables(K))'
    <3> HIDE DEF n
    <3> QED  BY <1>1, <2>3, <2>6, <2>7 DEF Accounted
  <2>9. MapsOnly(v, p, flags)
    <3> HIDE DEF n
    <3>1. x = Entry(p, At4(mem, v).attrib \cup flags)
      BY <1>0, <1>3
    <3> HIDE DEF x
    <3> QED  BY <1>0, <1>1, <1>3, <1>7, <2>3, <2>6, <3>1 DEF MapsOnly
  <2> QED  BY <1>1, <1>5, <1>8, <2>8, <2>9, BootedNext
<1> QED  BY <1>6, <1>7

(* vm_alloc_page writes the entry of the page and of no other *)
LEMMA AllocStep ==
    ASSUME IInv, Booted, NEW v \in Pages \ owned, HasPTE(v), vm_alloc_page(v)
    PROVE  /\ IInv' /\ Booted'
           /\ Lowest(free) \in Pool
           /\ At4(mem', v) = Entry(Lowest(free), At4(mem, v).attrib \cup {"P"})
           /\ \A u \in Virt : u # v => At4(mem', u) = At4(mem, u)
<1>l. PICK L : L = Levels(mem)
  OBVIOUS
<1> DEFINE T == Tables(L)
           p == Lowest(free)
           x == Entry(p, At4(mem, v).attrib \cup {"P"})
           n == Written(mem, v, x)
<1>0. /\ v \in Virt /\ owned \subseteq Pages /\ current_PML4 = Root
      /\ Tree(mem, L) /\ Accounted(mem, free, T)
      /\ free \subseteq Pool /\ "P" \in At3(mem, v).attrib
      /\ PageTable(v) = At3(mem, v).frame
  BY <1>l, PagesAreVirt, RootWalk DEF IInv, Booted, TypeOK
<1>1. p \in free /\ p \in Pool /\ free \cap T = {} /\ free \cap others = {}
  BY <1>0, LowestFrame DEF vm_alloc_page, Accounted
<1>2. /\ mem' = [mem EXCEPT ![PageTable(v)][v[4]] = Entry(p, @.attrib \cup {"P"})]
      /\ free' = free \ {p}
      /\ owned' = owned \cup {v}
      /\ unflushed' = unflushed \cup (DOMAIN tlb \cap {v})
      /\ others' = others /\ current_PML4' = current_PML4 /\ tlb' = tlb
      /\ UNCHANGED <<interruptsOn, asked>>
  BY DEF vm_alloc_page
<1>3. mem' = n
  <2>1. mem[PageTable(v)][v[4]] = At4(mem, v)
    BY <1>0 DEF At4, Step
  <2>2. mem' = [mem EXCEPT ![PageTable(v)][v[4]] =
                  Entry(p, mem[PageTable(v)][v[4]].attrib \cup {"P"})]
    BY <1>2
  <2> QED  BY <1>0, <2>1, <2>2 DEF Written
<1>4. x \in Entries /\ x.frame = p /\ "P" \in x.attrib
  <2>1. p \in Nat
    BY <1>1, PoolAssumption
  <2>2. At4(mem, v).attrib \in SUBSET {"P", "W"}
    BY <1>0, WalkType DEF Entries
  <2> QED  BY <2>1, <2>2 DEF Entry, Entries
<1> HIDE DEF T
<1>5. Allowed(mem, L, At3(mem, v).frame, x.attrib)
  <2>1. x.attrib \subseteq At4(mem, v).attrib \cup {"P"}
    BY DEF Entry
  <2> HIDE DEF x
  <2> QED  BY <1>0, <2>1, OwnAllowed
<1>6. /\ Tree(n, L) /\ At4(n, v) = x
      /\ \A u \in Virt : u # v => At4(n, u) = At4(mem, u)
  <2>1. /\ Tree(mem, L) /\ v \in Virt /\ "P" \in At3(mem, v).attrib
        /\ x \in Entries /\ Allowed(mem, L, At3(mem, v).frame, x.attrib)
    BY <1>0, <1>4, <1>5
  <2> HIDE DEF x
  <2> QED  BY <2>1, LeafWalks
<1> HIDE DEF n, x
<1>7. Accounted(mem, free, Tables(L))'
  <2>1. \A u \in Pages : u # v => At4(mem', u) = At4(mem, u)
    BY <1>3, <1>6, PagesAreVirt
  <2>2. At4(mem', v).frame = p /\ "P" \in At4(mem', v).attrib
    BY <1>3, <1>4, <1>6
  <2>3. \A u \in owned : u # v /\ At4(mem, u).frame # p /\ At4(mem, u).frame \in Pool
                         /\ "P" \in At4(mem, u).attrib
                         /\ At4(mem, u).frame \notin (free \cup others \cup T)
    BY <1>0, <1>1 DEF Accounted
  <2>4. \A u \in owned' : /\ "P" \in At4(mem', u).attrib
                          /\ At4(mem', u).frame \in Pool \ (free' \cup others \cup T)
    BY <1>0, <1>1, <1>2, <2>1, <2>2, <2>3
  <2>5. \A u, w \in owned' : At4(mem', u).frame = At4(mem', w).frame => u = w
    BY <1>0, <1>2, <2>1, <2>2, <2>3 DEF Accounted
  <2>6. Pool \subseteq free' \cup others \cup T \cup {At4(mem', u).frame : u \in owned'}
    <3> SUFFICES ASSUME NEW f \in Pool, f \notin free', f \notin others, f \notin T
                 PROVE  \E u \in owned' : f = At4(mem', u).frame
      OBVIOUS
    <3>1. CASE f = p
      BY <1>2, <2>2, <3>1
    <3>2. CASE f # p
      <4>1. \E u \in owned : f = At4(mem, u).frame
        BY <1>0, <1>2, <3>2 DEF Accounted
      <4> QED  BY <1>0, <1>2, <2>1, <2>3, <4>1
    <3> QED  BY <3>1, <3>2
  <2>7. \A u \in Pages \ owned' : "P" \in At4(mem', u).attrib => At4(mem', u).frame \notin Pool
    BY <1>0, <1>2, <2>1 DEF Accounted
  <2>8. /\ free' \subseteq Pool /\ others' \subseteq Pool /\ free' \cap others' = {}
        /\ (free' \cup others') \cap T = {}
    BY <1>0, <1>2 DEF Accounted
  <2> QED  BY <1>2, <2>4, <2>5, <2>6, <2>7, <2>8 DEF Accounted, T
<1>8. /\ owned' \subseteq Pages /\ DOMAIN tlb' \subseteq Pages \cup {StackPage}
      /\ unflushed' \subseteq Pages
  BY <1>2 DEF IInv, TypeOK
<1>9. IInv' /\ Booted'
  BY <1>0, <1>2, <1>3, <1>6, <1>7, <1>8, BootedNext, NotedKept
<1> QED  BY <1>1, <1>3, <1>6, <1>9 DEF x

(* vm_free_page makes the page absent and no other *)
LEMMA FreeStep ==
    ASSUME IInv, Booted, NEW v \in owned, vm_free_page(v)
    PROVE  /\ IInv' /\ Booted'
           /\ At4(mem', v) = [At4(mem, v) EXCEPT !.attrib = @ \ {"P"}]
           /\ \A u \in Virt : u # v => At4(mem', u) = At4(mem, u)
<1>l. PICK L : L = Levels(mem)
  OBVIOUS
<1> DEFINE T == Tables(L)
           p == At4(mem, v).frame
           x == [At4(mem, v) EXCEPT !.attrib = @ \ {"P"}]
           n == Written(mem, v, x)
<1>0. /\ v \in Virt /\ owned \subseteq Pages /\ current_PML4 = Root
      /\ Tree(mem, L) /\ Accounted(mem, free, T) /\ free \subseteq Pool
      /\ PageTable(v) = At3(mem, v).frame /\ PTEof(v) = At4(mem, v)
  BY <1>l, PagesAreVirt, RootWalk DEF IInv, Booted, TypeOK
<1>1. "P" \in At4(mem, v).attrib /\ p \in Pool /\ p # Null
      /\ p \notin free /\ p \notin others /\ p \notin T
  BY <1>0, PoolAssumption DEF Accounted
<1>2. "P" \in At3(mem, v).attrib /\ mem[PageTable(v)][v[4]] = At4(mem, v)
  BY <1>0, <1>1 DEF At4, Step, Zero
<1>3. /\ mem' = [mem EXCEPT ![PageTable(v)][v[4]].attrib = @ \ {"P"}]
      /\ free' = free \cup {p}
      /\ owned' = owned \ {v}
      /\ unflushed' = unflushed \cup (DOMAIN tlb \cap {v})
      /\ others' = others /\ current_PML4' = current_PML4 /\ tlb' = tlb
      /\ UNCHANGED <<interruptsOn, asked>>
  BY <1>0, <1>1 DEF vm_free_page
<1>4. mem' = n
  <2>1. mem' = [mem EXCEPT ![PageTable(v)][v[4]] =
                  [mem[PageTable(v)][v[4]] EXCEPT !.attrib = @ \ {"P"}]]
    BY <1>3
  <2> QED  BY <1>0, <1>2, <2>1 DEF Written
<1>5. x \in Entries /\ x.attrib = At4(mem, v).attrib \ {"P"}
  BY <1>0, WalkType DEF Entries
<1> HIDE DEF T
<1>6. Allowed(mem, L, At3(mem, v).frame, x.attrib)
  <2>1. x.attrib \subseteq At4(mem, v).attrib \cup {"P"}
    BY <1>5
  <2> HIDE DEF x
  <2> QED  BY <1>0, <1>2, <2>1, OwnAllowed
<1>7. /\ Tree(n, L) /\ At4(n, v) = x
      /\ \A u \in Virt : u # v => At4(n, u) = At4(mem, u)
  <2>1. /\ Tree(mem, L) /\ v \in Virt /\ "P" \in At3(mem, v).attrib
        /\ x \in Entries /\ Allowed(mem, L, At3(mem, v).frame, x.attrib)
    BY <1>0, <1>2, <1>5, <1>6
  <2> HIDE DEF x
  <2> QED  BY <2>1, LeafWalks
<1> HIDE DEF n, x
<1>8. Accounted(mem, free, Tables(L))'
  <2>1. \A u \in Pages : u # v => At4(mem', u) = At4(mem, u)
    BY <1>4, <1>7, PagesAreVirt
  <2>2. "P" \notin At4(mem', v).attrib
    BY <1>4, <1>5, <1>7
  <2>3. \A u \in owned' : u # v /\ u \in Pages /\ u \in owned /\ At4(mem', u) = At4(mem, u)
                          /\ At4(mem, u).frame # p /\ At4(mem, u).frame \in Pool
                          /\ "P" \in At4(mem, u).attrib
                          /\ At4(mem, u).frame \notin (free \cup others \cup T)
    BY <1>0, <1>3, <2>1 DEF Accounted
  <2>4. \A u \in owned' : /\ "P" \in At4(mem', u).attrib
                          /\ At4(mem', u).frame \in Pool \ (free' \cup others \cup T)
    BY <1>3, <2>3
  <2>5. \A u, w \in owned' : At4(mem', u).frame = At4(mem', w).frame => u = w
    BY <1>0, <2>3 DEF Accounted
  <2>6. Pool \subseteq free' \cup others \cup T \cup {At4(mem', u).frame : u \in owned'}
    <3> SUFFICES ASSUME NEW f \in Pool, f \notin free', f \notin others, f \notin T
                 PROVE  \E u \in owned' : f = At4(mem', u).frame
      OBVIOUS
    <3>1. \E u \in owned : f = At4(mem, u).frame
      BY <1>0, <1>3 DEF Accounted
    <3> QED  BY <1>3, <2>3, <3>1
  <2>7. \A u \in Pages \ owned' : "P" \in At4(mem', u).attrib => At4(mem', u).frame \notin Pool
    BY <1>0, <1>3, <2>1, <2>2 DEF Accounted
  <2>8. /\ free' \subseteq Pool /\ others' \subseteq Pool /\ free' \cap others' = {}
        /\ (free' \cup others') \cap T = {}
    BY <1>0, <1>1, <1>3 DEF Accounted
  <2> QED  BY <1>3, <2>4, <2>5, <2>6, <2>7, <2>8 DEF Accounted, T
<1>9. /\ owned' \subseteq Pages /\ DOMAIN tlb' \subseteq Pages \cup {StackPage}
      /\ unflushed' \subseteq Pages
  BY <1>0, <1>3 DEF IInv, TypeOK
<1>10. IInv' /\ Booted'
  BY <1>0, <1>3, <1>4, <1>7, <1>8, <1>9, BootedNext, NotedKept
<1> QED  BY <1>4, <1>7, <1>10 DEF x

(* An empty root maps no page *)
LEMMA EmptyRoot ==
    ASSUME mem[current_PML4] = Zeroed, NEW v \in Virt
    PROVE  PTEof(v) = Zero /\ Translation(v) = NoMapping
<1>1. PML4Eof(v) = Zero
  BY DEF PML4Eof, Zeroed, Virt
<1>2. \A i : Follow(Zero, i) = Zero
  BY DEF Follow, Zero
<1>3. PTEof(v) = Zero
  BY <1>1, <1>2 DEF PTEof, PDEof, PDPTEof
<1> QED  BY <1>3 DEF Translation, Zero

(* Once vm_initialize has loaded its root, nothing runs *)
LEMMA StoppedNext ==
    ASSUME IInv, Stopped PROVE ~ Next
<1>1. ~ Running
  BY EmptyRoot, PagesAreVirt DEF Stopped, Running
<1> QED  BY <1>1 DEF Next, Access, vm_map_page, vm_map_page_flags, vm_alloc_page,
                     vm_free_page, vm_flush_tlb_entry, vm_switch_pml4, vm_initialize,
                     OtherGivesBack

LEMMA InitializeStep ==
    ASSUME IInv, Booted, vm_initialize
    PROVE  IInv' /\ Stopped'
<1>l. PICK L : L = Levels(mem)
  OBVIOUS
<1>p. PICK p : p = Lowest(free)
  OBVIOUS
<1>0. /\ Tree(mem, L) /\ Accounted(mem, free, Tables(L)) /\ free \subseteq Pool
      /\ p # Null
  BY <1>l, <1>p DEF IInv, Booted, TypeOK, vm_initialize
<1>1. p \in Pool /\ p \in RAM /\ p \notin Tables(L)
  BY <1>0, <1>p, LowestFrame, RAMType DEF Accounted
<1>2. /\ mem' = [mem EXCEPT ![p] = Zeroed] /\ current_PML4' = p /\ free' = free \ {p}
      /\ others' = others /\ owned' = owned /\ unflushed' = {} /\ DOMAIN tlb' = {}
      /\ interruptsOn' = interruptsOn /\ asked' = [v \in Pages |-> NoMapping]
  BY <1>p DEF vm_initialize, NewTable, NoCache
<1>3. Tree(mem, L)'
  BY <1>0, <1>1, <1>2, FillOutside, ZeroType
<1>4. L = Levels(mem')
  BY <1>3, LevelsUnique DEF Tree
<1>5. mem'[p] = Zeroed
  BY <1>0, <1>1, <1>2 DEF Tree
<1>6. Stopped'
  BY <1>1, <1>2, <1>4, <1>5 DEF Stopped
<1>7. mem' \in [RAM -> Table]
  BY <1>3 DEF Tree
<1>8. DOMAIN mem' = RAM /\ \A t \in RAM : mem'[t] \in Table
  BY <1>7
<1>9. TypeOK'
  <2>1. NoMapping \in [frame : Nat, attrib : SUBSET {"P", "W"}]
    BY DEF NoMapping, Entry, Null
  <2> QED  BY <1>1, <1>2, <1>8, <2>1 DEF IInv, TypeOK, RAM
<1> QED  BY <1>3, <1>4, <1>6, <1>9 DEF IInv

(* The steps that leave the tables alone *)
LEMMA OtherStep ==
    ASSUME IInv, Booted, OtherGivesBack PROVE IInv' /\ Booted'
<1>l. PICK L : L = Levels(mem)
  OBVIOUS
<1>1. /\ free' = free \cup others /\ others' = {} /\ owned' = owned /\ mem' = mem
      /\ current_PML4' = current_PML4 /\ tlb' = tlb /\ unflushed' = unflushed
      /\ UNCHANGED <<interruptsOn, asked>>
  BY DEF OtherGivesBack
<1>2. Tree(mem, L)'
  BY <1>l, <1>1 DEF IInv
<1>3. Accounted(mem, free, Tables(L))
  BY <1>l DEF Booted
<1>4. Accounted(mem, free, Tables(L))'
  <2>1. free' \cup others' = free \cup others
    BY <1>1
  <2> QED  BY <1>1, <1>3, <2>1 DEF Accounted
<1> QED  BY <1>1, <1>2, <1>4, BootedNext, NotedKept DEF Booted, IInv, TypeOK

LEMMA CacheStep ==
    ASSUME IInv, Booted, UNCHANGED <<mem, free, others, current_PML4, owned, asked>>,
           DOMAIN tlb' \subseteq Pages \cup {StackPage}, unflushed' \subseteq Pages,
           interruptsOn' \in BOOLEAN
    PROVE  IInv' /\ Booted'
<1>l. PICK L : L = Levels(mem)
  OBVIOUS
<1>1. Tree(mem, L)' /\ Accounted(mem, free, Tables(L))'
  BY <1>l DEF IInv, Booted, Accounted
<1>2. Noted'
  BY TypeNoted DEF IInv, Noted
<1> QED  BY <1>1, <1>2, BootedNext DEF Booted, IInv, TypeOK

(* What the system does, by what it does to the entries of the pages *)
LEMMA Steps ==
    ASSUME IInv, Next
    PROVE  /\ Booted
           /\ IInv' /\ (Booted' \/ (vm_initialize /\ Stopped'))
<1>1. Booted
  BY StoppedNext DEF IInv
<1>2. ASSUME NEW v \in Pages \cup {StackPage}, Access(v)
      PROVE  IInv' /\ Booted'
  <2>1. DOMAIN tlb' = DOMAIN tlb \cup {v}
    BY <1>2 DEF Access
  <2> QED  BY <1>1, <1>2, <2>1, CacheStep DEF Access, IInv, TypeOK
<1>3. ASSUME NEW v \in Pages \ owned, NEW p \in Devices,
             NEW flags \in Presets \cup {{"P", "W"}}, vm_map_page_flags(p, v, flags)
      PROVE  IInv' /\ Booted'
  BY <1>1, <1>3, MapStep, PresetsAssumption
<1>4. ASSUME NEW v \in Pages \ owned, HasPTE(v), vm_alloc_page(v)
      PROVE  IInv' /\ Booted'
  BY <1>1, <1>4, AllocStep
<1>5. ASSUME NEW v \in owned, vm_free_page(v)
      PROVE  IInv' /\ Booted'
  BY <1>1, <1>5, FreeStep
<1>6. ASSUME NEW v \in Pages, vm_flush_tlb_entry(v)
      PROVE  IInv' /\ Booted'
  <2>1. DOMAIN tlb' \subseteq DOMAIN tlb /\ unflushed' \subseteq unflushed
    BY <1>6 DEF vm_flush_tlb_entry, Evict
  <2> QED  BY <1>1, <1>6, <2>1, CacheStep DEF vm_flush_tlb_entry, IInv, TypeOK
<1>7. CASE vm_switch_pml4(vm_getPML4)
  <2>1. DOMAIN tlb' = {} /\ unflushed' = {} /\ current_PML4' = current_PML4
    BY <1>7 DEF vm_switch_pml4, vm_getPML4, NoCache
  <2> QED  BY <1>1, <1>7, <2>1, CacheStep DEF vm_switch_pml4, IInv, TypeOK
<1>8. CASE vm_initialize
  BY <1>1, <1>8, InitializeStep
<1>9. CASE OtherGivesBack
  BY <1>1, <1>9, OtherStep
<1> QED  BY <1>1, <1>2, <1>3, <1>4, <1>5, <1>6, <1>7, <1>8, <1>9 DEF Next, vm_map_page

LEMMA InitInvariant ==
    ASSUME Init PROVE IInv /\ Booted
<1>l. PICK L : L = BootLevels
  OBVIOUS
<1>1. Tree(mem, L)
  BY <1>l, InitTree
<1>2. L = Levels(mem)
  BY <1>1, LevelsUnique DEF Tree
<1>3. /\ free = Pool \ others /\ others \subseteq Pool /\ owned = {} /\ DOMAIN tlb = {}
      /\ unflushed = {} /\ current_PML4 = Root
  BY DEF Init, Root, NoCache
<1>4. Tables(L) = {BootTables[k] : k \in 1 .. 4}
  BY <1>l DEF Tables, BootLevels
<1>5. Accounted(mem, free, Tables(L))
  <2>1. Pool \cap Tables(L) = {}
    BY <1>4, PoolAssumption
  <2>2. \A v \in Pages : "P" \notin At4(mem, v).attrib
    BY InitTree DEF Zero
  <2> QED  BY <1>3, <2>1, <2>2 DEF Accounted
<1>6. DOMAIN mem = RAM /\ \A t \in RAM : mem[t] \in Table
  BY InitMemory
<1>7. TypeOK
  <2>1. interruptsOn \in BOOLEAN /\ asked = [v \in Pages |-> NoMapping]
    BY DEF Init
  <2>2. NoMapping \in [frame : Nat, attrib : SUBSET {"P", "W"}]
    BY DEF NoMapping, Entry, Null
  <2> QED  BY <1>3, <1>6, <2>1, <2>2, RAMType DEF TypeOK, RAM
<1> QED  BY <1>1, <1>2, <1>3, <1>5, <1>7 DEF IInv, Booted

(* The invariant is inductive *)
THEOREM Invariance == Spec => []IInv
<1>1. Init => IInv
  BY InitInvariant
<1>2. IInv /\ [Next]_vars => IInv'
  <2> SUFFICES ASSUME IInv, [Next]_vars PROVE IInv'
    OBVIOUS
  <2>1. CASE Next
    BY <2>1, Steps
  <2>2. CASE UNCHANGED vars
    BY <2>2 DEF vars, IInv, Booted, Stopped, TypeOK, Accounted
  <2> QED  BY <2>1, <2>2
<1> QED  BY <1>1, <1>2, PTL DEF Spec

(* TypeOK: every table is one of the frames of the memory, and the clients' *)
(* pages are the only ones that own a frame or await a flush.               *)
THEOREM TypeCorrect == Spec => []TypeOK
<1>1. IInv => TypeOK
  BY DEF IInv
<1> QED  BY <1>1, Invariance, PTL

------------------------------------------------------------------------------
(* The properties *)

(* The sets of tables of the properties are the levels of the tree *)
LEMMA TablesByLevel ==
    ASSUME IInv, NEW L, L = Levels(mem)
    PROVE  /\ PDPTs = L[2] /\ PDs = L[3] /\ PTs = L[4]
           /\ L[1] = {Root}
           /\ Roots \cap (L[2] \cup L[3] \cup L[4]) = {}
           /\ \A t \in Roots : t = Root \/ (t \notin Tables(L) /\ mem[t] = Zeroed)
<1>1. Tree(mem, L) /\ L[1] = {Root}
  BY DEF IInv, Tree, Layered
<1>2. \A t \in Roots : t = Root \/ (t \notin Tables(L) /\ mem[t] = Zeroed)
  BY DEF IInv, Booted, Stopped, Roots, Root
<1>3. PDPTs = FramesIn(mem, {Root})
  <2>1. \A t \in Roots, i \in Index : t = Root \/ mem[t][i].frame = Null
    BY <1>2 DEF Zeroed, Zero
  <2>2. Root \in Roots
    BY DEF Roots, Root
  <2> QED  BY <2>1, <2>2 DEF PDPTs, Below, FramesIn
<1>4. L[2] = FramesIn(mem, {Root}) /\ L[3] = FramesIn(mem, L[2]) /\ L[4] = FramesIn(mem, L[3])
  BY <1>1 DEF Tree, Layered
<1>5. PDPTs = L[2] /\ PDs = L[3] /\ PTs = L[4]
  BY <1>3, <1>4 DEF PDs, PTs, Below, FramesIn
<1>6. Root \notin L[2] \cup L[3] \cup L[4]
  BY <1>1 DEF Tree, Layered
<1> QED  BY <1>1, <1>2, <1>5, <1>6 DEF Tables

LEMMA TreeProperty ==
    ASSUME IInv PROVE TablesFormTree
<1>l. PICK L : L = Levels(mem)
  OBVIOUS
<1>0. Tree(mem, L)
  BY <1>l DEF IInv
<1>1. /\ PDPTs = L[2] /\ PDs = L[3] /\ PTs = L[4] /\ L[1] = {Root}
      /\ Roots \cap (L[2] \cup L[3] \cup L[4]) = {}
      /\ \A t \in Roots : t = Root \/ (t \notin Tables(L) /\ mem[t] = Zeroed)
  BY <1>l, TablesByLevel
<1>2. PTs \cap Inner = {}
  <2>1. L[4] \cap L[2] = {} /\ L[4] \cap L[3] = {}
    BY <1>0 DEF Tree, Layered
  <2> QED  BY <1>1, <2>1 DEF Inner
<1>3. \A u \in Inner : u \in L[1] \/ u \in L[2] \/ u \in L[3]
                       \/ (\A j \in Index : mem[u][j].frame = Null)
  BY <1>1 DEF Inner, Zeroed, Zero
<1>4. ASSUME NEW k \in 1 .. 3, NEW f \in L[k + 1]
      PROVE  Cardinality({c \in Inner \X Index : mem[c[1]][c[2]].frame = f}) = 1
  <2>1. PICK t \in L[k], i \in Index : mem[t][i].frame = f /\ f # Null
    BY <1>0, TreeUp
  <2>2. t \in Inner
    <3>1. Root \in Inner /\ L[2] \subseteq Inner /\ L[3] \subseteq Inner
      BY <1>1 DEF Inner, Roots, Root
    <3>2. k = 1 \/ k = 2 \/ k = 3
      OBVIOUS
    <3> QED  BY <1>1, <3>1, <3>2
  <2>3. ASSUME NEW u \in Inner, NEW j \in Index, mem[u][j].frame = f
        PROVE  u = t /\ j = i
    <3>1. PICK l \in 1 .. 3 : u \in L[l]
      <4>1. 1 \in 1 .. 3 /\ 2 \in 1 .. 3 /\ 3 \in 1 .. 3
        OBVIOUS
      <4> QED  BY <1>3, <2>1, <2>3, <4>1
    <3> QED  BY <1>0, <2>1, <2>3, <3>1 DEF Tree, OneParent
  <2>4. {c \in Inner \X Index : mem[c[1]][c[2]].frame = f} = {<<t, i>>}
    BY <2>1, <2>2, <2>3
  <2> QED  BY <2>4, FS_Singleton
<1>5. \A f \in PDPTs \cup PDs \cup PTs :
        Cardinality({c \in Inner \X Index : mem[c[1]][c[2]].frame = f}) = 1
  <2>1. 1 \in 1 .. 3 /\ 2 \in 1 .. 3 /\ 3 \in 1 .. 3 /\ 1 + 1 = 2 /\ 2 + 1 = 3 /\ 3 + 1 = 4
    OBVIOUS
  <2> QED  BY <1>1, <1>4, <2>1
<1> QED  BY <1>1, <1>2, <1>5 DEF TablesFormTree

LEMMA AccountsProperty ==
    ASSUME IInv PROVE FramesAccounted
<1> DEFINE tables == (Inner \cup PTs) \cap Pool
           users(f) == {v \in owned : mem[PageTable(v)][v[4]].frame = f}
           pools(f) == {F \in {free, others} : f \in F}
<1> SUFFICES ASSUME Running, NEW f \in Pool
             PROVE  Cardinality(users(f)) + (IF f \in tables THEN 1 ELSE 0)
                      + Cardinality(pools(f)) = 1
  BY DEF FramesAccounted
<1>l. PICK L : L = Levels(mem)
  OBVIOUS
<1>p. PICK T : T = Tables(L)
  OBVIOUS
<1>0. Booted
  BY EmptyRoot, PagesAreVirt DEF IInv, Stopped, Running
<1>1. /\ Accounted(mem, free, T) /\ current_PML4 = Root /\ owned \subseteq Pages
      /\ owned \subseteq Virt
  BY <1>l, <1>p, <1>0, PagesAreVirt DEF Booted, IInv, TypeOK
<1>2. f \in tables <=> f \in T
  <2>1. Inner \cup PTs = T
    BY <1>l, <1>p, <1>1, TablesByLevel DEF Inner, Roots, Root, Tables
  <2> QED  BY <2>1
<1>3. \A v \in owned : mem[PageTable(v)][v[4]].frame = At4(mem, v).frame
                       /\ At4(mem, v).frame \notin (free \cup others \cup T)
  <2> SUFFICES ASSUME NEW v \in owned
               PROVE  mem[PageTable(v)][v[4]] = At4(mem, v)
    BY <1>1 DEF Accounted
  <2>1. "P" \in At4(mem, v).attrib
    BY <1>1 DEF Accounted
  <2> QED  BY <1>1, <2>1, RootWalk DEF At4, Step, Zero
<1> HIDE DEF tables
<1>4. CASE f \in free \cup others \cup T
  <2>1. users(f) = {}
    BY <1>3, <1>4
  <2>2. Cardinality(users(f)) = 0
    BY <2>1, FS_EmptySet
  <2>3. CASE f \in T
    <3>1. pools(f) = {}
      BY <1>1, <2>3 DEF Accounted
    <3>2. Cardinality(pools(f)) = 0
      BY <3>1, FS_EmptySet
    <3> HIDE DEF users, pools
    <3> QED  BY <1>2, <2>2, <2>3, <3>2
  <2>4. CASE f \notin T
    <3>1. pools(f) = {free} \/ pools(f) = {others}
      BY <1>1, <1>4, <2>4 DEF Accounted
    <3>2. Cardinality(pools(f)) = 1
      BY <3>1, FS_Singleton
    <3> HIDE DEF users, pools
    <3> QED  BY <1>2, <2>2, <2>4, <3>2
  <2> QED  BY <2>3, <2>4
<1>5. CASE f \notin free \cup others \cup T
  <2>1. PICK v \in owned : At4(mem, v).frame = f
    BY <1>1, <1>5 DEF Accounted
  <2>2. users(f) = {v}
    BY <1>1, <1>3, <2>1 DEF Accounted
  <2>3. pools(f) = {}
    BY <1>5
  <2>4. Cardinality(users(f)) = 1 /\ Cardinality(pools(f)) = 0
    BY <2>2, <2>3, FS_EmptySet, FS_Singleton
  <2> HIDE DEF users, pools
  <2> QED  BY <1>2, <1>5, <2>4
<1> QED  BY <1>4, <1>5

LEMMA UseProperty ==
    ASSUME IInv PROVE NoUseAfterFree
<1> SUFFICES ASSUME NEW v \in Pages, Translation(v).frame \in Pool PROVE v \in owned
  BY DEF NoUseAfterFree
<1>1. Translation(v) # NoMapping
  <2>1. NoMapping.frame = Null /\ Null \notin Pool
    BY RAMType DEF NoMapping, Entry
  <2> QED  BY <2>1
<1>2. Booted
  BY <1>1, EmptyRoot, PagesAreVirt DEF IInv, Stopped
<1>3. Translation(v) = Mapped(At4(mem, v))
  BY <1>2, TranslationIsEntry, PagesAreVirt DEF IInv, Booted
<1>4. "P" \in At4(mem, v).attrib /\ At4(mem, v).frame \in Pool
  BY <1>1, <1>3 DEF Mapped, Entry
<1> QED  BY <1>2, <1>4 DEF Booted, Accounted

(* TablesFormTree: no table is reached by two entries or at two levels,     *)
(* whatever maps fail half-way for want of frames.                          *)
THEOREM TablesStayATree == Spec => []TablesFormTree
BY TreeProperty, Invariance, PTL

(* FramesAccounted: every frame of the pool has exactly one use, so a map   *)
(* that fails leaks nothing and its retry shares nothing.                   *)
THEOREM EveryFrameAccounted == Spec => []FramesAccounted
BY AccountsProperty, Invariance, PTL

(* NoUseAfterFree: only the pages that own a frame of the pool reach one,   *)
(* and never a free frame or a table.                                       *)
THEOREM NoPageReachesFree == Spec => []NoUseAfterFree
BY UseProperty, Invariance, PTL

------------------------------------------------------------------------------
(* The TLB *)

(* Every page is translated by its own entry, before and after a step *)
LEMMA BootedTranslation ==
    IInv /\ Booted => \A v \in Virt : Translation(v) = Mapped(At4(mem, v))
BY TranslationIsEntry DEF IInv, Booted

LEMMA BootedTranslationNext ==
    (IInv /\ Booted => \A v \in Virt : Translation(v) = Mapped(At4(mem, v)))'
BY BootedTranslation, PTL

(* Pages whose tables are not touched are translated as before *)
LEMMA SameTables ==
    ASSUME mem' = mem, current_PML4' = current_PML4, NEW v
    PROVE  Translation(v)' = Translation(v) /\ PTEof(v)' = PTEof(v)
BY DEF Translation, Writable, PTEof, PDEof, PDPTEof, PML4Eof, Follow

LEMMA CoherenceStep ==
    ASSUME IInv, TLBCoherent, Next, TrustFlush = FALSE
    PROVE  TLBCoherent'
<1>0. IInv' /\ Booted
  BY Steps
<1>1. ASSUME NEW v \in Pages \cup {StackPage}, Access(v)
      PROVE  TLBCoherent'
  <2>1. /\ tlb' = [x \in DOMAIN tlb \cup {v} |-> IF x = v THEN Translation(v) ELSE tlb[x]]
        /\ unflushed' = unflushed /\ mem' = mem /\ current_PML4' = current_PML4
    BY <1>1 DEF Access
  <2> SUFFICES ASSUME NEW w \in DOMAIN tlb', w \notin unflushed', w # StackPage
               PROVE  tlb'[w] = Translation(w)'
    BY DEF TLBCoherent
  <2>2. Translation(w)' = Translation(w)
    BY <2>1, SameTables
  <2>3. CASE w = v
    BY <2>1, <2>2, <2>3
  <2>4. CASE w # v
    BY <2>1, <2>2, <2>4 DEF TLBCoherent
  <2> QED  BY <2>3, <2>4
<1>2. ASSUME NEW v \in Pages, vm_flush_tlb_entry(v)
      PROVE  TLBCoherent'
  <2>1. /\ tlb' = [x \in DOMAIN tlb \ {StackPage} |-> tlb[x]]
        /\ unflushed' = unflushed /\ mem' = mem /\ current_PML4' = current_PML4
    BY <1>2 DEF vm_flush_tlb_entry, Evict
  <2> SUFFICES ASSUME NEW w \in DOMAIN tlb', w \notin unflushed', w # StackPage
               PROVE  tlb'[w] = Translation(w)'
    BY DEF TLBCoherent
  <2>2. Translation(w)' = Translation(w)
    BY <2>1, SameTables
  <2> QED  BY <2>1, <2>2 DEF TLBCoherent
<1>3. CASE OtherGivesBack
  <2>1. tlb' = tlb /\ unflushed' = unflushed /\ mem' = mem /\ current_PML4' = current_PML4
    BY <1>3 DEF OtherGivesBack
  <2>2. \A w : Translation(w)' = Translation(w)
    BY <2>1, SameTables
  <2> QED  BY <2>1, <2>2 DEF TLBCoherent
<1>4. CASE vm_initialize \/ vm_switch_pml4(vm_getPML4)
  <2>1. DOMAIN tlb' = {}
    BY <1>4 DEF vm_initialize, vm_switch_pml4, NoCache
  <2> QED  BY <2>1 DEF TLBCoherent
<1>5. ASSUME NEW v \in Pages, Booted',
             \A u \in Virt : u # v => At4(mem', u) = At4(mem, u),
             tlb' = tlb, unflushed' = unflushed \cup (DOMAIN tlb \cap {v})
      PROVE  TLBCoherent'
  <2> SUFFICES ASSUME NEW w \in DOMAIN tlb', w \notin unflushed', w # StackPage
               PROVE  tlb'[w] = Translation(w)'
    BY DEF TLBCoherent
  <2>1. w \in Virt /\ w # v /\ w \in DOMAIN tlb \ (unflushed \cup {StackPage})
    BY <1>5, PagesAreVirt DEF IInv, TypeOK
  <2>2. Translation(w) = Mapped(At4(mem, w))
    BY <1>0, <2>1, BootedTranslation
  <2>3. Translation(w)' = Mapped(At4(mem', w))
    BY <1>0, <1>5, <2>1, BootedTranslationNext
  <2>4. tlb[w] = Translation(w)
    BY <2>1 DEF TLBCoherent
  <2> QED  BY <1>5, <2>1, <2>2, <2>3, <2>4
<1>6. ASSUME NEW v \in Pages \ owned, NEW p \in Devices,
             NEW flags \in Presets \cup {{"P", "W"}}, vm_map_page_flags(p, v, flags)
      PROVE  TLBCoherent'
  <2>1. Booted' /\ MapsOnly(v, p, flags)
    BY <1>0, <1>6, MapStep, PresetsAssumption
  <2> QED  BY <1>5, <1>6, <2>1 DEF vm_map_page_flags, MapsOnly
<1>7. ASSUME NEW v \in Pages \ owned, HasPTE(v), vm_alloc_page(v)
      PROVE  TLBCoherent'
  <2>1. Booted' /\ \A u \in Virt : u # v => At4(mem', u) = At4(mem, u)
    BY <1>0, <1>7, AllocStep
  <2> QED  BY <1>5, <1>7, <2>1 DEF vm_alloc_page
<1>8. ASSUME NEW v \in owned, vm_free_page(v)
      PROVE  TLBCoherent'
  <2>1. Booted' /\ \A u \in Virt : u # v => At4(mem', u) = At4(mem, u)
    BY <1>0, <1>8, FreeStep
  <2>2. v \in Pages
    BY DEF IInv, TypeOK
  <2> QED  BY <1>5, <1>8, <2>1, <2>2 DEF vm_free_page
<1> QED  BY <1>1, <1>2, <1>3, <1>4, <1>6, <1>7, <1>8 DEF Next, vm_map_page

(* TLBCoherent, of loads of cr3 alone: what the CPU has cached of a page    *)
(* not changed since cr3 was last loaded is what the tables give.  Nothing  *)
(* is said of vm_flush_tlb_entry: with TrustFlush the theorem is false.     *)
THEOREM CachedIsCurrent ==
    ASSUME TrustFlush = FALSE PROVE Spec => []TLBCoherent
<1>1. Init => TLBCoherent
  BY DEF Init, TLBCoherent, NoCache
<1>2. IInv /\ TLBCoherent /\ [Next]_vars => TLBCoherent'
  <2> SUFFICES ASSUME IInv, TLBCoherent, [Next]_vars PROVE TLBCoherent'
    OBVIOUS
  <2>1. CASE Next
    BY <2>1, CoherenceStep
  <2>2. CASE UNCHANGED vars
    <3>1. \A w : Translation(w)' = Translation(w)
      BY <2>2, SameTables DEF vars
    <3> QED  BY <2>2, <3>1 DEF vars, TLBCoherent
  <2> QED  BY <2>1, <2>2
<1> QED  BY <1>1, <1>2, Invariance, PTL DEF Spec

------------------------------------------------------------------------------
(* The address space *)

(* The attributes of an entry, as the abstract address space sees them *)
Attribs(e) == e.attrib \ {"P"}

(* A page's entry has the attributes its last map asked for and no others,  *)
(* unless nothing runs any more                                             *)
Told == Stopped \/ \A v \in Pages : asked[v].attrib = Attribs(At4(mem, v))

LEMMA BootedSpace ==
    IInv /\ Booted => \A v \in Pages : /\ Translation(v) = Mapped(At4(mem, v))
                                       /\ PTEof(v) = At4(mem, v)
                                       /\ At4(mem, v) \in Entries
<1> SUFFICES ASSUME IInv, Booted, NEW v \in Pages
             PROVE  /\ Translation(v) = Mapped(At4(mem, v))
                    /\ PTEof(v) = At4(mem, v)
                    /\ At4(mem, v) \in Entries
  OBVIOUS
<1>1. At4(mem, v) \in Entries
  BY WalkType, PagesAreVirt DEF IInv
<1> QED  BY <1>1, BootedTranslation, RootWalk, PagesAreVirt DEF Booted

LEMMA BootedSpaceNext ==
    (IInv /\ Booted => \A v \in Pages : /\ Translation(v) = Mapped(At4(mem, v))
                                        /\ PTEof(v) = At4(mem, v)
                                        /\ At4(mem, v) \in Entries)'
BY BootedSpace, PTL

LEMMA StoppedSpace ==
    Stopped => \A v \in Pages : Translation(v) = NoMapping /\ PTEof(v) = Zero
BY EmptyRoot, PagesAreVirt DEF Stopped

LEMMA StoppedSpaceNext ==
    (Stopped => \A v \in Pages : Translation(v) = NoMapping /\ PTEof(v) = Zero)'
BY StoppedSpace, PTL

(* A step that changes the entry of one page changes one page of the space *)
LEMMA OnePage ==
    ASSUME IInv, Booted, IInv', Booted', NEW v \in Pages,
           \A u \in Virt : u # v => At4(mem', u) = At4(mem, u)
    PROVE  [u \in Pages |-> Translation(u)]'
             = [[u \in Pages |-> Translation(u)] EXCEPT ![v] = Mapped(At4(mem', v))]
<1>1. \A u \in Pages : Translation(u) = Mapped(At4(mem, u))
  BY BootedSpace
<1>2. \A u \in Pages : Translation(u)' = Mapped(At4(mem', u))
  BY BootedSpaceNext
<1>3. \A u \in Pages : u # v => Translation(u)' = Translation(u)
  BY <1>1, <1>2, PagesAreVirt
<1> QED  BY <1>2, <1>3

LEMMA NotBoth == ~ (Booted /\ Stopped)
BY BootAssumption, PoolAssumption DEF Booted, Stopped, Root

(* Nor does it change what the attributes of the others are known to be     *)
LEMMA ToldOfOne ==
    ASSUME IInv, Booted, Told, NEW v \in Pages,
           \A u \in Virt : u # v => At4(mem', u) = At4(mem, u),
           \A u \in Pages : u # v => asked'[u] = asked[u],
           asked'[v].attrib = Attribs(At4(mem', v))
    PROVE  Told'
<1>1. ~ Stopped
  BY NotBoth
<1>2. \A u \in Pages : asked[u].attrib = Attribs(At4(mem, u))
  BY <1>1 DEF Told
<1>3. \A u \in Pages : asked'[u].attrib = Attribs(At4(mem', u))
  BY <1>2, PagesAreVirt
<1> QED  BY <1>3 DEF Told, Attribs

LEMMA ToldBefore ==
    ASSUME IInv, Booted, Told, NEW v \in Pages
    PROVE  asked[v].attrib = Attribs(At4(mem, v)) /\ Kept(v) = Attribs(At4(mem, v))
<1>1. ~ Stopped
  BY NotBoth
<1>2. PTEof(v) = At4(mem, v)
  BY BootedSpace
<1> QED  BY <1>1, <1>2 DEF Told, Kept, Attribs

LEMMA MapSpace ==
    ASSUME IInv, Booted, Told, NEW v \in Pages \ owned, NEW p \in Devices,
           NEW flags \in Presets \cup {{"P", "W"}}, vm_map_page_flags(p, v, flags),
           Kept(v) \subseteq flags
    PROVE  [Space!Next]_(Space!vars) /\ Told'
<1> DEFINE map == [u \in Pages |-> Translation(u)]
           a == flags \ {"P"}
<1>1. flags \in SUBSET {"P", "W"} /\ "P" \in flags
  BY PresetsAssumption
<1>2. IInv' /\ Booted' /\ MapsOnly(v, p, flags)
  BY <1>1, MapStep
<1>3. \A u \in Virt : u # v => At4(mem', u) = At4(mem, u)
  BY <1>2 DEF MapsOnly
<1>4. map' = [map EXCEPT ![v] = Mapped(At4(mem', v))]
  BY <1>2, <1>3, OnePage
<1>5. /\ map[v] = Mapped(At4(mem, v)) /\ asked \in [Pages -> Entries]
      /\ asked[v].attrib = Attribs(At4(mem, v)) /\ Attribs(At4(mem, v)) \subseteq flags
  BY BootedSpace, ToldBefore, TypeNoted DEF IInv, Noted
<1>6. CASE At4(mem', v) = At4(mem, v) /\ asked' = asked
  <2>1. map' = map
    <3>1. map = [u \in Pages |-> map[u]]
      OBVIOUS
    <3> HIDE DEF map
    <3> QED  BY <1>4, <1>5, <1>6, <3>1
  <2>2. Told'
    BY <1>3, <1>5, <1>6, ToldOfOne
  <2> QED  BY <1>6, <2>1, <2>2 DEF Space!vars
<1>7. CASE /\ At4(mem', v) = Entry(p, At4(mem, v).attrib \cup flags)
           /\ asked' = [asked EXCEPT ![v] = Entry(p, flags \ {"P"})]
  <2>1. Attribs(At4(mem', v)) = a
    BY <1>5, <1>7 DEF Attribs, Entry
  <2>2. Mapped(At4(mem', v)) = Entry(p, a)
    BY <1>1, <1>7, <2>1 DEF Attribs, Mapped, Entry
  <2>3. asked' = [asked EXCEPT ![v] = Space!Mapping(p, a)] /\ asked'[v] = Entry(p, a)
    BY <1>5, <1>7 DEF Space!Mapping, Entry
  <2>4. map' = [map EXCEPT ![v] = asked'[v]]
    <3> HIDE DEF map, a
    <3> QED  BY <1>4, <2>2, <2>3
  <2>5. a \in SUBSET {"W"} /\ p \in Devices \cup Pool
    BY <1>1
  <2>6. Space!Map(v, p, a)
    BY <2>3, <2>4 DEF Space!Map
  <2>7. Told'
    <3>1. \A u \in Pages : u # v => asked'[u] = asked[u]
      BY <1>5, <1>7
    <3>2. asked'[v].attrib = Attribs(At4(mem', v))
      BY <2>1, <2>3 DEF Entry
    <3> QED  BY <1>3, <3>1, <3>2, ToldOfOne
  <2> QED  BY <2>5, <2>6, <2>7 DEF Space!Next
<1> QED  BY <1>2, <1>6, <1>7 DEF MapsOnly

LEMMA AllocSpace ==
    ASSUME IInv, Booted, Told, NEW v \in Pages \ owned, HasPTE(v), vm_alloc_page(v)
    PROVE  [Space!Next]_(Space!vars) /\ Told'
<1> DEFINE map == [u \in Pages |-> Translation(u)]
           p == Lowest(free)
<1>1. /\ IInv' /\ Booted' /\ p \in Pool
      /\ At4(mem', v) = Entry(p, At4(mem, v).attrib \cup {"P"})
      /\ \A u \in Virt : u # v => At4(mem', u) = At4(mem, u)
  BY AllocStep
<1>2. asked' = asked
  BY DEF vm_alloc_page
<1>3. asked[v].attrib = Attribs(At4(mem, v))
  BY ToldBefore
<1> HIDE DEF p
<1>4. Attribs(At4(mem', v)) = asked[v].attrib
  BY <1>1, <1>3 DEF Attribs, Entry
<1>5. Mapped(At4(mem', v)) = Space!Mapping(p, asked[v].attrib)
  BY <1>1, <1>3 DEF Attribs, Mapped, Entry, Space!Mapping
<1>6. map' = [map EXCEPT ![v] = Mapped(At4(mem', v))]
  BY <1>1, OnePage
<1>7. map' = [map EXCEPT ![v] = Space!Mapping(p, asked[v].attrib)]
  <2> HIDE DEF map
  <2> QED  BY <1>5, <1>6
<1>8. Space!Back(v)
  BY <1>1, <1>2, <1>7 DEF Space!Back
<1>9. Told'
  BY <1>1, <1>2, <1>4, ToldOfOne
<1> QED  BY <1>8, <1>9 DEF Space!Next

LEMMA FreeSpace ==
    ASSUME IInv, Booted, Told, NEW v \in owned, vm_free_page(v)
    PROVE  [Space!Next]_(Space!vars) /\ Told'
<1> DEFINE map == [u \in Pages |-> Translation(u)]
<1>1. v \in Pages
  BY DEF IInv, TypeOK
<1>2. /\ IInv' /\ Booted'
      /\ At4(mem', v) = [At4(mem, v) EXCEPT !.attrib = @ \ {"P"}]
      /\ \A u \in Virt : u # v => At4(mem', u) = At4(mem, u)
  BY FreeStep
<1>3. asked' = asked
  BY DEF vm_free_page
<1>4. At4(mem', v).attrib = At4(mem, v).attrib \ {"P"}
  BY <1>1, <1>2, BootedSpace DEF Entries
<1>5. Mapped(At4(mem', v)) = NoMapping
  BY <1>4 DEF Mapped
<1>6. map' = [map EXCEPT ![v] = Mapped(At4(mem', v))]
  BY <1>1, <1>2, OnePage
<1>7. Space!Unmap(v)
  BY <1>3, <1>5, <1>6 DEF Space!Unmap
<1>8. asked[v].attrib = Attribs(At4(mem', v))
  BY <1>1, <1>4, ToldBefore DEF Attribs
<1>9. Told'
  BY <1>1, <1>2, <1>3, <1>8, ToldOfOne
<1> QED  BY <1>1, <1>7, <1>9 DEF Space!Next

LEMMA SpaceStep ==
    ASSUME IInv, Told, Narrows = FALSE, [Next]_vars
    PROVE  [Space!Next]_(Space!vars) /\ Told'
<1>1. ASSUME mem' = mem, current_PML4' = current_PML4, asked' = asked,
             Booted \/ tlb' = tlb
      PROVE  UNCHANGED Space!vars /\ Told'
  <2>1. \A u : Translation(u)' = Translation(u) /\ PTEof(u)' = PTEof(u)
    BY <1>1, SameTables
  <2>2. Told'
    <3>1. CASE Stopped
      <4>1. tlb' = tlb
        BY <1>1, <3>1, NotBoth
      <4> QED  BY <1>1, <3>1, <4>1 DEF Told, Stopped
    <3>2. CASE \A v \in Pages : asked[v].attrib = Attribs(At4(mem, v))
      <4>1. \A v \in Pages : asked'[v].attrib = Attribs(At4(mem', v))
        BY <1>1, <3>2
      <4> QED  BY <4>1 DEF Told, Attribs
    <3> QED  BY <3>1, <3>2 DEF Told
  <2> QED  BY <1>1, <2>1, <2>2 DEF Space!vars
<1>2. CASE UNCHANGED vars
  BY <1>1, <1>2 DEF vars
<1>3. CASE Next
  <2>0. Booted
    BY <1>3, Steps
  <2>1. CASE \/ \E v \in Pages \cup {StackPage} : Access(v)
             \/ \E v \in Pages : vm_flush_tlb_entry(v)
             \/ vm_switch_pml4(vm_getPML4)
             \/ OtherGivesBack
    BY <1>1, <2>0, <2>1 DEF Access, vm_flush_tlb_entry, vm_switch_pml4, vm_getPML4,
                            OtherGivesBack
  <2>2. ASSUME NEW v \in Pages \ owned, NEW p \in Devices, vm_map_page(p, v)
        PROVE  [Space!Next]_(Space!vars) /\ Told'
    <3>1. Kept(v) \subseteq {"P", "W"}
      BY <2>0, BootedSpace DEF Kept, Entries
    <3> QED  BY <2>0, <2>2, <3>1, MapSpace DEF vm_map_page
  <2>3. ASSUME NEW v \in Pages \ owned, NEW p \in Devices, NEW flags \in Presets,
               Kept(v) \subseteq flags, vm_map_page_flags(p, v, flags)
        PROVE  [Space!Next]_(Space!vars) /\ Told'
    BY <2>0, <2>3, MapSpace
  <2>4. ASSUME NEW v \in Pages \ owned, HasPTE(v), vm_alloc_page(v)
        PROVE  [Space!Next]_(Space!vars) /\ Told'
    BY <2>0, <2>4, AllocSpace
  <2>5. ASSUME NEW v \in owned, vm_free_page(v)
        PROVE  [Space!Next]_(Space!vars) /\ Told'
    BY <2>0, <2>5, FreeSpace
  <2>6. CASE vm_initialize
    <3>1. Stopped'
      BY <2>0, <2>6, InitializeStep
    <3>2. \A u \in Pages : Translation(u)' = NoMapping
      BY <3>1, StoppedSpaceNext
    <3>3. [u \in Pages |-> Translation(u)]' = [u \in Pages |-> NoMapping]
      BY <3>2
    <3>4. asked' = [u \in Pages |-> NoMapping]
      BY <2>6 DEF vm_initialize
    <3>5. Space!Renew
      BY <3>3, <3>4 DEF Space!Renew
    <3> QED  BY <3>1, <3>5 DEF Space!Next, Told
  <2> QED  BY <1>3, <2>1, <2>2, <2>3, <2>4, <2>5, <2>6 DEF Next
<1> QED  BY <1>2, <1>3

(* ImplementsAddressSpace: a map changes the translation of its page to the *)
(* given frame with the requested attributes, or nothing when memory runs   *)
(* out on the way, and no other page's, whatever maps, allocations and      *)
(* frees came before - if no map asks for fewer attributes than its page    *)
(* has had.  Without that the theorem is false: vm_map_page_flags takes no  *)
(* attribute back.                                                          *)
THEOREM Refinement ==
    ASSUME Narrows = FALSE PROVE Spec => ImplementsAddressSpace
<1>1. Init => Space!Init /\ Told
  <2> SUFFICES ASSUME Init PROVE Space!Init /\ Told
    OBVIOUS
  <2>1. \A v \in Pages : At4(mem, v) = Zero
    BY InitTree
  <2>2. \A v \in Pages : Translation(v) = NoMapping
    BY <2>1, InitInvariant, BootedSpace DEF Mapped, Zero
  <2>3. asked = [v \in Pages |-> NoMapping]
    BY DEF Init
  <2>4. Told
    BY <2>1, <2>3 DEF Told, Attribs, Zero, NoMapping, Entry
  <2> QED  BY <2>2, <2>3, <2>4 DEF Space!Init
<1>2. IInv /\ Told /\ [Next]_vars => [Space!Next]_(Space!vars) /\ Told'
  BY SpaceStep
<1> QED  BY <1>1, <1>2, Invariance, PTL DEF Spec, ImplementsAddressSpace, Space!Spec
==============================================================================
