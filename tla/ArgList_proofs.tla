---------------------------- MODULE ArgList_proofs ----------------------------
(***************************************************************************)
(* Proofs about ArgList, for every number of blocks, every set of values   *)
(* and every set of formats: what a list leads to is its own, whatever     *)
(* blocks were reused, and it is the FIFO that varargs.h promises.         *)
(***************************************************************************)
EXTENDS ArgList, FiniteSetTheorems, FunctionTheorems, SequenceTheorems,
        WellFoundedInduction, TLAPS

------------------------------------------------------------------------------
(* The invariant *)

Contents ==
    {Free} \cup {Argument(v) : v \in Values}
           \cup {Node(p, n) : p \in Pointers, n \in Pointers}

(* What each variable is *)
Typed ==
    /\ mem \in [Pool -> Contents]
    /\ list \in Pointers /\ args \in Pointers /\ poppedArg \in Pointers
    /\ pc \in {"caller", "kprintf", "arg_flush", "freeing", "halted"}
    /\ fmt \in Seq(Directives)
    /\ flushed \subseteq Pool
    /\ misfreed \in BOOLEAN

(* From head on, m leads through the nodes of q, no node twice, to null *)
IsPath(m, head, q) ==
    /\ q \in Seq(Pool)
    /\ \A i, j \in 1 .. Len(q) : q[i] = q[j] => i = j
    /\ head = IF q = <<>> THEN Null ELSE q[1]
    /\ \A i \in 1 .. Len(q) :
         /\ m[q[i]].is = "node"
         /\ m[q[i]].next = IF i = Len(q) THEN Null ELSE q[i + 1]

(* Each node of q has an argument of its own, which is none of those that   *)
(* were taken from a list before.                                           *)
OwnArguments(m, q, taken) ==
    /\ \A i \in 1 .. Len(q) :
         /\ m[q[i]].p_arg \in Pool
         /\ m[m[q[i]].p_arg].is = "argument"
         /\ m[q[i]].p_arg \notin taken
    /\ \A i, j \in 1 .. Len(q) : m[q[i]].p_arg = m[q[j]].p_arg => i = j

(* The blocks that are in use are those of the list and those that were     *)
(* taken, which are arguments.                                              *)
AllKnown(m, q, taken) ==
    /\ \A b \in taken : b \in Pool /\ m[b].is = "argument"
    /\ \A b \in Pool :
         m[b] # Free =>
           b \in taken \/ \E i \in 1 .. Len(q) : b = q[i] \/ b = m[q[i]].p_arg

Owns(m, head, q, taken) ==
    IsPath(m, head, q) /\ OwnArguments(m, q, taken) /\ AllKnown(m, q, taken)

Taken == ({poppedArg} \ {Null}) \cup flushed

Lists == pc # "halted" => Owns(mem, Current, Nodes(mem, Current), Taken)

(* Where the control is, what the pointers are *)
Control ==
    /\ pc = "caller" => args = Null /\ poppedArg = Null
    /\ pc = "kprintf" => poppedArg = Null
    /\ pc \in {"kprintf", "freeing"} =>
         /\ Len(Nodes(mem, args)) <= Takes(fmt)
         /\ list = args \/ (list \in Pool /\ mem[list] = Free)
         /\ poppedArg \notin flushed
    /\ pc = "arg_flush" => poppedArg \in flushed \cup {Null}

IInv == Typed /\ Lists /\ Control

------------------------------------------------------------------------------
(* Following pointers *)

(* A set of naturals has a least element *)
LEMMA Least ==
    ASSUME NEW S, S \subseteq Nat, S # {}
    PROVE  \E n \in S : \A k \in Nat : k < n => k \notin S
<1>1. PICK n \in S : \A k \in S : ~ (<<k, n>> \in OpToRel(<, Nat))
  BY NatLessThanWellFounded, WFMin
<1>2. \A k \in S : ~ (k < n)
  BY <1>1 DEF OpToRel
<1> QED  BY <1>2

(* One turn of the loop "while (curr->next) curr = curr->next" *)
Step(m, b) == IF IsNode(m, b) THEN m[b].next ELSE Null

Follows(m, at, head, n) ==
    at = [k \in 0 .. n |-> IF k = 0 THEN head ELSE Step(m, at[k - 1])]

(* Any number of pointers can be followed, so Hops is what it says *)
LEMMA SomeFollows ==
    ASSUME NEW m, NEW head, NEW n \in Nat
    PROVE  \E at : Follows(m, at, head, n)
<1> DEFINE S == {k \in Nat : ~ \E at : Follows(m, at, head, k)}
<1>1. SUFFICES ASSUME S # {} PROVE FALSE
  OBVIOUS
<1>2. PICK k \in S : \A j \in Nat : j < k => j \notin S
  BY <1>1, Least
<1>3. CASE k = 0
  <2> DEFINE at == [j \in 0 .. 0 |-> head]
  <2>1. at = [j \in 0 .. 0 |-> IF j = 0 THEN head ELSE Step(m, at[j - 1])]
    OBVIOUS
  <2>2. Follows(m, at, head, 0)
    BY <2>1 DEF Follows
  <2> QED  BY <1>3, <2>2
<1>4. CASE k # 0
  <2>1. k - 1 \in Nat /\ k - 1 < k
    BY <1>4
  <2>2. PICK at : Follows(m, at, head, k - 1)
    BY <1>2, <2>1
  <2> DEFINE to == [j \in 0 .. k |-> IF j = k THEN Step(m, at[k - 1]) ELSE at[j]]
  <2>3. \A j \in 0 .. k - 1 : at[j] = IF j = 0 THEN head ELSE Step(m, at[j - 1])
    BY <2>2 DEF Follows
  <2>4. \A j \in 0 .. k : to[j] = IF j = 0 THEN head ELSE Step(m, to[j - 1])
    BY <2>1, <2>3
  <2>5. to = [j \in 0 .. k |-> IF j = 0 THEN head ELSE Step(m, to[j - 1])]
    BY <2>4
  <2>6. Follows(m, to, head, k)
    BY <2>5 DEF Follows
  <2> QED  BY <2>6
<1> QED  BY <1>3, <1>4

LEMMA HopsFollow ==
    ASSUME NEW m, NEW head
    PROVE  /\ Hops(m, head)[0] = head
           /\ \A n \in 1 .. Blocks : Hops(m, head)[n] = Step(m, Hops(m, head)[n - 1])
<1> DEFINE at == Hops(m, head)
<1>1. \E f : Follows(m, f, head, Blocks)
  BY SomeFollows, ArgListAssumption
<1>2. at = CHOOSE f : f = [n \in 0 .. Blocks |->
                             IF n = 0 THEN head
                             ELSE IF IsNode(m, f[n - 1]) THEN m[f[n - 1]].next ELSE Null]
  BY DEF Hops
<1>3. at = [n \in 0 .. Blocks |-> IF n = 0 THEN head ELSE
                                 IF IsNode(m, at[n - 1]) THEN m[at[n - 1]].next ELSE Null]
  BY <1>1, <1>2 DEF Follows, Step
<1> HIDE DEF at
<1>4. \A n \in 0 .. Blocks : at[n] = IF n = 0 THEN head ELSE Step(m, at[n - 1])
  BY <1>3 DEF Step
<1>5. at[0] = head /\ \A n \in 1 .. Blocks : at[n] = Step(m, at[n - 1])
  BY <1>4, ArgListAssumption
<1> QED  BY <1>5 DEF at

(* What leads to no node is the empty list *)
LEMMA NoNodes ==
    ASSUME NEW m, NEW head, ~ IsNode(m, head)
    PROVE  Nodes(m, head) = <<>>
<1> DEFINE at == Hops(m, head)
           Many(n) == /\ \A k \in 0 .. n - 1 : IsNode(m, at[k])
                      /\ n = Blocks \/ ~ IsNode(m, at[n])
           many == CHOOSE n \in 0 .. Blocks : Many(n)
<1>1. at[0] = head /\ Blocks \in Nat
  BY HopsFollow, ArgListAssumption
<1> HIDE DEF at
<1>2. 0 \in 0 .. Blocks /\ Many(0)
  BY <1>1
<1>3. \A n \in 0 .. Blocks : Many(n) => n = 0
  BY <1>1
<1>4. many = 0
  BY <1>2, <1>3
<1>5. Nodes(m, head) = [i \in 1 .. many |-> at[i - 1]]
  BY DEF Nodes, at
<1> HIDE DEF many
<1>6. Nodes(m, head) = [i \in 1 .. 0 |-> at[i - 1]]
  BY <1>4, <1>5
<1> QED  BY <1>6

(* A path through distinct blocks is no longer than there are blocks *)
LEMMA PathLength ==
    ASSUME NEW m, NEW head, NEW q, IsPath(m, head, q)
    PROVE  Len(q) \in Nat /\ Len(q) <= Blocks
<1>1. q \in Seq(Pool) /\ \A i, j \in 1 .. Len(q) : q[i] = q[j] => i = j
  BY DEF IsPath
<1>2. Len(q) \in Nat /\ q \in [1 .. Len(q) -> Pool]
  BY <1>1, LenProperties
<1>3. q \in Injection(1 .. Len(q), Pool)
  BY <1>1, <1>2 DEF Injection, IsInjective
<1>4. IsFiniteSet(Pool) /\ Cardinality(Pool) = Blocks
  BY FS_Interval, ArgListAssumption DEF Pool
<1>5. Cardinality(1 .. Len(q)) <= Cardinality(Pool)
  BY <1>3, <1>4, FS_Injection
<1>6. Cardinality(1 .. Len(q)) = Len(q)
  BY <1>2, FS_Interval
<1> QED  BY <1>2, <1>4, <1>5, <1>6

(* Nodes finds the path, if there is one *)
LEMMA PathNodes ==
    ASSUME NEW m, NEW head, NEW q, IsPath(m, head, q)
    PROVE  Nodes(m, head) = q
<1> DEFINE at == Hops(m, head)
           n == Len(q)
           to == [k \in 0 .. n |-> IF k = n THEN Null ELSE q[k + 1]]
           S == {k \in 0 .. n : at[k] # to[k]}
           Many(l) == /\ \A k \in 0 .. l - 1 : IsNode(m, at[k])
                      /\ l = Blocks \/ ~ IsNode(m, at[l])
           many == CHOOSE l \in 0 .. Blocks : Many(l)
<1>1. /\ n \in Nat /\ Blocks \in Nat /\ n <= Blocks
      /\ q \in [1 .. n -> Pool]
  BY PathLength, LenProperties, ArgListAssumption DEF IsPath
<1>2. /\ at[0] = head
      /\ \A l \in 1 .. Blocks : at[l] = Step(m, at[l - 1])
  BY HopsFollow
<1> HIDE DEF at
<1>3. \A k \in 1 .. n :
        /\ IsNode(m, q[k])
        /\ Step(m, q[k]) = IF k = n THEN Null ELSE q[k + 1]
  BY <1>1 DEF IsPath, IsNode, Step
<1>4. head = IF n = 0 THEN Null ELSE q[1]
  BY <1>1, EmptySeq DEF IsPath
<1> HIDE DEF n
<1>5. at[0] = to[0]
  BY <1>1, <1>2, <1>4
<1>6. ASSUME NEW k \in 1 .. n, at[k - 1] = to[k - 1] PROVE at[k] = to[k]
  <2>1. at[k - 1] = q[k]
    BY <1>1, <1>6
  <2>2. at[k] = Step(m, q[k])
    BY <1>1, <1>2, <2>1
  <2> QED  BY <1>1, <1>3, <2>2
<1>7. \A k \in 0 .. n : at[k] = to[k]
  <2>1. SUFFICES ASSUME S # {} PROVE FALSE
    OBVIOUS
  <2>2. S \subseteq Nat
    BY <1>1
  <2>3. PICK k \in S : \A j \in Nat : j < k => j \notin S
    <3> HIDE DEF S
    <3> QED  BY <2>1, <2>2, Least
  <2>4. k \in 0 .. n /\ at[k] # to[k]
    BY <2>3
  <2>5. k \in 1 .. n /\ k - 1 \in 0 .. n /\ k - 1 \in Nat /\ k - 1 < k
    <3> HIDE DEF to
    <3> QED  BY <1>1, <1>5, <2>4
  <2>6. k - 1 \notin S
    BY <2>3, <2>5
  <2>7. at[k - 1] = to[k - 1]
    BY <2>5, <2>6
  <2> HIDE DEF to
  <2> QED  BY <1>6, <2>4, <2>5, <2>7
<1>8. /\ \A k \in 0 .. n - 1 : at[k] = q[k + 1] /\ IsNode(m, at[k])
      /\ ~ IsNode(m, at[n])
  <2>1. \A k \in 0 .. n - 1 : at[k] = q[k + 1] /\ k + 1 \in 1 .. n
    BY <1>1, <1>7
  <2>2. at[n] = Null
    BY <1>1, <1>7
  <2> QED  BY <1>3, <2>1, <2>2 DEF IsNode, Null, Pool
<1>9. n \in 0 .. Blocks /\ Many(n)
  BY <1>1, <1>8
<1>10. ASSUME NEW l \in 0 .. Blocks, Many(l) PROVE l = n
  <2>1. CASE l > n
    BY <1>1, <1>8, <1>10, <2>1
  <2>2. CASE l < n
    <3>1. IsNode(m, at[l]) /\ l # Blocks
      BY <1>1, <1>8, <2>2
    <3> QED  BY <1>10, <3>1
  <2> QED  BY <1>1, <2>1, <2>2
<1>11. many = n
  <2> HIDE DEF Many
  <2> QED  BY <1>9, <1>10
<1>12. Nodes(m, head) = [i \in 1 .. many |-> at[i - 1]]
  BY DEF Nodes, at
<1> HIDE DEF many, Many, S, to
<1>13. Nodes(m, head) = [i \in 1 .. n |-> at[i - 1]]
  BY <1>11, <1>12
<1>14. \A i \in 1 .. n : at[i - 1] = q[i]
  BY <1>1, <1>8
<1> QED  BY <1>1, <1>13, <1>14

------------------------------------------------------------------------------
(* The blocks *)

Memories == [Pool -> Contents]

LEMMA ContentsType ==
    /\ Free \in Contents /\ Free.is = "free"
    /\ \A v : Argument(v).is = "argument" /\ Argument(v).value = v
    /\ \A v \in Values : Argument(v) \in Contents
    /\ \A p, n : /\ Node(p, n).is = "node"
                 /\ Node(p, n).p_arg = p /\ Node(p, n).next = n
    /\ \A p, n \in Pointers : Node(p, n) \in Contents
    /\ \A c \in Contents : c.is \in {"free", "argument", "node"}
    /\ \A c \in Contents : c.is = "free" => c = Free
    /\ \A c \in Contents : c.is = "argument" => c.value \in Values
    /\ \A c \in Contents :
         c.is = "node" => /\ c.p_arg \in Pointers /\ c.next \in Pointers
                          /\ c = Node(c.p_arg, c.next)
<1>1. Free.is = "free"
  BY DEF Free
<1>2. \A v : Argument(v).is = "argument" /\ Argument(v).value = v
  BY DEF Argument
<1>3. \A p, n : /\ Node(p, n).is = "node"
                /\ Node(p, n).p_arg = p /\ Node(p, n).next = n
  BY DEF Node
<1>4. Free \in Contents
  BY DEF Contents
<1>5. \A v \in Values : Argument(v) \in Contents
  BY DEF Contents
<1>6. \A p, n \in Pointers : Node(p, n) \in Contents
  BY DEF Contents
<1>7. ASSUME NEW c \in Contents
      PROVE  \/ c = Free
             \/ \E v \in Values : c = Argument(v)
             \/ \E p, n \in Pointers : c = Node(p, n)
  BY DEF Contents
<1> QED  BY <1>1, <1>2, <1>3, <1>4, <1>5, <1>6, <1>7

LEMMA PoolType == Pool \subseteq Nat /\ Null \notin Pool /\ Pointers = Pool \cup {Null}
BY ArgListAssumption DEF Pool, Null, Pointers

(* malloc finds a free block if there is one *)
LEMMA MallocFinds ==
    ASSUME NEW m
    PROVE  \/ malloc(m) = Null /\ FreeBlocks(m) = {}
           \/ malloc(m) \in Pool /\ m[malloc(m)] = Free
<1>1. CASE FreeBlocks(m) = {}
  BY <1>1 DEF malloc
<1>2. CASE FreeBlocks(m) # {}
  <2>1. FreeBlocks(m) \subseteq Nat
    BY PoolType DEF FreeBlocks
  <2>2. PICK b \in FreeBlocks(m) : \A k \in Nat : k < b => k \notin FreeBlocks(m)
    BY <1>2, <2>1, Least
  <2>3. \A c \in FreeBlocks(m) : b <= c
    BY <2>1, <2>2
  <2>4. malloc(m) \in FreeBlocks(m)
    BY <1>2, <2>2, <2>3 DEF malloc
  <2> QED  BY <2>4 DEF FreeBlocks
<1> QED  BY <1>1, <1>2

(* The last node of a list is the end of its path *)
LEMMA LastOfPath ==
    ASSUME NEW m, NEW head, NEW q, IsPath(m, head, q), head # Null
    PROVE  /\ Len(q) \in Nat \ {0} /\ Last(m, head) = q[Len(q)]
           /\ head = q[1]
<1>1. Len(q) \in Nat /\ q # <<>>
  BY PathLength DEF IsPath
<1>2. Len(q) # 0
  BY <1>1, EmptySeq DEF IsPath
<1> QED  BY <1>1, <1>2, PathNodes DEF Last, IsPath

LEMMA EmptyPath ==
    ASSUME NEW m, NEW head, NEW q, IsPath(m, head, q)
    PROVE  /\ (head = Null) <=> (q = <<>>)
           /\ (head = Null) <=> (Len(q) = 0)
           /\ Len(q) \in Nat /\ q \in [1 .. Len(q) -> Pool]
<1>1. Len(q) \in Nat /\ q \in [1 .. Len(q) -> Pool]
  BY PathLength, LenProperties DEF IsPath
<1>2. q = <<>> <=> Len(q) = 0
  BY EmptySeq DEF IsPath
<1>3. CASE q = <<>>
  BY <1>1, <1>2, <1>3 DEF IsPath
<1>4. CASE q # <<>>
  <2>1. head = q[1]
    BY <1>4 DEF IsPath
  <2>2. head # Null
    BY <1>1, <1>2, <1>4, <2>1, PoolType
  <2> QED  BY <1>1, <1>2, <1>4, <2>2
<1> QED  BY <1>3, <1>4

------------------------------------------------------------------------------
(* What the operations do to a list *)

(* The values of the arguments of q, in order *)
ValuesOf(m, q) == [i \in 1 .. Len(q) |-> m[m[q[i]].p_arg].value]

(* n has the nodes of m but for the pointers to the next ones, and the      *)
(* arguments of m.                                                          *)
Keeps(n, m, q, taken) ==
    /\ \A i \in 1 .. Len(q) :
         /\ n[q[i]].is = "node" /\ n[q[i]].p_arg = m[q[i]].p_arg
         /\ n[m[q[i]].p_arg] = m[m[q[i]].p_arg]
    /\ \A b \in taken : n[b] = m[b]

(* The memory after the block b was freed *)
Without(m, b) == [m EXCEPT ![b] = Free]

(* The memory after a push with both of its blocks *)
Pushed(m, head, v) ==
    LET arg == malloc(m)
        made == Put(m, arg, Argument(v))
        newarg == malloc(made)
        noded == Put(made, newarg, Node(arg, Null))
    IN  IF head = Null THEN noded
        ELSE [noded EXCEPT ![Last(m, head)].next = newarg]

(* A push appends a node and an argument that nobody had *)
LEMMA PushOwns ==
    ASSUME NEW m \in Memories, NEW head, NEW q, NEW taken, NEW v \in Values,
           Owns(m, head, q, taken),
           NEW n, n = Pushed(m, head, v),
           NEW newarg, newarg = malloc(Put(m, malloc(m), Argument(v))), newarg # Null,
           NEW to, to = IF head = Null THEN newarg ELSE head
    PROVE  /\ n \in Memories /\ newarg \in Pool
           /\ Owns(n, to, Append(q, newarg), taken)
           /\ ValuesOf(n, Append(q, newarg)) = Append(ValuesOf(m, q), v)
<1> DEFINE arg == malloc(m)
           made == Put(m, arg, Argument(v))
           noded == Put(made, newarg, Node(arg, Null))
           last == Last(m, head)
           p == Append(q, newarg)
<1>1. arg \in Pool /\ m[arg] = Free
  <2>1. SUFFICES ASSUME FreeBlocks(m) = {}, arg = Null PROVE FALSE
    BY MallocFinds
  <2>2. made = m
    BY <2>1, PoolType DEF Put
  <2> QED  BY <2>1, <2>2, MallocFinds
<1>2. made = [m EXCEPT ![arg] = Argument(v)] /\ made \in Memories
  BY <1>1, ContentsType DEF Put, Memories
<1>3. newarg \in Pool /\ made[newarg] = Free
  BY MallocFinds
<1>4. newarg # arg /\ m[newarg] = Free
  <2>1. Argument(v) # Free
    BY ContentsType
  <2> QED  BY <1>1, <1>2, <1>3, <2>1 DEF Memories
<1>5. /\ noded \in Memories
      /\ noded[newarg] = Node(arg, Null) /\ noded[arg] = Argument(v)
      /\ \A b \in Pool \ {arg, newarg} : noded[b] = m[b]
  <2>1. Node(arg, Null) \in Contents
    BY <1>1, PoolType, ContentsType
  <2>2. noded = [made EXCEPT ![newarg] = Node(arg, Null)]
    BY <1>3 DEF Put
  <2> QED  BY <1>1, <1>2, <1>3, <1>4, <2>1, <2>2 DEF Memories
<1>6. /\ Len(q) \in Nat /\ q \in Seq(Pool) /\ q \in [1 .. Len(q) -> Pool]
      /\ (head = Null) <=> (Len(q) = 0)
  BY EmptyPath DEF Owns, IsPath
<1> HIDE DEF arg, made, noded
<1>7. /\ p \in Seq(Pool) /\ Len(p) = Len(q) + 1
      /\ \A i \in 1 .. Len(q) : p[i] = q[i]
      /\ p[Len(q) + 1] = newarg /\ p # <<>>
  BY <1>3, <1>6, AppendProperties
<1>8. /\ \A i \in 1 .. Len(q) : m[q[i]].is = "node" /\ q[i] \in Pool \ {arg, newarg}
      /\ \A i \in 1 .. Len(q) : m[q[i]].p_arg \in Pool \ {arg, newarg}
                                /\ m[m[q[i]].p_arg].is = "argument"
      /\ \A b \in taken : b \in Pool \ {arg, newarg} /\ m[b].is = "argument"
  <2>1. m[arg].is = "free" /\ m[newarg].is = "free"
    BY <1>1, <1>4, ContentsType
  <2>2. \A i \in 1 .. Len(q) : m[q[i]].is = "node" /\ q[i] \in Pool
    BY <1>6 DEF Owns, IsPath
  <2>3. \A i \in 1 .. Len(q) : m[q[i]].p_arg \in Pool /\ m[m[q[i]].p_arg].is = "argument"
    BY DEF Owns, OwnArguments
  <2>4. \A b \in taken : b \in Pool /\ m[b].is = "argument"
    BY DEF Owns, AllKnown
  <2>5. \A b \in Pool : m[b].is # "free" => b \in Pool \ {arg, newarg}
    BY <2>1
  <2> QED  BY <2>2, <2>3, <2>4, <2>5
<1>81. /\ \A i, j \in 1 .. Len(q) : q[i] = q[j] => i = j
       /\ \A i \in 1 .. Len(q) :
            m[q[i]].next = IF i = Len(q) THEN Null ELSE q[i + 1]
       /\ head # Null => head = q[1]
  <2>1. \A i, j \in 1 .. Len(q) : q[i] = q[j] => i = j
    BY DEF Owns, IsPath
  <2>2. \A i \in 1 .. Len(q) : m[q[i]].next = IF i = Len(q) THEN Null ELSE q[i + 1]
    BY DEF Owns, IsPath
  <2>3. head # Null => head = q[1]
    BY LastOfPath DEF Owns
  <2> QED  BY <2>1, <2>2, <2>3
<1>9. /\ n \in Memories
      /\ n[newarg] = Node(arg, Null) /\ n[arg] = Argument(v)
      /\ \A b \in Pool \ {arg, newarg} :
           n[b] = IF head # Null /\ b = q[Len(q)]
                  THEN Node(m[b].p_arg, newarg) ELSE m[b]
  <2>1. CASE head = Null
    <3>1. n = noded
      BY <2>1 DEF Pushed, arg, made, noded
    <3> QED  BY <1>5, <2>1, <3>1
  <2>2. CASE head # Null
    <3>1. last = q[Len(q)] /\ Len(q) \in 1 .. Len(q)
      BY <1>6, <2>2, LastOfPath DEF Owns
    <3>2. n = [noded EXCEPT ![last].next = newarg]
      BY <2>2 DEF Pushed, arg, made, noded
    <3> HIDE DEF last
    <3>3. last \in Pool \ {arg, newarg} /\ m[last].is = "node" /\ noded[last] = m[last]
      BY <1>5, <1>8, <3>1
    <3>4. /\ m[last].p_arg \in Pointers
          /\ m[last] = Node(m[last].p_arg, m[last].next)
      BY <3>3, ContentsType DEF Memories
    <3>5. [noded[last] EXCEPT !.next = newarg] = Node(m[last].p_arg, newarg)
      BY <3>3, <3>4 DEF Node
    <3>6. n = [noded EXCEPT ![last] = Node(m[last].p_arg, newarg)]
      BY <3>2, <3>5
    <3>7. Node(m[last].p_arg, newarg) \in Contents
      BY <1>3, <3>4, ContentsType, PoolType
    <3> QED  BY <1>1, <1>3, <1>5, <2>2, <3>1, <3>3, <3>6, <3>7 DEF Memories
  <2> QED  BY <2>1, <2>2
<1> HIDE DEF p
<1>10. Keeps(n, m, q, taken)
  <2>1. ASSUME NEW b \in Pool \ {arg, newarg}, m[b].is = "argument" PROVE n[b] = m[b]
    <3>1. head # Null => Len(q) \in 1 .. Len(q)
      BY <1>6
    <3>2. ~ (head # Null /\ b = q[Len(q)])
      BY <1>8, <2>1, <3>1
    <3> QED  BY <1>9, <2>1, <3>2
  <2>2. ASSUME NEW i \in 1 .. Len(q)
        PROVE  n[q[i]].is = "node" /\ n[q[i]].p_arg = m[q[i]].p_arg
    <3>1. q[i] \in Pool \ {arg, newarg} /\ m[q[i]].is = "node"
      BY <1>8
    <3>2. n[q[i]] = Node(m[q[i]].p_arg, newarg) \/ n[q[i]] = m[q[i]]
      BY <1>9, <3>1
    <3> QED  BY <3>1, <3>2, ContentsType
  <2> QED  BY <1>8, <2>1, <2>2 DEF Keeps
<1>11. IsPath(n, to, p)
  <2>1. \A i, j \in 1 .. Len(p) : p[i] = p[j] => i = j
    <3>1. \A i \in 1 .. Len(p) : p[i] = IF i = Len(q) + 1 THEN newarg ELSE q[i]
      BY <1>6, <1>7
    <3>2. \A i \in 1 .. Len(p) : i # Len(q) + 1 => i \in 1 .. Len(q)
      BY <1>6, <1>7
    <3> QED  BY <1>8, <1>81, <3>1, <3>2
  <2>2. to = p[1]
    <3>1. CASE head = Null
      BY <1>6, <1>7, <3>1
    <3>2. CASE head # Null
      <4>1. 1 \in 1 .. Len(q)
        BY <1>6, <3>2
      <4> QED  BY <1>7, <1>81, <3>2, <4>1
    <3> QED  BY <3>1, <3>2
  <2>3. ASSUME NEW i \in 1 .. Len(p)
        PROVE  /\ n[p[i]].is = "node"
               /\ n[p[i]].next = IF i = Len(p) THEN Null ELSE p[i + 1]
    <3>1. CASE i = Len(q) + 1
      BY <1>6, <1>7, <1>9, <3>1, ContentsType
    <3>2. CASE i = Len(q)
      <4>1. i \in 1 .. Len(q) /\ head # Null
        BY <1>6, <3>2
      <4>2. n[q[i]] = Node(m[q[i]].p_arg, newarg)
        BY <1>8, <1>9, <3>2, <4>1
      <4>3. p[i] = q[i] /\ i # Len(p)
        <5>1. p[i] = q[i]
          BY <1>7, <4>1
        <5>2. Len(p) = Len(q) + 1 /\ Len(q) \in Nat
          BY <1>6, <1>7
        <5> QED  BY <3>2, <5>1, <5>2
      <4>5. p[i + 1] = newarg
        BY <1>7, <3>2
      <4>4. n[q[i]].is = "node" /\ n[q[i]].next = newarg
        BY <4>2, ContentsType
      <4> QED  BY <4>3, <4>4, <4>5
    <3>3. CASE i < Len(q)
      <4>1. i \in 1 .. Len(q) /\ i + 1 \in 1 .. Len(q) /\ Len(q) \in 1 .. Len(q)
        BY <1>6, <1>7, <3>3
      <4>2. q[i] # q[Len(q)] /\ m[q[i]].next = q[i + 1] /\ m[q[i]].is = "node"
        <5>1. q[i] # q[Len(q)]
          <6>1. q[i] = q[Len(q)] => i = Len(q)
            BY <1>81, <4>1
          <6> QED  BY <3>3, <6>1
        <5> QED  BY <1>6, <1>8, <1>81, <3>3, <4>1, <5>1
      <4>3. n[q[i]] = m[q[i]]
        BY <1>8, <1>9, <4>1, <4>2
      <4>4. p[i] = q[i] /\ p[i + 1] = q[i + 1] /\ i # Len(p)
        BY <1>6, <1>7, <3>3, <4>1
      <4>5. n[p[i]] = m[q[i]] /\ m[q[i]].next = p[i + 1]
        BY <4>2, <4>3, <4>4
      <4>6. n[p[i]].is = "node"
        BY <4>2, <4>5
      <4>7. n[p[i]].next = p[i + 1]
        BY <4>5
      <4> QED  BY <4>4, <4>6, <4>7
    <3>4. i = Len(q) + 1 \/ i = Len(q) \/ i < Len(q)
      <4>1. Len(p) = Len(q) + 1 /\ Len(q) \in Nat
        BY <1>6, <1>7
      <4> QED  BY <4>1
    <3> QED  BY <3>1, <3>2, <3>3, <3>4
  <2> QED  BY <1>7, <2>1, <2>2, <2>3 DEF IsPath
<1>12. OwnArguments(n, p, taken)
  <2>1. \A i \in 1 .. Len(p) :
          n[p[i]].p_arg = IF i = Len(q) + 1 THEN arg ELSE m[q[i]].p_arg
    BY <1>6, <1>7, <1>9, <1>10, ContentsType DEF Keeps
  <2>2. \A i \in 1 .. Len(p) :
         /\ n[p[i]].p_arg \in Pool
         /\ n[n[p[i]].p_arg].is = "argument"
         /\ n[p[i]].p_arg \notin taken
    BY <1>1, <1>6, <1>7, <1>8, <1>9, <1>10, <2>1, ContentsType
       DEF Owns, OwnArguments, Keeps
  <2>3. \A i, j \in 1 .. Len(p) : n[p[i]].p_arg = n[p[j]].p_arg => i = j
    BY <1>6, <1>7, <1>8, <2>1 DEF Owns, OwnArguments
  <2> QED  BY <2>2, <2>3 DEF OwnArguments
<1>13. AllKnown(n, p, taken)
  <2>1. \A b \in taken : b \in Pool /\ n[b].is = "argument"
    BY <1>8, <1>10 DEF Keeps
  <2>2. ASSUME NEW b \in Pool, n[b] # Free, b \notin taken
        PROVE  \E i \in 1 .. Len(p) : b = p[i] \/ b = n[p[i]].p_arg
    <3>1. CASE b \in {arg, newarg}
      <4>1. Len(p) \in 1 .. Len(p) /\ p[Len(p)] = newarg /\ n[newarg].p_arg = arg
        BY <1>6, <1>7, <1>9, ContentsType
      <4> QED  BY <3>1, <4>1
    <3>2. CASE b \notin {arg, newarg}
      <4>1. m[b] # Free
        <5>1. CASE head # Null /\ b = q[Len(q)]
          <6>1. Len(q) \in 1 .. Len(q)
            BY <1>6, <5>1
          <6> QED  BY <1>8, <5>1, <6>1, ContentsType
        <5> QED  BY <1>9, <2>2, <3>2, <5>1
      <4>2. PICK i \in 1 .. Len(q) : b = q[i] \/ b = m[q[i]].p_arg
        BY <2>2, <4>1 DEF Owns, AllKnown
      <4>3. i \in 1 .. Len(p) /\ p[i] = q[i] /\ n[p[i]].p_arg = m[q[i]].p_arg
        BY <1>6, <1>7, <1>10, <4>2 DEF Keeps
      <4> QED  BY <4>2, <4>3
    <3> QED  BY <3>1, <3>2
  <2> QED  BY <2>1, <2>2 DEF AllKnown
<1>14. ValuesOf(n, p) = Append(ValuesOf(m, q), v)
  <2>1. /\ ValuesOf(m, q) = [i \in 1 .. Len(q) |-> m[m[q[i]].p_arg].value]
        /\ ValuesOf(n, p) = [i \in 1 .. Len(q) + 1 |-> n[n[p[i]].p_arg].value]
    BY <1>7 DEF ValuesOf
  <2>2. \A i \in 1 .. Len(q) : n[n[p[i]].p_arg].value = m[m[q[i]].p_arg].value
    BY <1>7, <1>10 DEF Keeps
  <2>3. n[n[p[Len(q) + 1]].p_arg].value = v
    BY <1>7, <1>9, ContentsType
  <2>4. \A i \in 1 .. Len(q) : m[m[q[i]].p_arg].value \in Values
    BY <1>8, ContentsType DEF Memories
  <2>5. ValuesOf(m, q) \in Seq(Values) /\ Len(ValuesOf(m, q)) = Len(q)
    BY <1>6, <2>1, <2>4
  <2>6. /\ Append(ValuesOf(m, q), v) \in Seq(Values)
        /\ Len(Append(ValuesOf(m, q), v)) = Len(q) + 1
        /\ \A i \in 1 .. Len(q) : Append(ValuesOf(m, q), v)[i] = ValuesOf(m, q)[i]
        /\ Append(ValuesOf(m, q), v)[Len(q) + 1] = v
    BY <2>5, AppendProperties
  <2>7. \A i \in 1 .. Len(q) + 1 : ValuesOf(n, p)[i] = Append(ValuesOf(m, q), v)[i]
    BY <1>6, <2>1, <2>2, <2>3, <2>6
  <2>8. ValuesOf(n, p) \in Seq(Values) /\ Len(ValuesOf(n, p)) = Len(q) + 1
    BY <1>6, <2>1, <2>2, <2>3, <2>4
  <2> QED  BY <2>6, <2>7, <2>8, SeqEqual
<1> QED  BY <1>3, <1>9, <1>11, <1>12, <1>13, <1>14
         DEF Owns, p

(* Freeing the first node of a list leaves the rest, and its argument is taken *)
LEMMA PopOwns ==
    ASSUME NEW m \in Memories, NEW head, NEW q, NEW taken,
           Owns(m, head, q, taken), head # Null,
           NEW n, n = Without(m, head),
           NEW p_arg, p_arg = m[head].p_arg
    PROVE  /\ n \in Memories
           /\ head \in Pool /\ m[head].is = "node" /\ m[head].next \in Pointers
           /\ p_arg \in Pool /\ m[p_arg].is = "argument" /\ p_arg \notin taken
           /\ n[p_arg] = m[p_arg]
           /\ Owns(n, m[head].next, Tail(q), taken \cup {p_arg})
           /\ ValuesOf(m, q) # <<>>
           /\ m[p_arg].value = Head(ValuesOf(m, q))
           /\ ValuesOf(n, Tail(q)) = Tail(ValuesOf(m, q))
<1> DEFINE l == Len(q)
           p == Tail(q)
<1>1. /\ l \in Nat \ {0} /\ q \in Seq(Pool) /\ q \in [1 .. l -> Pool]
      /\ q # <<>> /\ head = q[1]
  <2>1. l # 0 /\ q # <<>> /\ l \in Nat /\ q \in [1 .. l -> Pool]
    BY EmptyPath DEF Owns
  <2>2. head = q[1] /\ q \in Seq(Pool)
    BY <2>1 DEF Owns, IsPath
  <2> QED  BY <2>1, <2>2
<1>2. /\ \A i \in 1 .. l : m[q[i]].is = "node"
      /\ \A i \in 1 .. l : m[q[i]].next = IF i = l THEN Null ELSE q[i + 1]
      /\ \A i, j \in 1 .. l : q[i] = q[j] => i = j
  BY DEF Owns, IsPath
<1>3. /\ \A i \in 1 .. l : /\ m[q[i]].p_arg \in Pool
                           /\ m[m[q[i]].p_arg].is = "argument"
                           /\ m[q[i]].p_arg \notin taken
      /\ \A i, j \in 1 .. l : m[q[i]].p_arg = m[q[j]].p_arg => i = j
  BY DEF Owns, OwnArguments
<1>4. /\ p \in Seq(Pool) /\ Len(p) = l - 1
      /\ \A i \in 1 .. l - 1 : p[i] = q[i + 1]
  BY <1>1, HeadTailProperties
<1>5. 1 \in 1 .. l /\ head \in Pool /\ m[head].is = "node" /\ p_arg \in Pool
      /\ m[p_arg].is = "argument" /\ p_arg \notin taken
  <2>1. 1 \in 1 .. l
    BY <1>1
  <2>2. head \in Pool /\ m[head].is = "node"
    BY <1>1, <1>2, <2>1
  <2> QED  BY <1>1, <1>3, <2>1, <2>2
<1> HIDE DEF l, p
<1>6. /\ n \in Memories /\ n[head] = Free
      /\ \A b \in Pool \ {head} : n[b] = m[b]
  BY <1>5, ContentsType DEF Memories, Without
<1>7. ASSUME NEW i \in 1 .. l - 1
      PROVE  /\ i + 1 \in 1 .. l /\ p[i] = q[i + 1] /\ q[i + 1] \in Pool \ {head}
             /\ n[p[i]] = m[q[i + 1]]
             /\ m[q[i + 1]].p_arg \in Pool \ {head, p_arg}
             /\ n[m[q[i + 1]].p_arg] = m[m[q[i + 1]].p_arg]
  <2>1. i + 1 \in 1 .. l /\ i + 1 # 1 /\ 1 \in 1 .. l
    BY <1>1
  <2>2. p[i] = q[i + 1]
    BY <1>4
  <2>3. q[i + 1] \in Pool /\ q[i + 1] # head
    BY <1>1, <1>2, <2>1
  <2>4. m[q[i + 1]].p_arg # p_arg
    BY <1>1, <1>3, <2>1
  <2>5. m[q[i + 1]].p_arg \in Pool /\ m[q[i + 1]].p_arg # head
    BY <1>3, <1>5, <2>1
  <2> QED  BY <1>6, <2>1, <2>2, <2>3, <2>4, <2>5
<1>8. IsPath(n, m[head].next, p)
  <2>1. \A i, j \in 1 .. Len(p) : p[i] = p[j] => i = j
    <3>1. SUFFICES ASSUME NEW i \in 1 .. l - 1, NEW j \in 1 .. l - 1, p[i] = p[j]
                   PROVE  i = j
      BY <1>4
    <3>2. q[i + 1] = q[j + 1] /\ i + 1 \in 1 .. l /\ j + 1 \in 1 .. l
      BY <1>7, <3>1
    <3>3. i + 1 = j + 1
      BY <1>2, <3>2
    <3> QED  BY <3>3
  <2>2. m[head].next = IF p = <<>> THEN Null ELSE p[1]
    <3>1. m[head].next = IF l = 1 THEN Null ELSE q[2]
      BY <1>1, <1>2, <1>5
    <3>2. p = <<>> <=> l = 1
      BY <1>1, <1>4, EmptySeq
    <3>3. l # 1 => p[1] = q[2]
      <4>1. SUFFICES ASSUME l # 1 PROVE p[1] = q[1 + 1]
        OBVIOUS
      <4>2. 1 \in 1 .. l - 1
        BY <1>1, <4>1
      <4> QED  BY <1>7, <4>2
    <3> QED  BY <3>1, <3>2, <3>3
  <2>3. ASSUME NEW i \in 1 .. Len(p)
        PROVE  /\ n[p[i]].is = "node"
               /\ n[p[i]].next = IF i = Len(p) THEN Null ELSE p[i + 1]
    <3>1. i \in 1 .. l - 1 /\ Len(p) = l - 1 /\ l \in Nat
      BY <1>1, <1>4
    <3>2. n[p[i]] = m[q[i + 1]] /\ i + 1 \in 1 .. l
      BY <1>7, <3>1
    <3>3. /\ m[q[i + 1]].is = "node"
          /\ m[q[i + 1]].next = IF i + 1 = l THEN Null ELSE q[i + 1 + 1]
      BY <1>2, <3>2
    <3>4. i # Len(p) => p[i + 1] = q[i + 1 + 1]
      <4>1. i # Len(p) => i + 1 \in 1 .. l - 1
        BY <3>1
      <4> QED  BY <1>7, <4>1
    <3>5. i = Len(p) <=> i + 1 = l
      BY <3>1
    <3> QED  BY <3>2, <3>3, <3>4, <3>5
  <2> QED  BY <1>4, <2>1, <2>2, <2>3 DEF IsPath
<1>9. OwnArguments(n, p, taken \cup {p_arg})
  <2>1. ASSUME NEW i \in 1 .. Len(p)
        PROVE  /\ n[p[i]].p_arg \in Pool
               /\ n[n[p[i]].p_arg].is = "argument"
               /\ n[p[i]].p_arg \notin taken \cup {p_arg}
    <3>1. i \in 1 .. l - 1
      BY <1>4
    <3>2. /\ n[p[i]].p_arg = m[q[i + 1]].p_arg /\ i + 1 \in 1 .. l
          /\ m[q[i + 1]].p_arg # p_arg /\ m[q[i + 1]].p_arg \in Pool
          /\ n[m[q[i + 1]].p_arg] = m[m[q[i + 1]].p_arg]
      BY <1>7, <3>1
    <3> QED  BY <1>3, <3>2
  <2>2. \A i, j \in 1 .. Len(p) : n[p[i]].p_arg = n[p[j]].p_arg => i = j
    <3>1. SUFFICES ASSUME NEW i \in 1 .. l - 1, NEW j \in 1 .. l - 1,
                          n[p[i]].p_arg = n[p[j]].p_arg
                   PROVE  i = j
      BY <1>4
    <3>2. /\ m[q[i + 1]].p_arg = m[q[j + 1]].p_arg
          /\ i + 1 \in 1 .. l /\ j + 1 \in 1 .. l
      BY <1>7, <3>1
    <3>3. i + 1 = j + 1
      BY <1>3, <3>2
    <3> QED  BY <3>3
  <2> QED  BY <2>1, <2>2 DEF OwnArguments
<1>10. AllKnown(n, p, taken \cup {p_arg})
  <2>1. \A b \in taken : b \in Pool /\ m[b].is = "argument"
    BY DEF Owns, AllKnown
  <2>2. \A b \in taken \cup {p_arg} : b \in Pool /\ n[b].is = "argument"
    BY <1>5, <1>6, <2>1
  <2>3. ASSUME NEW b \in Pool, n[b] # Free, b \notin taken \cup {p_arg}
        PROVE  \E i \in 1 .. Len(p) : b = p[i] \/ b = n[p[i]].p_arg
    <3>1. b # head /\ m[b] # Free
      BY <1>6, <2>3
    <3>2. PICK k \in 1 .. l : b = q[k] \/ b = m[q[k]].p_arg
      BY <2>3, <3>1 DEF Owns, AllKnown, l
    <3>3. k # 1
      BY <1>1, <2>3, <3>1, <3>2
    <3>4. k - 1 \in 1 .. l - 1 /\ k - 1 + 1 = k
      BY <1>1, <3>2, <3>3
    <3>5. k - 1 \in 1 .. Len(p) /\ p[k - 1] = q[k] /\ n[p[k - 1]] = m[q[k]]
      BY <1>4, <1>7, <3>4
    <3> QED  BY <3>2, <3>5
  <2> QED  BY <2>2, <2>3 DEF AllKnown
<1>11. /\ ValuesOf(m, q) # <<>>
       /\ m[p_arg].value = Head(ValuesOf(m, q))
       /\ ValuesOf(n, p) = Tail(ValuesOf(m, q))
  <2> DEFINE w == ValuesOf(m, q)
             x == ValuesOf(n, p)
  <2>1. /\ w = [i \in 1 .. l |-> m[m[q[i]].p_arg].value]
        /\ x = [i \in 1 .. l - 1 |-> n[n[p[i]].p_arg].value]
    BY <1>4 DEF ValuesOf, l
  <2>2. \A i \in 1 .. l : m[m[q[i]].p_arg].value \in Values
    BY <1>3, ContentsType DEF Memories
  <2> HIDE DEF w, x
  <2>3. w \in [1 .. l -> Values]
    BY <2>1, <2>2
  <2>4. w \in Seq(Values) /\ Len(w) = l
    BY <1>1, <2>3
  <2>5. w # <<>>
    BY <1>1, <2>4, EmptySeq
  <2>6. /\ Tail(w) \in Seq(Values) /\ Len(Tail(w)) = l - 1
        /\ \A i \in 1 .. l - 1 : Tail(w)[i] = w[i + 1]
    BY <2>4, <2>5, HeadTailProperties
  <2>7. ASSUME NEW i \in 1 .. l - 1 PROVE x[i] = w[i + 1] /\ x[i] \in Values
    <3>1. x[i] = n[n[p[i]].p_arg].value
      BY <2>1
    <3>2. n[n[p[i]].p_arg] = m[m[q[i + 1]].p_arg] /\ i + 1 \in 1 .. l
      BY <1>7
    <3> QED  BY <2>1, <2>2, <3>1, <3>2
  <2>8. x \in [1 .. l - 1 -> Values] /\ l - 1 \in Nat
    <3>1. l - 1 \in Nat
      BY <1>1
    <3>2. x = [i \in 1 .. l - 1 |-> x[i]]
      BY <2>1
    <3> QED  BY <2>7, <3>1, <3>2
  <2>9. x \in Seq(Values) /\ Len(x) = l - 1
    BY <2>8
  <2>10. \A i \in 1 .. l - 1 : x[i] = Tail(w)[i]
    BY <2>6, <2>7
  <2>11. x = Tail(w)
    BY <2>6, <2>9, <2>10, SeqEqual
  <2>12. Head(w) = w[1]
    BY <2>4, <2>5
  <2>13. w[1] = m[p_arg].value
    BY <1>1, <1>5, <2>1
  <2> QED  BY <2>5, <2>11, <2>12, <2>13 DEF w, x
<1>12. m[head].next \in Pointers
  BY <1>5, ContentsType DEF Memories
<1>13. n[p_arg] = m[p_arg]
  BY <1>5, <1>6
<1> QED  BY <1>5, <1>6, <1>8, <1>9, <1>10, <1>11, <1>12, <1>13 DEF Owns, p

(* Freeing an argument that was taken leaves the list as it is *)
LEMMA FreeOwns ==
    ASSUME NEW m \in Memories, NEW head, NEW q, NEW taken, NEW b \in taken,
           Owns(m, head, q, taken), NEW n, n = Without(m, b)
    PROVE  /\ n \in Memories
           /\ Owns(n, head, q, taken \ {b})
           /\ ValuesOf(n, q) = ValuesOf(m, q)
<1> DEFINE l == Len(q)
<1>1. /\ b \in Pool /\ m[b].is = "argument"
      /\ \A c \in taken : c \in Pool /\ m[c].is = "argument"
      /\ \A c \in Pool :
           m[c] # Free => c \in taken \/ \E i \in 1 .. l : c = q[i] \/ c = m[q[i]].p_arg
  BY DEF Owns, AllKnown
<1>2. n \in Memories /\ n[b] = Free /\ \A c \in Pool \ {b} : n[c] = m[c]
  BY <1>1, ContentsType DEF Memories, Without
<1>3. l \in Nat /\ q \in [1 .. l -> Pool]
  BY EmptyPath DEF Owns
<1>4. \A i \in 1 .. l : m[q[i]].is = "node" /\ q[i] # b /\ q[i] \in Pool
  BY <1>1, <1>3 DEF Owns, IsPath
<1>5. \A i \in 1 .. l : m[q[i]].p_arg \in Pool /\ m[q[i]].p_arg # b
  BY DEF Owns, OwnArguments
<1>6. \A i \in 1 .. l : n[q[i]] = m[q[i]] /\ n[m[q[i]].p_arg] = m[m[q[i]].p_arg]
  BY <1>2, <1>4, <1>5
<1>7. IsPath(n, head, q)
  BY <1>6 DEF Owns, IsPath
<1>8. OwnArguments(n, q, taken \ {b})
  BY <1>6 DEF Owns, OwnArguments
<1>9. AllKnown(n, q, taken \ {b})
  BY <1>1, <1>2, <1>6 DEF AllKnown
<1>10. ValuesOf(n, q) = ValuesOf(m, q)
  BY <1>6 DEF ValuesOf
<1> QED  BY <1>2, <1>7, <1>8, <1>9, <1>10 DEF Owns

(* A list takes two blocks for each of its nodes *)
LEMMA Capacity ==
    ASSUME NEW m, NEW head, NEW q, NEW taken, Owns(m, head, q, taken)
    PROVE  Len(q) <= Blocks \div 2
<1> DEFINE l == Len(q)
           f == [i \in 1 .. 2 * l |-> IF i <= l THEN q[i] ELSE m[q[i - l]].p_arg]
<1>1. l \in Nat /\ q \in [1 .. l -> Pool] /\ Blocks \in Nat
  BY EmptyPath, ArgListAssumption DEF Owns
<1>2. /\ \A i \in 1 .. l : m[q[i]].is = "node"
      /\ \A i, j \in 1 .. l : q[i] = q[j] => i = j
  BY DEF Owns, IsPath
<1>3. /\ \A i \in 1 .. l : m[q[i]].p_arg \in Pool /\ m[m[q[i]].p_arg].is = "argument"
      /\ \A i, j \in 1 .. l : m[q[i]].p_arg = m[q[j]].p_arg => i = j
  BY DEF Owns, OwnArguments
<1> HIDE DEF l
<1>4. ASSUME NEW i \in 1 .. 2 * l
      PROVE  /\ i <= l => i \in 1 .. l /\ f[i] = q[i] /\ m[f[i]].is = "node"
             /\ ~ (i <= l) => i - l \in 1 .. l /\ f[i] = m[q[i - l]].p_arg
                              /\ m[f[i]].is = "argument"
             /\ f[i] \in Pool
  <2>1. CASE i <= l
    <3>1. i \in 1 .. l /\ f[i] = q[i]
      BY <1>1, <2>1
    <3> QED  BY <1>1, <1>2, <2>1, <3>1
  <2>2. CASE ~ (i <= l)
    <3>1. i - l \in 1 .. l /\ f[i] = m[q[i - l]].p_arg
      BY <1>1, <2>2
    <3> QED  BY <1>3, <2>2, <3>1
  <2> QED  BY <2>1, <2>2
<1>5. f = [i \in 1 .. 2 * l |-> f[i]]
  OBVIOUS
<1> HIDE DEF f
<1>6. ASSUME NEW i \in 1 .. 2 * l, NEW j \in 1 .. 2 * l, f[i] = f[j]
      PROVE  i = j
  <2>1. CASE i <= l /\ j <= l
    BY <1>2, <1>4, <1>6, <2>1
  <2>2. CASE ~ (i <= l) /\ ~ (j <= l)
    <3>1. i - l \in 1 .. l /\ j - l \in 1 .. l /\ m[q[i - l]].p_arg = m[q[j - l]].p_arg
      BY <1>4, <1>6, <2>2
    <3>2. i - l = j - l
      BY <1>3, <3>1
    <3> QED  BY <1>1, <3>2
  <2>3. CASE (i <= l) # (j <= l)
    BY <1>4, <1>6, <2>3
  <2> QED  BY <2>1, <2>2, <2>3
<1>7. f \in Injection(1 .. 2 * l, Pool)
  BY <1>4, <1>5, <1>6 DEF Injection, IsInjective
<1>8. IsFiniteSet(Pool) /\ Cardinality(Pool) = Blocks
  BY FS_Interval, ArgListAssumption DEF Pool
<1>9. Cardinality(1 .. 2 * l) <= Blocks
  BY <1>7, <1>8, FS_Injection
<1>10. Cardinality(1 .. 2 * l) = 2 * l
  <2>1. 2 * l \in Nat
    BY <1>1
  <2> QED  BY <2>1, FS_Interval
<1>11. 2 * l <= Blocks
  BY <1>9, <1>10
<1>12. l <= Blocks \div 2
  BY <1>1, <1>11
<1> QED  BY <1>12 DEF l

(* A list has as many arguments as nodes *)
LEMMA ArgumentPerNode ==
    ASSUME NEW m, NEW head, NEW q, NEW taken, Owns(m, head, q, taken)
    PROVE  Cardinality(Arguments(m, head)) = Len(q)
<1> DEFINE l == Len(q)
           f == [i \in 1 .. l |-> m[q[i]].p_arg]
           S == {m[q[i]].p_arg : i \in 1 .. l}
<1>1. l \in Nat /\ q \in [1 .. l -> Pool] /\ Nodes(m, head) = q
  BY EmptyPath, PathNodes DEF Owns
<1>2. \A i, j \in 1 .. l : m[q[i]].p_arg = m[q[j]].p_arg => i = j
  BY DEF Owns, OwnArguments
<1>3. Arguments(m, head) = S
  <2>1. DOMAIN q = 1 .. l
    BY <1>1
  <2> QED  BY <1>1, <2>1 DEF Arguments
<1>4. f \in Bijection(1 .. l, S)
  BY <1>2 DEF Bijection, Injection, IsInjective, Surjection
<1>5. ExistsBijection(1 .. l, S)
  BY <1>4 DEF ExistsBijection
<1>6. Cardinality(S) = l
  BY <1>1, <1>5, FS_CountingElements
<1> QED  BY <1>3, <1>6

(* The directives that take an argument, counted from either end *)
LEMMA TakesOfTail ==
    ASSUME NEW format \in Seq(Directives)
    PROVE  /\ Takes(format) \in Nat
           /\ format = <<>> => Takes(format) = 0
           /\ format # <<>> =>
                Takes(format) = Takes(Tail(format))
                                + (IF Head(format) \in {"tested", "untested"} THEN 1 ELSE 0)
<1> DEFINE At(f) == {i \in DOMAIN f : f[i] \in {"tested", "untested"}}
           l == Len(format)
<1>1. ASSUME NEW f \in Seq(Directives)
      PROVE  IsFiniteSet(At(f)) /\ Cardinality(At(f)) \in Nat /\ Takes(f) = Cardinality(At(f))
  <2>1. Len(f) \in Int /\ DOMAIN f = 1 .. Len(f)
    BY LenProperties
  <2>2. IsFiniteSet(1 .. Len(f))
    BY <2>1, FS_Interval
  <2>3. At(f) \subseteq 1 .. Len(f)
    BY <2>1
  <2>4. IsFiniteSet(At(f))
    BY <2>2, <2>3, FS_Subset
  <2> QED  BY <2>4, FS_CardinalityType DEF Takes
<1>2. ASSUME format = <<>> PROVE Takes(format) = 0
  <2>1. At(format) = {}
    BY <1>2
  <2> QED  BY <1>1, <2>1, FS_EmptySet
<1>3. ASSUME format # <<>>
      PROVE  Takes(format) = Takes(Tail(format))
                             + (IF Head(format) \in {"tested", "untested"} THEN 1 ELSE 0)
  <2> DEFINE t == Tail(format)
             S == At(format) \ {1}
             f == [i \in At(t) |-> i + 1]
  <2>1. /\ l \in Nat \ {0} /\ DOMAIN format = 1 .. l
        /\ t \in Seq(Directives) /\ Len(t) = l - 1 /\ DOMAIN t = 1 .. l - 1
        /\ \A i \in 1 .. l - 1 : t[i] = format[i + 1]
        /\ Head(format) = format[1]
    <3>1. l \in Nat \ {0} /\ DOMAIN format = 1 .. l
      BY <1>3, EmptySeq, LenProperties
    <3>2. /\ t \in Seq(Directives) /\ Len(t) = l - 1
          /\ \A i \in 1 .. l - 1 : t[i] = format[i + 1]
      BY <1>3, HeadTailProperties
    <3>3. DOMAIN t = 1 .. l - 1
      BY <3>2, LenProperties
    <3> QED  BY <1>3, <3>1, <3>2, <3>3
  <2> HIDE DEF t, l
  <2>2. \A i \in At(t) : i \in Int /\ i + 1 \in S
    BY <2>1
  <2>3. \A k \in S : k \in Int /\ k - 1 \in At(t) /\ k - 1 + 1 = k
    BY <2>1
  <2> HIDE DEF S
  <2>4. f \in Bijection(At(t), S)
    <3> HIDE DEF At
    <3>1. f \in [At(t) -> S]
      BY <2>2
    <3>2. \A i, j \in At(t) : f[i] = f[j] => i = j
      BY <2>2
    <3>3. \A k \in S : \E i \in At(t) : f[i] = k
      BY <2>3
    <3> QED  BY <3>1, <3>2, <3>3 DEF Bijection, Injection, IsInjective, Surjection
  <2>5. Cardinality(S) = Cardinality(At(t))
    <3>1. ExistsBijection(At(t), S)
      BY <2>4 DEF ExistsBijection
    <3>2. IsFiniteSet(At(t))
      BY <1>1, <2>1
    <3> HIDE DEF At
    <3> QED  BY <3>1, <3>2, FS_Bijection
  <2>6. Cardinality(S) = IF 1 \in At(format) THEN Cardinality(At(format)) - 1
                         ELSE Cardinality(At(format))
    <3>1. IsFiniteSet(At(format))
      BY <1>1
    <3> HIDE DEF At
    <3> QED  BY <3>1, FS_RemoveElement DEF S
  <2>7. 1 \in At(format) <=> Head(format) \in {"tested", "untested"}
    BY <2>1
  <2>8. /\ Takes(format) = Cardinality(At(format)) /\ Cardinality(At(format)) \in Nat
        /\ Takes(t) = Cardinality(At(t))
    BY <1>1, <2>1
  <2> HIDE DEF At
  <2> QED  BY <2>5, <2>6, <2>7, <2>8 DEF t
<1> QED  BY <1>1, <1>2, <1>3

------------------------------------------------------------------------------
(* The steps *)

FifoStep == [F!Next]_<<Queue, Out>>

(* Queue is the values of the path, when there is one *)
LEMMA QueueOf ==
    ASSUME NEW m, NEW head, NEW q, IsPath(m, head, q)
    PROVE  [i \in DOMAIN Nodes(m, head) |-> m[m[Nodes(m, head)[i]].p_arg].value]
             = ValuesOf(m, q)
<1>1. Nodes(m, head) = q /\ DOMAIN q = 1 .. Len(q)
  BY PathNodes, EmptyPath
<1> QED  BY <1>1 DEF ValuesOf

(* What leads to no node, or to null, is the empty queue *)
LEMMA QueueOfNone ==
    ASSUME NEW m, NEW head, ~ IsNode(m, head)
    PROVE  [i \in DOMAIN Nodes(m, head) |-> m[m[Nodes(m, head)[i]].p_arg].value] = <<>>
<1>1. Nodes(m, head) = <<>> /\ DOMAIN <<>> = {}
  BY NoNodes
<1>2. [i \in {} |-> m[m[Nodes(m, head)[i]].p_arg].value] = <<>>
  OBVIOUS
<1> QED  BY <1>1, <1>2

LEMMA NoNodeAt ==
    ASSUME NEW m, NEW b, b = Null \/ m[b] = Free
    PROVE  ~ IsNode(m, b)
BY PoolType, ContentsType DEF IsNode

(* The empty path, and the path from null *)
LEMMA NullPath ==
    ASSUME NEW m, NEW q, IsPath(m, Null, q)
    PROVE  q = <<>> /\ Len(q) = 0 /\ ValuesOf(m, q) = <<>>
<1>1. q = <<>> /\ Len(q) = 0
  BY EmptyPath
<1>2. ValuesOf(m, q) = [i \in 1 .. 0 |-> m[m[q[i]].p_arg].value]
  BY <1>1 DEF ValuesOf
<1> QED  BY <1>1, <1>2

(* The list as the program has it before a step *)
LEMMA ListNow ==
    ASSUME IInv, pc # "halted"
    PROVE  \E q : /\ q = Nodes(mem, Current) /\ Owns(mem, Current, q, Taken)
                  /\ IsPath(mem, Current, q) /\ Queue = ValuesOf(mem, q)
<1> DEFINE q == Nodes(mem, Current)
<1>1. Owns(mem, Current, q, Taken)
  BY DEF IInv, Lists
<1>2. IsPath(mem, Current, q)
  BY <1>1 DEF Owns
<1>3. Queue = ValuesOf(mem, q)
  BY <1>2, QueueOf DEF Queue
<1> QED  BY <1>1, <1>2, <1>3

(* The list after a step, if it is known what it is *)
LEMMA ListThen ==
    ASSUME NEW q, Owns(mem', Current', q, Taken')
    PROVE  /\ Lists' /\ Nodes(mem', Current') = q /\ Queue' = ValuesOf(mem', q)
<1>1. IsPath(mem', Current', q)
  BY DEF Owns
<1>2. Nodes(mem', Current') = q
  BY <1>1, PathNodes
<1>3. Queue' = ValuesOf(mem', q)
  BY <1>1, QueueOf DEF Queue
<1>4. Lists'
  BY <1>2 DEF Lists
<1> QED  BY <1>2, <1>3, <1>4

LEMMA PushStep ==
    ASSUME IInv, NEW v \in Values, arg_push(v)
    PROVE  IInv' /\ FifoStep
<1>1. /\ pc = "caller" /\ args = Null /\ poppedArg = Null /\ Current = list
      /\ args' = args /\ fmt' = fmt /\ poppedArg' = poppedArg
      /\ flushed' = flushed /\ misfreed' = misfreed
  BY DEF arg_push, IInv, Control, Current
<1>2. PICK q : /\ Owns(mem, list, q, Taken) /\ IsPath(mem, list, q)
               /\ Queue = ValuesOf(mem, q)
  BY <1>1, ListNow
<1>3. mem \in Memories /\ list \in Pointers
  BY DEF IInv, Typed, Memories
<1>4. Taken' = Taken /\ Out = <<>>
  BY <1>1 DEF Taken, Out
<1> DEFINE arg == malloc(mem)
           made == Put(mem, arg, Argument(v))
           newarg == malloc(made)
<1>5. CASE newarg = Null
  <2>1. mem' = made /\ pc' = "halted" /\ list' = list
    BY <1>5 DEF arg_push
  <2>2. \/ made = mem
        \/ arg \in Pool /\ mem[arg] = Free /\ made = [mem EXCEPT ![arg] = Argument(v)]
    BY MallocFinds, PoolType DEF Put
  <2> HIDE DEF arg, made
  <2>3. made \in Memories
    BY <1>3, <2>2, ContentsType DEF Memories
  <2>4. \A b \in Pool : mem[b].is # "free" => made[b] = mem[b]
    BY <1>3, <2>2, ContentsType DEF Memories
  <2>5. /\ \A i \in 1 .. Len(q) : mem[q[i]].is = "node" /\ q[i] \in Pool
        /\ \A i \in 1 .. Len(q) : /\ mem[q[i]].p_arg \in Pool
                                  /\ mem[mem[q[i]].p_arg].is = "argument"
    <3>1. \A i \in 1 .. Len(q) : mem[q[i]].is = "node" /\ q[i] \in Pool
      BY <1>2, EmptyPath DEF IsPath
    <3>2. \A i \in 1 .. Len(q) : /\ mem[q[i]].p_arg \in Pool
                                 /\ mem[mem[q[i]].p_arg].is = "argument"
      BY <1>2 DEF Owns, OwnArguments
    <3> QED  BY <3>1, <3>2
  <2>6. \A i \in 1 .. Len(q) : /\ made[q[i]] = mem[q[i]]
                               /\ made[mem[q[i]].p_arg] = mem[mem[q[i]].p_arg]
    BY <2>4, <2>5
  <2>7. IsPath(made, list, q) /\ ValuesOf(made, q) = ValuesOf(mem, q)
    BY <1>2, <2>6 DEF IsPath, ValuesOf
  <2>8. Current' = list
    BY <1>1, <2>1 DEF Current
  <2>9. Queue' = Queue
    BY <1>2, <2>1, <2>7, <2>8, QueueOf DEF Queue
  <2>10. Out' = Out
    BY <1>4, <2>1 DEF Out
  <2>11. Typed' /\ Lists' /\ Control'
    BY <1>1, <2>1, <2>3 DEF IInv, Typed, Memories, Lists, Control
  <2> QED  BY <2>9, <2>10, <2>11 DEF IInv, FifoStep
<1>6. CASE newarg # Null
  <2> DEFINE to == IF list = Null THEN newarg ELSE list
             p == Append(q, newarg)
  <2>1. mem' = Pushed(mem, list, v) /\ list' = to /\ pc' = pc
    BY <1>6 DEF arg_push, Pushed
  <2>2. /\ mem' \in Memories /\ newarg \in Pool
        /\ Owns(mem', to, p, Taken)
        /\ ValuesOf(mem', p) = Append(ValuesOf(mem, q), v)
    <3>1. PICK a : a = newarg
      OBVIOUS
    <3>2. PICK b : b = to
      OBVIOUS
    <3>3. PICK n : n = mem'
      OBVIOUS
    <3>4. a = malloc(Put(mem, malloc(mem), Argument(v))) /\ a # Null
      BY <1>6, <3>1
    <3>5. b = IF list = Null THEN a ELSE list
      BY <3>1, <3>2
    <3>6. n = Pushed(mem, list, v)
      BY <2>1, <3>3
    <3> HIDE DEF newarg, to
    <3>7. /\ n \in Memories /\ a \in Pool /\ Owns(n, b, Append(q, a), Taken)
          /\ ValuesOf(n, Append(q, a)) = Append(ValuesOf(mem, q), v)
      BY <1>2, <1>3, <3>4, <3>5, <3>6, PushOwns
    <3> QED  BY <3>1, <3>2, <3>3, <3>7
  <2> HIDE DEF newarg
  <2>3. Current' = to
    BY <1>1, <2>1 DEF Current
  <2> HIDE DEF to
  <2>4. Lists' /\ Queue' = ValuesOf(mem', p)
    BY <1>4, <2>2, <2>3, ListThen
  <2>5. Queue' = Append(Queue, v)
    BY <1>2, <2>2, <2>4
  <2>6. Len(Queue) < Blocks \div 2
    <3>1. q \in Seq(Pool) /\ Len(q) \in Nat
      BY <1>2, EmptyPath DEF IsPath
    <3>2. Len(p) = Len(q) + 1
      BY <2>2, <3>1, AppendProperties
    <3>3. Len(p) <= Blocks \div 2
      BY <2>2, Capacity
    <3>4. Len(Queue) = Len(q)
      <4>1. Queue = [i \in 1 .. Len(q) |-> mem[mem[q[i]].p_arg].value]
        BY <1>2 DEF ValuesOf
      <4> QED  BY <3>1, <4>1
    <3> QED  BY <3>1, <3>2, <3>3, <3>4, ArgListAssumption
  <2>7. Out' = Out
    BY <1>1, <1>4 DEF Out
  <2>8. F!Push(v)
    BY <2>5, <2>6, <2>7 DEF F!Push
  <2>9. to \in Pointers
    BY <1>3, <2>2, PoolType DEF to
  <2>10. Typed' /\ Control'
    BY <1>1, <2>1, <2>2, <2>9 DEF IInv, Typed, Memories, Control
  <2> QED  BY <2>4, <2>8, <2>10 DEF IInv, FifoStep, F!Next
<1> QED  BY <1>5, <1>6

LEMMA CallStep ==
    ASSUME IInv,
           \/ \E format \in Formats : Len(Nodes(mem, list)) <= Takes(format) /\ kprintf(format)
           \/ arg_flush
    PROVE  IInv' /\ FifoStep
<1>1. /\ pc = "caller" /\ args = Null /\ poppedArg = Null /\ Current = list
      /\ pc' \in {"kprintf", "arg_flush"} /\ args' = list /\ list' = list
      /\ mem' = mem /\ poppedArg' = poppedArg
      /\ flushed' = flushed /\ misfreed' = misfreed
  BY DEF kprintf, arg_flush, IInv, Control, Current
<1>2. PICK q : Owns(mem, list, q, Taken) /\ Queue = ValuesOf(mem, q)
  BY <1>1, ListNow
<1>3. Current' = list /\ Taken' = Taken /\ Out' = Out
  BY <1>1 DEF Current, Taken, Out
<1>4. Lists' /\ Queue' = Queue
  BY <1>1, <1>2, <1>3, ListThen
<1>5. fmt' \in Seq(Directives) /\ (pc' = "kprintf" => Len(Nodes(mem, list)) <= Takes(fmt'))
  BY ArgListAssumption DEF kprintf, arg_flush, IInv, Typed
<1>6. Null \notin flushed
  BY PoolType DEF IInv, Typed
<1>7. Typed' /\ Control'
  BY <1>1, <1>5, <1>6 DEF IInv, Typed, Control
<1> QED  BY <1>3, <1>4, <1>7 DEF IInv, FifoStep

(* A pop from the list args; taken is what was taken from it before *)
LEMMA PopStep ==
    ASSUME IInv, arg_pop, NEW q, NEW taken, Owns(mem, args, q, taken)
    PROVE  /\ misfreed' = misfreed
           /\ mem' \in Memories /\ args' \in Pointers /\ poppedArg' \in Pointers
           /\ \/ /\ args = Null /\ q = <<>> /\ mem' = mem
                 /\ args' = Null /\ poppedArg' = Null
              \/ /\ args # Null /\ mem' = [mem EXCEPT ![args] = Free] /\ args \in Pool
                 /\ poppedArg' \in Pool /\ poppedArg' \notin taken
                 /\ Owns(mem', args', Tail(q), taken \cup {poppedArg'})
                 /\ ValuesOf(mem, q) # <<>>
                 /\ mem'[poppedArg'].value = Head(ValuesOf(mem, q))
                 /\ ValuesOf(mem', Tail(q)) = Tail(ValuesOf(mem, q))
<1>1. mem \in Memories /\ Null \in Pointers /\ Pool \subseteq Pointers
  BY PoolType DEF IInv, Typed, Memories
<1>2. CASE args = Null
  <2>1. q = <<>>
    BY <1>2, NullPath DEF Owns
  <2>2. mem' = mem /\ args' = Null /\ poppedArg' = Null /\ misfreed' = misfreed
    BY <1>2 DEF arg_pop, free, IInv, Typed
  <2> QED  BY <1>1, <1>2, <2>1, <2>2
<1>3. CASE args # Null
  <2>1. mem' = [mem EXCEPT ![args] = Free] /\ args' = mem[args].next
        /\ poppedArg' = mem[args].p_arg
        /\ misfreed' = (misfreed \/ mem[args] = Free)
    BY <1>3 DEF arg_pop, free
  <2>2. /\ mem' \in Memories
        /\ args \in Pool /\ mem[args].is = "node" /\ mem[args].next \in Pointers
        /\ poppedArg' \in Pool /\ poppedArg' \notin taken
        /\ mem'[poppedArg'] = mem[poppedArg']
        /\ Owns(mem', args', Tail(q), taken \cup {poppedArg'})
        /\ ValuesOf(mem, q) # <<>>
        /\ mem[poppedArg'].value = Head(ValuesOf(mem, q))
        /\ ValuesOf(mem', Tail(q)) = Tail(ValuesOf(mem, q))
    <3>1. PICK n : n = mem'
      OBVIOUS
    <3>2. PICK a : a = poppedArg'
      OBVIOUS
    <3>3. n = Without(mem, args) /\ a = mem[args].p_arg
      BY <2>1, <3>1, <3>2 DEF Without
    <3>4. /\ n \in Memories
          /\ args \in Pool /\ mem[args].is = "node" /\ mem[args].next \in Pointers
          /\ a \in Pool /\ a \notin taken /\ n[a] = mem[a]
          /\ Owns(n, mem[args].next, Tail(q), taken \cup {a})
          /\ ValuesOf(mem, q) # <<>>
          /\ mem[a].value = Head(ValuesOf(mem, q))
          /\ ValuesOf(n, Tail(q)) = Tail(ValuesOf(mem, q))
      BY <1>1, <1>3, <3>3, PopOwns
    <3> QED  BY <2>1, <3>1, <3>2, <3>4
  <2>3. misfreed' = misfreed
    <3>1. mem[args] # Free
      BY <2>2, ContentsType
    <3> QED  BY <2>1, <3>1 DEF IInv, Typed
  <2> QED  BY <1>1, <1>3, <2>1, <2>2, <2>3
<1> QED  BY <1>2, <1>3

(* The argument of a directive is popped, or there is none *)
LEMMA DirectiveStep ==
    ASSUME IInv, kprintf_pop
    PROVE  IInv' /\ FifoStep
<1>1. /\ pc = "kprintf" /\ poppedArg = Null /\ Current = args /\ Taken = flushed
      /\ fmt # <<>> /\ Head(fmt) \in {"tested", "untested"} /\ fmt' = Tail(fmt)
      /\ pc' = (IF args = Null /\ Head(fmt) = "tested" THEN "halted" ELSE "freeing")
      /\ list' = list /\ flushed' = flushed /\ arg_pop
      /\ fmt \in Seq(Directives) /\ flushed \subseteq Pool /\ Out = <<>>
      /\ (list = args \/ (list \in Pool /\ mem[list] = Free))
  BY DEF kprintf_pop, Directive, IInv, Control, Typed, Current, Taken, Out
<1>2. PICK q : /\ q = Nodes(mem, args) /\ Owns(mem, args, q, flushed)
               /\ IsPath(mem, args, q) /\ Queue = ValuesOf(mem, q)
  BY <1>1, ListNow
<1>3. /\ fmt' \in Seq(Directives) /\ Takes(fmt') \in Nat
      /\ Takes(fmt) = Takes(fmt') + 1 /\ Len(q) <= Takes(fmt)
  <2>1. fmt' \in Seq(Directives)
    BY <1>1, HeadTailProperties
  <2> QED  BY <1>1, <1>2, <2>1, TakesOfTail DEF IInv, Control
<1>4. /\ misfreed' = misfreed
      /\ mem' \in Memories /\ args' \in Pointers /\ poppedArg' \in Pointers
  BY <1>1, <1>2, PopStep
<1>5. Typed'
  BY <1>1, <1>3, <1>4 DEF IInv, Typed, Memories
<1>6. CASE args = Null
  <2>1. q = <<>> /\ mem' = mem /\ args' = Null /\ poppedArg' = Null
    BY <1>1, <1>2, <1>6, PopStep
  <2>2. Out' = <<>> /\ Len(q) = 0 /\ Queue = <<>>
    BY <1>2, <1>6, <2>1, NullPath DEF Out
  <2>3. CASE pc' = "halted"
    <3>1. Current' = list /\ (list = Null \/ mem[list] = Free)
      BY <1>1, <1>6, <2>1, <2>3 DEF Current
    <3>2. Queue' = <<>>
      BY <2>1, <3>1, NoNodeAt, QueueOfNone DEF Queue
    <3>3. Lists' /\ Control'
      BY <2>3 DEF Lists, Control
    <3> QED  BY <1>1, <1>5, <2>2, <3>2, <3>3 DEF IInv, FifoStep
  <2>4. CASE pc' = "freeing"
    <3>1. Current' = args /\ Taken' = flushed
      BY <1>1, <1>6, <2>1, <2>4 DEF Current, Taken
    <3>2. Lists' /\ Queue' = Queue /\ Nodes(mem', args') = q
      BY <1>2, <1>6, <2>1, <3>1, ListThen
    <3>3. Control'
      <4>1. Len(Nodes(mem', args')) <= Takes(fmt')
        BY <1>3, <2>2, <3>2
      <4>2. list' = args' \/ (list' \in Pool /\ mem'[list'] = Free)
        BY <1>1, <1>6, <2>1
      <4>3. poppedArg' \notin flushed'
        BY <1>1, <2>1, PoolType
      <4> QED  BY <2>4, <4>1, <4>2, <4>3 DEF Control
    <3> QED  BY <1>1, <1>5, <2>2, <3>2, <3>3 DEF IInv, FifoStep
  <2> QED  BY <1>1, <2>3, <2>4
<1>7. CASE args # Null
  <2>1. /\ mem' = [mem EXCEPT ![args] = Free] /\ args \in Pool
        /\ poppedArg' \in Pool /\ poppedArg' \notin flushed
        /\ Owns(mem', args', Tail(q), flushed \cup {poppedArg'})
        /\ ValuesOf(mem, q) # <<>>
        /\ mem'[poppedArg'].value = Head(ValuesOf(mem, q))
        /\ ValuesOf(mem', Tail(q)) = Tail(ValuesOf(mem, q))
    BY <1>1, <1>2, <1>7, PopStep
  <2>2. pc' = "freeing" /\ poppedArg' # Null
    BY <1>1, <1>7, <2>1, PoolType
  <2>3. Current' = args' /\ Taken' = flushed \cup {poppedArg'}
    BY <1>1, <2>2 DEF Current, Taken
  <2>4. Lists' /\ Queue' = Tail(Queue) /\ Nodes(mem', args') = Tail(q)
    BY <1>2, <2>1, <2>3, ListThen
  <2>5. Out' = <<Head(Queue)>> /\ Queue # <<>>
    BY <1>2, <2>1, <2>2 DEF Out
  <2>6. F!Pop
    BY <2>4, <2>5 DEF F!Pop
  <2>7. Len(Tail(q)) <= Takes(fmt')
    <3>1. q \in Seq(Pool) /\ q # <<>> /\ Len(q) \in Nat
      BY <1>2, <1>7, EmptyPath DEF IsPath
    <3>2. Len(Tail(q)) = Len(q) - 1
      BY <3>1, HeadTailProperties
    <3> QED  BY <1>3, <3>1, <3>2
  <2>8. list \in Pool /\ mem'[list] = Free
    BY <1>1, <2>1 DEF IInv, Typed
  <2>9. Control'
    BY <1>1, <2>1, <2>2, <2>4, <2>7, <2>8 DEF Control
  <2> QED  BY <1>5, <2>4, <2>6, <2>9 DEF IInv, FifoStep, F!Next
<1> QED  BY <1>6, <1>7

(* The argument kprintf holds is not free *)
LEMMA PoppedInUse ==
    ASSUME IInv, pc = "freeing", poppedArg # Null
    PROVE  mem[poppedArg] # Free
<1>1. Taken = flushed \cup {poppedArg} /\ poppedArg \in Taken
  BY DEF IInv, Control, Taken
<1>2. PICK q : Owns(mem, Current, q, Taken)
  BY ListNow
<1> QED  BY <1>1, <1>2, ContentsType DEF Owns, AllKnown

(* The argument is freed after it was printed *)
LEMMA FreeStep ==
    ASSUME IInv, kprintf_free
    PROVE  IInv' /\ FifoStep
<1>1. /\ pc = "freeing" /\ pc' = "kprintf" /\ poppedArg' = Null
      /\ list' = list /\ args' = args /\ fmt' = fmt /\ flushed' = flushed
      /\ mem \in Memories /\ flushed \subseteq Pool /\ poppedArg \notin flushed
      /\ Current = args /\ Current' = args' /\ Taken' = flushed
  BY DEF kprintf_free, IInv, Typed, Memories, Control, Current, Taken
<1>2. PICK q : /\ q = Nodes(mem, args) /\ Owns(mem, args, q, Taken)
               /\ Queue = ValuesOf(mem, q)
  BY <1>1, ListNow
<1>3. /\ mem' \in Memories /\ misfreed' = misfreed
      /\ Owns(mem', args', q, Taken') /\ ValuesOf(mem', q) = ValuesOf(mem, q)
      /\ \A b \in Pool : mem[b] = Free => mem'[b] = Free
  <2>1. CASE poppedArg = Null
    <3>1. mem' = mem /\ misfreed' = misfreed
      BY <2>1 DEF kprintf_free, free, IInv, Typed
    <3>2. Taken' = Taken
      BY <1>1, <2>1 DEF Taken
    <3> QED  BY <1>1, <1>2, <3>1, <3>2
  <2>2. CASE poppedArg # Null
    <3>1. mem' = Without(mem, poppedArg)
          /\ misfreed' = (misfreed \/ mem[poppedArg] = Free)
      BY <2>2 DEF kprintf_free, free, Without
    <3>2. poppedArg \in Taken /\ Taken \ {poppedArg} = Taken'
      BY <1>1, <2>2 DEF Taken
    <3>3. mem' \in Memories /\ Owns(mem', args, q, Taken \ {poppedArg})
          /\ ValuesOf(mem', q) = ValuesOf(mem, q)
      <4>1. PICK n : n = mem'
        OBVIOUS
      <4>2. n \in Memories /\ Owns(n, args, q, Taken \ {poppedArg})
            /\ ValuesOf(n, q) = ValuesOf(mem, q)
        BY <1>1, <1>2, <3>1, <3>2, <4>1, FreeOwns
      <4> QED  BY <4>1, <4>2
    <3>4. mem[poppedArg] # Free
      BY <1>1, <2>2, PoppedInUse
    <3>5. misfreed' = misfreed
      BY <3>1, <3>4 DEF IInv, Typed
    <3>6. \A b \in Pool : mem[b] = Free => mem'[b] = Free
      BY <1>1, <3>1 DEF Without, Memories
    <3> QED  BY <1>1, <3>2, <3>3, <3>5, <3>6
  <2> QED  BY <2>1, <2>2
<1>4. Lists' /\ Queue' = Queue /\ Nodes(mem', args') = q
  BY <1>1, <1>2, <1>3, ListThen
<1>5. Out' = <<>>
  BY <1>1 DEF Out
<1>6. F!Take
  BY <1>4, <1>5 DEF F!Take
<1>7. Null \notin flushed
  BY <1>1, PoolType
<1>8. Control'
  BY <1>1, <1>2, <1>3, <1>4, <1>7 DEF IInv, Control
<1>9. Typed'
  BY <1>1, <1>3, PoolType DEF IInv, Typed, Memories
<1> QED  BY <1>4, <1>6, <1>8, <1>9 DEF IInv, FifoStep, F!Next

LEMMA PercentStep ==
    ASSUME IInv, kprintf_percent
    PROVE  IInv' /\ FifoStep
<1>1. /\ pc = "kprintf" /\ pc' = pc /\ poppedArg' = poppedArg /\ mem' = mem
      /\ list' = list /\ args' = args /\ flushed' = flushed /\ misfreed' = misfreed
      /\ fmt # <<>> /\ Head(fmt) = "percent" /\ fmt' = Tail(fmt)
      /\ fmt \in Seq(Directives)
  BY DEF kprintf_percent, Directive, IInv, Typed
<1>2. fmt' \in Seq(Directives) /\ Takes(fmt') = Takes(fmt)
  <2>1. fmt' \in Seq(Directives)
    BY <1>1, HeadTailProperties
  <2>2. Head(fmt) \notin {"tested", "untested"}
    BY <1>1
  <2>3. Takes(fmt) = Takes(fmt') + 0 /\ Takes(fmt') \in Nat
    BY <1>1, <2>1, <2>2, TakesOfTail
  <2> QED  BY <2>1, <2>3
<1>3. Current' = Current /\ Taken' = Taken /\ Out' = Out
  BY <1>1 DEF Current, Taken, Out
<1>4. Queue' = Queue
  BY <1>1, <1>3 DEF Queue
<1>5. Typed' /\ Lists' /\ Control'
  BY <1>1, <1>2, <1>3 DEF IInv, Typed, Lists, Control
<1> QED  BY <1>3, <1>4, <1>5 DEF IInv, FifoStep

LEMMA BadStep ==
    ASSUME IInv, kprintf_bad
    PROVE  IInv' /\ FifoStep
<1>1. /\ pc = "kprintf" /\ pc' = "halted" /\ poppedArg' = poppedArg /\ mem' = mem
      /\ list' = list /\ args' = args /\ flushed' = flushed /\ misfreed' = misfreed
      /\ fmt' = fmt /\ Current = args
      /\ (list = args \/ (list \in Pool /\ mem[list] = Free))
  BY DEF kprintf_bad, Directive, IInv, Control, Current
<1>2. Out = <<>> /\ Out' = <<>>
  BY <1>1 DEF IInv, Control, Out
<1>3. Queue' = Queue
  <2>1. CASE args # Null
    <3>1. Current' = args
      BY <1>1, <2>1 DEF Current
    <3> QED  BY <1>1, <3>1 DEF Queue
  <2>2. CASE args = Null
    <3>1. Current' = list /\ (list = Null \/ mem[list] = Free)
      BY <1>1, <2>2 DEF Current
    <3>2. Queue' = <<>>
      BY <1>1, <3>1, NoNodeAt, QueueOfNone DEF Queue
    <3>3. Queue = <<>>
      BY <1>1, <2>2, NoNodeAt, QueueOfNone DEF Queue
    <3> QED  BY <3>2, <3>3
  <2> QED  BY <2>1, <2>2
<1>4. Typed' /\ Lists' /\ Control'
  BY <1>1 DEF IInv, Typed, Lists, Control
<1> QED  BY <1>2, <1>3, <1>4 DEF IInv, FifoStep

(* kprintf has popped all there was: what the caller frees is free already *)
LEMMA ReturnStep ==
    ASSUME IInv, kprintf_return
    PROVE  IInv' /\ FifoStep
<1>1. /\ pc = "kprintf" /\ fmt = <<>> /\ pc' = "caller" /\ poppedArg = Null
      /\ poppedArg' = Null /\ list' = Null /\ args' = Null /\ fmt' = fmt
      /\ flushed' = flushed /\ Current = args /\ Current' = Null
      /\ Taken' = Taken /\ mem \in Memories
      /\ (list = args \/ (list \in Pool /\ mem[list] = Free))
  BY DEF kprintf_return, IInv, Typed, Memories, Control, Current, Taken
<1>2. PICK q : /\ q = Nodes(mem, args) /\ Owns(mem, args, q, Taken)
               /\ IsPath(mem, args, q) /\ Queue = ValuesOf(mem, q)
  BY <1>1, ListNow
<1>3. args = Null
  <2>1. Len(q) <= 0
    BY <1>1, <1>2, TakesOfTail DEF IInv, Control, Typed
  <2> QED  BY <1>2, <2>1, EmptyPath
<1>4. mem' = mem /\ misfreed' \in BOOLEAN
  <2>1. CASE free(list)
    <3>1. mem' = (IF list = Null THEN mem ELSE [mem EXCEPT ![list] = Free])
          /\ misfreed' = (misfreed \/ (list # Null /\ mem[list] = Free))
      BY <2>1 DEF free
    <3>2. mem' = mem
      BY <1>1, <1>3, <3>1 DEF Memories
    <3> QED  BY <3>1, <3>2 DEF IInv, Typed
  <2>2. CASE UNCHANGED <<mem, misfreed>>
    BY <2>2 DEF IInv, Typed
  <2> QED  BY <2>1, <2>2 DEF kprintf_return
<1>5. Lists' /\ Queue' = Queue
  BY <1>1, <1>2, <1>3, <1>4, ListThen
<1>6. Out' = Out
  BY <1>1 DEF Out
<1>7. Typed' /\ Control'
  BY <1>1, <1>4, PoolType DEF IInv, Typed, Control
<1> QED  BY <1>5, <1>6, <1>7 DEF IInv, FifoStep

LEMMA FlushStep ==
    ASSUME IInv, arg_flush_pop
    PROVE  IInv' /\ FifoStep
<1>1. /\ pc = "arg_flush" /\ arg_pop /\ Current = args /\ Taken = flushed
      /\ fmt' = fmt /\ flushed' = flushed \cup ({poppedArg'} \ {Null})
      /\ IF poppedArg' = Null THEN pc' = "caller" /\ list' = Null
                              ELSE pc' = pc /\ list' = list
      /\ flushed \subseteq Pool
  BY DEF arg_flush_pop, IInv, Typed, Control, Current, Taken
<1>2. PICK q : /\ Owns(mem, args, q, flushed)
               /\ IsPath(mem, args, q) /\ Queue = ValuesOf(mem, q)
  BY <1>1, ListNow
<1>3. /\ misfreed' = misfreed
      /\ mem' \in Memories /\ args' \in Pointers /\ poppedArg' \in Pointers
  BY <1>1, <1>2, PopStep
<1>4. Typed'
  BY <1>1, <1>3, PoolType DEF IInv, Typed, Memories
<1>5. CASE args = Null
  <2>1. mem' = mem /\ args' = Null /\ poppedArg' = Null
    BY <1>1, <1>2, <1>5, PopStep
  <2>2. /\ pc' = "caller" /\ list' = Null /\ flushed' = flushed
        /\ Current' = Null /\ Taken' = flushed /\ Out' = <<>>
    BY <1>1, <2>1 DEF Current, Taken, Out
  <2>3. Lists' /\ Queue' = Queue
    BY <1>2, <1>5, <2>1, <2>2, ListThen
  <2>4. F!Take
    BY <2>2, <2>3 DEF F!Take
  <2>5. Control'
    BY <2>1, <2>2 DEF Control
  <2> QED  BY <1>4, <2>3, <2>4, <2>5 DEF IInv, FifoStep, F!Next
<1>6. CASE args # Null
  <2>1. /\ poppedArg' \in Pool
        /\ Owns(mem', args', Tail(q), flushed \cup {poppedArg'})
        /\ ValuesOf(mem, q) # <<>>
        /\ mem'[poppedArg'].value = Head(ValuesOf(mem, q))
        /\ ValuesOf(mem', Tail(q)) = Tail(ValuesOf(mem, q))
    BY <1>1, <1>2, <1>6, PopStep
  <2>2. poppedArg' # Null
    BY <2>1, PoolType
  <2>3. /\ pc' = "arg_flush" /\ flushed' = flushed \cup {poppedArg'}
        /\ Current' = args' /\ Taken' = flushed \cup {poppedArg'}
    BY <1>1, <2>2 DEF Current, Taken
  <2>4. Lists' /\ Queue' = Tail(Queue)
    BY <1>2, <2>1, <2>3, ListThen
  <2>5. Out' = <<Head(Queue)>> /\ Queue # <<>>
    BY <1>2, <2>1, <2>2, <2>3 DEF Out
  <2>6. F!Pop
    BY <2>4, <2>5 DEF F!Pop
  <2>7. Control'
    BY <2>3 DEF Control
  <2> QED  BY <1>4, <2>4, <2>6, <2>7 DEF IInv, FifoStep, F!Next
<1> QED  BY <1>5, <1>6

------------------------------------------------------------------------------
(* The theorems *)

(* Before the first push there is no list *)
LEMMA InitList ==
    ASSUME Init PROVE IInv /\ Queue = <<>> /\ Out = <<>>
<1>1. Current = Null /\ Taken = {} /\ Out = <<>>
  BY DEF Init, Current, Taken, Out
<1>2. mem \in Memories /\ \A b \in Pool : mem[b] = Free
  BY ContentsType DEF Init, Memories
<1>3. Nodes(mem, Null) = <<>>
  BY PoolType, NoNodeAt, NoNodes
<1>4. <<>> \in Seq(Pool) /\ Len(<<>>) = 0 /\ <<>> \in Seq(Directives)
  BY EmptySeq
<1>5. Owns(mem, Null, <<>>, {})
  BY <1>2, <1>4 DEF Owns, IsPath, OwnArguments, AllKnown
<1>6. Queue = <<>>
  BY <1>1, NoNodeAt, QueueOfNone DEF Queue
<1>7. Lists
  BY <1>1, <1>3, <1>5 DEF Lists
<1>8. Typed /\ Control
  BY <1>2, <1>4, PoolType DEF Init, Typed, Memories, Control
<1> QED  BY <1>1, <1>6, <1>7, <1>8 DEF IInv

LEMMA Steps ==
    ASSUME IInv, [Next]_vars PROVE IInv' /\ FifoStep
<1>1. CASE Next
  BY <1>1, PushStep, CallStep, DirectiveStep, FreeStep, PercentStep, BadStep,
     ReturnStep, FlushStep DEF Next
<1>2. CASE UNCHANGED vars
  <2>1. Current' = Current /\ Taken' = Taken /\ Out' = Out
    BY <1>2 DEF vars, Current, Taken, Out
  <2>2. Queue' = Queue
    BY <1>2, <2>1 DEF vars, Queue
  <2>3. IInv'
    BY <1>2, <2>1 DEF vars, IInv, Typed, Lists, Control
  <2> QED  BY <2>1, <2>2, <2>3 DEF FifoStep
<1> QED  BY <1>1, <1>2

(* Whatever is pushed, printed and flushed, and however the blocks are      *)
(* reused: a list is a path through nodes of its own, each with an argument *)
(* of its own.                                                              *)
THEOREM Invariance == Spec => []IInv
<1>1. Init => IInv
  BY InitList
<1>2. IInv /\ [Next]_vars => IInv'
  BY Steps
<1> QED  BY <1>1, <1>2, PTL DEF Spec

(* No pointer of a list leads to a block that arg_pop or kprintf has freed  *)
(* and malloc has handed out again, for any number of blocks.               *)
THEOREM ListsAreSound == Spec => []NoDangling
<1>1. IInv => NoDangling
  <2>1. SUFFICES ASSUME IInv, pc # "halted" PROVE NoDangling
    BY DEF NoDangling
  <2>2. PICK q : /\ q = Nodes(mem, Current) /\ Owns(mem, Current, q, Taken)
                 /\ IsPath(mem, Current, q)
    BY <2>1, ListNow
  <2>3. Len(q) \in Nat /\ q \in [1 .. Len(q) -> Pool] /\ DOMAIN q = 1 .. Len(q)
    BY <2>2, EmptyPath
  <2>4. \A i \in 1 .. Len(q) : IsNode(mem, q[i])
    BY <2>2, <2>3 DEF IsPath, IsNode
  <2>5. Current # Null => IsNode(mem, Current)
    <3>1. Current # Null => Current = q[1] /\ 1 \in 1 .. Len(q)
      BY <2>2, LastOfPath
    <3> QED  BY <2>4, <3>1
  <2>6. ASSUME NEW i \in 1 .. Len(q), mem[q[i]].next # Null
        PROVE  IsNode(mem, mem[q[i]].next)
    <3>1. i # Len(q) /\ mem[q[i]].next = q[i + 1]
      BY <2>2, <2>6 DEF IsPath
    <3>2. i + 1 \in 1 .. Len(q)
      BY <2>3, <3>1
    <3> QED  BY <2>4, <3>1, <3>2
  <2>7. \A i \in 1 .. Len(q) : /\ mem[q[i]].p_arg \in Pool
                               /\ mem[mem[q[i]].p_arg].is = "argument"
    BY <2>2 DEF Owns, OwnArguments
  <2>8. Cardinality(Arguments(mem, Current)) = Len(q)
    BY <2>2, ArgumentPerNode
  <2> QED  BY <2>2, <2>3, <2>5, <2>6, <2>7, <2>8 DEF NoDangling
<1> QED  BY <1>1, Invariance, PTL

(* Nothing is lost but the arguments that arg_flush drops *)
THEOREM OnlyFlushLeaks == Spec => []NoOtherLeak
<1>1. IInv => NoOtherLeak
  <2>1. SUFFICES ASSUME IInv, pc # "halted" PROVE NoOtherLeak
    BY DEF NoOtherLeak
  <2>2. PICK q : /\ q = Nodes(mem, Current) /\ Owns(mem, Current, q, Taken)
                 /\ IsPath(mem, Current, q)
    BY <2>1, ListNow
  <2>3. DOMAIN q = 1 .. Len(q) /\ q \in [1 .. Len(q) -> Pool]
    BY <2>2, EmptyPath
  <2> DEFINE N == {q[i] : i \in DOMAIN q}
             A == {mem[q[i]].p_arg : i \in DOMAIN q}
  <2>4. \A b \in N : b \in Pool /\ mem[b].is = "node"
    BY <2>2, <2>3 DEF IsPath
  <2>5. \A b \in A : b \in Pool /\ mem[b].is = "argument"
    BY <2>2, <2>3 DEF Owns, OwnArguments
  <2>6. /\ \A b \in Taken : b \in Pool /\ mem[b].is = "argument"
        /\ \A b \in Pool : mem[b] # Free => b \in Taken \cup N \cup A
    BY <2>2, <2>3 DEF Owns, AllKnown
  <2>7. Arguments(mem, Current) = A
    BY <2>2 DEF Arguments
  <2>8. N \cup A \cup Taken = UNION {N, A, {poppedArg} \ {Null}, flushed}
    BY DEF Taken
  <2> HIDE DEF N, A
  <2>9. {b \in Pool : mem[b] # Free} = N \cup A \cup Taken
    BY <2>4, <2>5, <2>6, ContentsType
  <2> QED  BY <2>2, <2>7, <2>8, <2>9 DEF NoOtherLeak, N
<1> QED  BY <1>1, Invariance, PTL

(* Neither kprintf nor arg_pop nor arg_flush frees a block twice, whatever  *)
(* the lists and the formats: that is done by callers that free their list  *)
(* after kprintf, as kern.c does, and by nobody else.                       *)
THEOREM FreeOnce == Spec => OnlyCallerFreesTwice
<1>1. ASSUME IInv, [Next]_vars
      PROVE  misfreed' = misfreed \/ kprintf_return
  <2>1. ASSUME arg_pop, pc = "kprintf" \/ pc = "arg_flush"
        PROVE  misfreed' = misfreed
    <3>1. Current = args
      BY <2>1 DEF Current
    <3>2. PICK q : Owns(mem, args, q, Taken)
      BY <1>1, <2>1, <3>1, ListNow
    <3> QED  BY <1>1, <2>1, <3>2, PopStep
  <2>2. CASE kprintf_pop
    BY <2>1, <2>2 DEF kprintf_pop, Directive
  <2>3. CASE arg_flush_pop
    BY <2>1, <2>3 DEF arg_flush_pop
  <2>4. CASE kprintf_free
    <3>1. pc = "freeing" /\ free(poppedArg) /\ misfreed \in BOOLEAN
      BY <1>1, <2>4 DEF kprintf_free, IInv, Typed
    <3>2. misfreed' = misfreed
      BY <1>1, <3>1, PoppedInUse DEF free
    <3> QED  BY <3>2
  <2>5. CASE UNCHANGED vars
    BY <2>5 DEF vars
  <2>6. CASE \E v \in Values : arg_push(v)
    BY <2>6 DEF arg_push
  <2>7. CASE (\E format \in Formats : kprintf(format)) \/ arg_flush
    BY <2>7 DEF kprintf, arg_flush
  <2>8. CASE kprintf_percent \/ kprintf_bad
    BY <2>8 DEF kprintf_percent, kprintf_bad
  <2>9. CASE kprintf_return
    BY <2>9
  <2> QED  BY <1>1, <2>2, <2>3, <2>4, <2>5, <2>6, <2>7, <2>8, <2>9 DEF Next
<1>2. IInv /\ [Next]_vars => [misfreed' # misfreed => kprintf_return]_vars
  BY <1>1
<1> QED  BY <1>2, Invariance, PTL DEF Spec, OnlyCallerFreesTwice

(* An argument list is the FIFO that varargs.h promises: kprintf and        *)
(* arg_flush take the arguments in the order they were pushed, each once,   *)
(* and a push that fails changes nothing.                                   *)
THEOREM Refinement == Spec => IsFifo
<1>1. Init => F!Init
  BY InitList DEF F!Init
<1>2. IInv /\ [Next]_vars => [F!Next]_<<Queue, Out>>
  BY Steps DEF FifoStep
<1>3. Spec => F!Spec
  BY <1>1, <1>2, Invariance, PTL DEF Spec, F!Spec
<1> QED  BY <1>3 DEF IsFifo
==============================================================================
