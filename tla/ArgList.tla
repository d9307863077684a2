------------------------------- MODULE ArgList -------------------------------
(***************************************************************************)
(* Argument lists (src/varargs.c) and the functions that use them: kprintf *)
(* (src/textprint.c), which pops one argument per directive and frees it,  *)
(* and the callers that build a list for it (src/kern.c, src/ring3.c).     *)
(*                                                                         *)
(* An argument and a list node have the same size, and the heap is a pool  *)
(* of Blocks blocks of that size of which malloc takes the first that is   *)
(* free; Heap models the allocator itself.  What kprintf prints is left    *)
(* out: a directive is "tested" (%d, %x) when kprintf tests that there is  *)
(* an argument for it, "untested" (%c, %s, %p) when it reads through the   *)
(* null pointer, "percent" when it takes none, "bad" when there is no such *)
(* directive.                                                              *)
(***************************************************************************)
EXTENDS Naturals, Sequences, FiniteSets

CONSTANTS
    Blocks,         \* the number of blocks
    Values,         \* what arguments point to
    Formats         \* the formats kprintf is called with

Directives == {"tested", "untested", "percent", "bad"}
Null == 0
Pool == 1 .. Blocks
Pointers == Pool \cup {Null}

ASSUME ArgListAssumption ==
    /\ Blocks \in Nat
    /\ Formats \subseteq Seq(Directives)

VARIABLES
    mem,            \* what each block holds: Free, an argument or a node
    list,           \* the caller's list
    pc,             \* "caller", "kprintf", "arg_flush", "freeing" or "halted"
    args, fmt,      \* kprintf's and arg_flush's list; what is left of the format
    poppedArg,      \* the argument kprintf has popped
    flushed,        \* the arguments arg_flush has popped and dropped
    misfreed        \* has free been called for a block that was free?

vars == <<mem, list, pc, args, fmt, poppedArg, flushed, misfreed>>

Free == [is |-> "free"]
Argument(v) == [is |-> "argument", value |-> v]
Node(p_arg, next) == [is |-> "node", p_arg |-> p_arg, next |-> next]

IsNode(m, b) == b \in Pool /\ m[b].is = "node"

------------------------------------------------------------------------------
(* The heap *)

FreeBlocks(m) == {b \in Pool : m[b] = Free}

malloc(m) ==
    IF FreeBlocks(m) = {} THEN Null
    ELSE CHOOSE b \in FreeBlocks(m) : \A c \in FreeBlocks(m) : b <= c

(* What is stored through a null pointer is in no block.  To free a block   *)
(* that is free changes nothing here: what it does to the segments of the   *)
(* heap is not said.                                                        *)
Put(m, b, content) == IF b \in Pool THEN [m EXCEPT ![b] = content] ELSE m

free(b) ==
    /\ mem' = IF b = Null THEN mem ELSE [mem EXCEPT ![b] = Free]
    /\ misfreed' = (misfreed \/ (b # Null /\ mem[b] = Free))

------------------------------------------------------------------------------
(* Lists *)

(* Where n pointers of m from head on lead: null after the last node *)
Hops(m, head) ==
    LET at[n \in 0 .. Blocks] ==
          IF n = 0 THEN head
          ELSE IF IsNode(m, at[n - 1]) THEN m[at[n - 1]].next ELSE Null
    IN  at

(* The nodes a list leads to, in order; at most Blocks of them are distinct *)
Nodes(m, head) ==
    LET at == Hops(m, head)
        many == CHOOSE n \in 0 .. Blocks :
                  /\ \A k \in 0 .. n - 1 : IsNode(m, at[k])
                  /\ n = Blocks \/ ~ IsNode(m, at[n])
    IN  [i \in 1 .. many |-> at[i - 1]]

Last(m, head) == Nodes(m, head)[Len(Nodes(m, head))]

Arguments(m, head) == {m[Nodes(m, head)[i]].p_arg : i \in DOMAIN Nodes(m, head)}

Init ==
    /\ mem = [b \in Pool |-> Free]
    /\ list = Null
    /\ pc = "caller"
    /\ args = Null /\ fmt = <<>> /\ poppedArg = Null
    /\ flushed = {}
    /\ misfreed = FALSE

(* Mutant: the new node goes in front of the list *)
arg_push_Front(v) ==
    LET arg == malloc(mem)
        made == Put(mem, arg, Argument(v))
        newarg == malloc(made)
    IN  /\ pc = "caller"
        /\ IF newarg = Null
           THEN mem' = made /\ pc' = "halted" /\ UNCHANGED list
           ELSE /\ mem' = Put(made, newarg, Node(arg, list))
                /\ list' = newarg
                /\ UNCHANGED pc
        /\ UNCHANGED <<args, fmt, poppedArg, flushed, misfreed>>

(* arg_push(list, make_arg(v)): two blocks, one for the argument and one    *)
(* for the node.  Without the second, int 0x0d, whose handler halts.        *)
arg_push(v) ==
    LET arg == malloc(mem)
        made == Put(mem, arg, Argument(v))
        newarg == malloc(made)
        noded == Put(made, newarg, Node(arg, Null))
    IN  /\ pc = "caller"
        /\ IF newarg = Null
           THEN mem' = made /\ pc' = "halted" /\ UNCHANGED list
           ELSE /\ mem' = IF list = Null THEN noded
                          ELSE [noded EXCEPT ![Last(mem, list)].next = newarg]
                /\ list' = IF list = Null THEN newarg ELSE list
                /\ UNCHANGED pc
        /\ UNCHANGED <<args, fmt, poppedArg, flushed, misfreed>>

------------------------------------------------------------------------------
(* kprintf *)

(* The list is passed by value: the caller's own pointer does not follow *)
kprintf(format) ==
    /\ pc = "caller"
    /\ pc' = "kprintf"
    /\ args' = list /\ fmt' = format
    /\ UNCHANGED <<mem, list, poppedArg, flushed, misfreed>>

(* Mutant: the head stays where it is *)
arg_pop_Same ==
    /\ poppedArg' = IF args = Null THEN Null ELSE mem[args].p_arg
    /\ free(args)
    /\ UNCHANGED args

(* Mutant: the node is not freed *)
arg_pop_Keep ==
    /\ poppedArg' = IF args = Null THEN Null ELSE mem[args].p_arg
    /\ args' = IF args = Null THEN Null ELSE mem[args].next
    /\ UNCHANGED <<mem, misfreed>>

arg_pop ==
    /\ poppedArg' = IF args = Null THEN Null ELSE mem[args].p_arg
    /\ args' = IF args = Null THEN Null ELSE mem[args].next
    /\ free(args)

Directive(kinds) == pc = "kprintf" /\ fmt # <<>> /\ Head(fmt) \in kinds

kprintf_pop ==
    /\ Directive({"tested", "untested"})
    /\ fmt' = Tail(fmt)
    /\ arg_pop
    /\ pc' = IF args = Null /\ Head(fmt) = "tested" THEN "halted" ELSE "freeing"
    /\ UNCHANGED <<list, flushed>>

(* Mutant: the node is freed, which arg_pop has done *)
kprintf_free_Node ==
    /\ pc = "freeing"
    /\ free(list)
    /\ poppedArg' = Null
    /\ pc' = "kprintf"
    /\ UNCHANGED <<list, args, fmt, flushed>>

kprintf_free ==
    /\ pc = "freeing"
    /\ free(poppedArg)
    /\ poppedArg' = Null
    /\ pc' = "kprintf"
    /\ UNCHANGED <<list, args, fmt, flushed>>

kprintf_percent ==
    /\ Directive({"percent"})
    /\ fmt' = Tail(fmt)
    /\ UNCHANGED <<mem, list, pc, args, poppedArg, flushed, misfreed>>

(* int 0x0d *)
kprintf_bad ==
    /\ Directive({"bad"})
    /\ pc' = "halted"
    /\ UNCHANGED <<mem, list, args, fmt, poppedArg, flushed, misfreed>>

(* The caller drops its list, as ring3.c does, or frees the node that its   *)
(* own pointer still leads to, as kern.c does.                              *)
kprintf_return ==
    /\ pc = "kprintf" /\ fmt = <<>>
    /\ pc' = "caller"
    /\ free(list) \/ UNCHANGED <<mem, misfreed>>
    /\ list' = Null
    /\ args' = Null
    /\ UNCHANGED <<fmt, poppedArg, flushed>>

------------------------------------------------------------------------------
(* arg_flush *)

arg_flush ==
    /\ pc = "caller"
    /\ pc' = "arg_flush"
    /\ args' = list
    /\ UNCHANGED <<mem, list, fmt, poppedArg, flushed, misfreed>>

(* Until a pop returns no argument; nobody frees the arguments *)
arg_flush_pop ==
    /\ pc = "arg_flush"
    /\ arg_pop
    /\ IF poppedArg' = Null THEN pc' = "caller" /\ list' = Null ELSE UNCHANGED <<pc, list>>
    /\ flushed' = flushed \cup ({poppedArg'} \ {Null})
    /\ UNCHANGED fmt

------------------------------------------------------------------------------

(* Callers pass no more arguments than there are directives for them: the   *)
(* nodes of the others would be lost.                                       *)
Takes(format) == Cardinality({i \in DOMAIN format : format[i] \in {"tested", "untested"}})

Next ==
    \/ \E v \in Values : arg_push(v)
    \/ \E format \in Formats : Len(Nodes(mem, list)) <= Takes(format) /\ kprintf(format)
    \/ kprintf_pop
    \/ kprintf_free
    \/ kprintf_percent
    \/ kprintf_bad
    \/ kprintf_return
    \/ arg_flush
    \/ arg_flush_pop

Spec == Init /\ [][Next]_vars

------------------------------------------------------------------------------
(* Properties *)

(* The list as it is now: kprintf and arg_flush have taken it over *)
Current == IF pc \in {"kprintf", "freeing", "arg_flush"} \/ args # Null THEN args ELSE list

(* An argument list is a FIFO, however its nodes and arguments reuse the    *)
(* blocks that earlier ones have left.                                      *)
Queue == [i \in DOMAIN Nodes(mem, Current) |-> mem[mem[Nodes(mem, Current)[i]].p_arg].value]
Out == IF poppedArg = Null \/ pc = "halted" THEN <<>> ELSE <<mem[poppedArg].value>>

F == INSTANCE Fifo WITH Capacity <- Blocks \div 2, queue <- Queue, out <- Out
IsFifo == F!Spec

(* The list in use, which after the call is kprintf's or arg_flush's and    *)
(* not the caller's, leads to nodes of its own, each with an argument of    *)
(* its own: none of its pointers leads to a block that was freed and is     *)
(* something else by now.  The caller's pointer dangles after kprintf.      *)
NoDangling ==
    LET nodes == Nodes(mem, Current)
    IN  pc # "halted" =>
        /\ Current # Null => IsNode(mem, Current)
        /\ \A i \in DOMAIN nodes :
              /\ mem[nodes[i]].next # Null => IsNode(mem, mem[nodes[i]].next)
              /\ mem[nodes[i]].p_arg \in Pool
              /\ mem[mem[nodes[i]].p_arg].is = "argument"
        /\ Cardinality(Arguments(mem, Current)) = Len(nodes)

(* Every block that is not free is a node of the list, an argument of it,   *)
(* the argument kprintf holds, or one that arg_flush dropped: these are all *)
(* that is lost.                                                            *)
NoOtherLeak ==
    pc # "halted" =>
        {b \in Pool : mem[b] # Free} =
            UNION {{Nodes(mem, Current)[i] : i \in DOMAIN Nodes(mem, Current)},
                   Arguments(mem, Current), {poppedArg} \ {Null}, flushed}

(* kprintf, arg_pop and arg_flush free no block that is free, in whatever   *)
(* order nodes and arguments are popped, printed and dropped: if a block is *)
(* freed twice, it is by a caller that frees its list after kprintf, which  *)
(* has freed all of it, as kern.c:112 does.                                 *)
OnlyCallerFreesTwice == [][misfreed' # misfreed => kprintf_return]_vars

(* "newarg to be freed by arg_pop", varargs.c:19: a node is freed there and *)
(* by nobody else.  False of kern.c, which frees one again after kprintf    *)
(* (ArgList_free.cfg).                                                      *)
FreedOnce == ~ misfreed

(* "on Failure : nullptr", varargs.h:35: a caller without formats, for      *)
(* which kprintf could halt, is never halted by arg_push.                   *)
PushReturns == pc # "halted"
===============================================================================
