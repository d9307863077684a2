------------------------------ MODULE FramePool ------------------------------
(***************************************************************************)
(* What a physical memory manager promises to its callers, and nothing     *)
(* about how it keeps its books.  At boot it decides on a pool of page     *)
(* frames; from then on the pool never changes, a call of "allocate"       *)
(* replies with a frame of the pool that nobody holds, it may reply "out   *)
(* of memory" only when every frame of the pool is held, and a frame that  *)
(* is given back can be handed out again.                                  *)
(*                                                                         *)
(* PMM (the bitmap of src/mmap.c) is checked to implement this module, and *)
(* VMM (the page tables of src/vmem.c) allocates its tables from it.       *)
(***************************************************************************)
EXTENDS Integers

CONSTANTS NoReply,      \* no allocation waits for its caller to take it
          OutOfMemory   \* the null pointer

VARIABLES booted,       \* has the pool been decided on?
          pool,         \* the frames managed
          held,         \* the frames callers own
          reply         \* what the last allocation returned, until taken

vars == <<booted, pool, held, reply>>

Init == booted = FALSE /\ pool = {} /\ held = {} /\ reply = NoReply

Boot ==
    /\ ~booted
    /\ booted' = TRUE
    /\ pool' \in SUBSET Nat
    /\ OutOfMemory \notin pool'
    /\ UNCHANGED <<held, reply>>

Allocate(f) ==
    /\ booted /\ reply = NoReply
    /\ f \in pool \ held
    /\ reply' = f
    /\ UNCHANGED <<booted, pool, held>>

RefuseAllocation ==
    /\ booted /\ reply = NoReply
    /\ pool \subseteq held
    /\ reply' = OutOfMemory
    /\ UNCHANGED <<booted, pool, held>>

(* The caller stores the pointer it got, or notices it got none. *)
Take ==
    /\ reply # NoReply
    /\ held' = IF reply = OutOfMemory THEN held ELSE held \cup {reply}
    /\ reply' = NoReply
    /\ UNCHANGED <<booted, pool>>

GiveBack(f) ==
    /\ f \in held
    /\ held' = held \ {f}
    /\ UNCHANGED <<booted, pool, reply>>

Next ==
    \/ Boot
    \/ \E f \in pool : Allocate(f)
    \/ RefuseAllocation
    \/ Take
    \/ \E f \in held : GiveBack(f)

Spec == Init /\ [][Next]_vars
==============================================================================
