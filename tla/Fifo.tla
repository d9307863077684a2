--------------------------------- MODULE Fifo ---------------------------------
(***************************************************************************)
(* What include/varargs.h promises of an argument list: a FIFO of at most  *)
(* Capacity values.  A push may fail; whoever pops gets the oldest value.  *)
(***************************************************************************)
EXTENDS Naturals, Sequences

CONSTANTS Values, Capacity

VARIABLES
    queue,      \* the values in the list, the oldest first
    out         \* the value that was popped and not yet taken, <<>> for none

Init == queue = <<>> /\ out = <<>>

(* "pushes arg at the end of the list" *)
Push(v) ==
    /\ Len(queue) < Capacity
    /\ queue' = Append(queue, v)
    /\ UNCHANGED out

(* "On success, list points on new head" *)
Pop ==
    /\ queue # <<>>
    /\ out' = <<Head(queue)>>
    /\ queue' = Tail(queue)

(* Popping from an empty list gives nothing either *)
Take == out' = <<>> /\ UNCHANGED queue

Next == (\E v \in Values : Push(v)) \/ Pop \/ Take

Spec == Init /\ [][Next]_<<queue, out>>
===============================================================================
