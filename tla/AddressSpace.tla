---------------------------- MODULE AddressSpace ----------------------------
(***************************************************************************)
(* What a virtual memory manager promises, and nothing about page tables:  *)
(* an address space is a map from virtual pages to frames.  A page is      *)
(* mapped to the given frame with the requested attributes and no others.  *)
(* An operation on a page changes that page or nothing, whether or not it  *)
(* runs out of memory on the way; no other page is ever mapped, unmapped,  *)
(* moved, or made writable or read-only as a side effect.                  *)
(***************************************************************************)
CONSTANTS Pages,        \* the virtual pages
          Frames,       \* the frames a page can be mapped to
          Attributes,   \* what may be asked for, "P" (present) left out
          Unmapped

VARIABLES map,          \* the frame and the attributes of every page
          asked         \* what every page's last map asked for

vars == <<map, asked>>

Mapping(f, a) == [frame |-> f, attrib |-> a]

Map(v, f, a) ==
    /\ asked' = [asked EXCEPT ![v] = Mapping(f, a)]
    /\ map' = [map EXCEPT ![v] = asked'[v]]

(* A frame of the manager's choice, with the attributes last asked for    *)
Back(v) ==
    /\ UNCHANGED asked
    /\ \E f \in Frames : map' = [map EXCEPT ![v] = Mapping(f, asked[v].attrib)]

Unmap(v) ==
    /\ map' = [map EXCEPT ![v] = Unmapped]
    /\ UNCHANGED asked

(* A new address space: nothing is mapped in it *)
Renew ==
    /\ map' = [v \in Pages |-> Unmapped]
    /\ asked' = [v \in Pages |-> Unmapped]

Init ==
    /\ map = [v \in Pages |-> Unmapped]
    /\ asked = [v \in Pages |-> Unmapped]

Next ==
    \/ \E v \in Pages, f \in Frames, a \in SUBSET Attributes : Map(v, f, a)
    \/ \E v \in Pages : Back(v) \/ Unmap(v)
    \/ Renew

Spec == Init /\ [][Next]_vars
==============================================================================
