--------------------------------- MODULE VMM ---------------------------------
(***************************************************************************)
(* The virtual memory manager of the kernel, src/vmem.c: the four levels   *)
(* of page tables under current_PML4, filled on demand with frames of the  *)
(* physical memory manager, and the translations the CPU caches.           *)
(*                                                                         *)
(* A table is a frame: mem[t][i] is entry i of the table in frame t.  An   *)
(* entry is its frame field and the set of its attribute bits; the         *)
(* attributes the model tells apart are "P" (present) and "W" (writable).  *)
(* A virtual page is the tuple of its four indices.  The code follows a    *)
(* table by its physical address, as the identity mapping the boot code    *)
(* made allows for the frames it covers, and Pool is taken among those.    *)
(*                                                                         *)
(* pm_alloc_block and pm_free_block stand as one step each, as FramePool   *)
(* promises them: the lowest free frame, or null when there is none.       *)
(***************************************************************************)
EXTENDS Naturals, FiniteSets

CONSTANTS
    Index,        \* the indices of a table (0 .. 511)
    BootTables,   \* frames of the boot PML4, PDPT, PD and PT, in that order
    IdentityMap,  \* frame the boot PT maps at each index
    Pool,         \* the frames the physical memory manager hands out
    Dirt,         \* what an entry of such a frame holds when it is handed out
    Devices,      \* frames that clients map with vm_map_page_flags
    Presets,      \* flags they map them with (PTE_RW_X and the like)
    Pages,        \* the virtual pages clients map
    KernelPage,   \* the page the kernel runs in
    StackPage,    \* the page of the stack of vm_flush_tlb_entry
    TrustFlush,   \* do clients take vm_flush_tlb_entry at its word?
    Narrows       \* do clients map a page anew with fewer attributes?

Null == 0

VARIABLES
    mem,            \* the page tables
    free,           \* the frames pm_alloc_block has left
    others,         \* the frames other callers of pm_alloc_block hold
    current_PML4,   \* and cr3, which the code always loads with it
    owned,          \* the pages whose frame comes from vm_alloc_page
    tlb,            \* the translations the CPU has cached, by page
    unflushed,      \* the pages changed whose old translation may be cached
    interruptsOn,   \* the interrupt flag
    asked           \* the frame and attributes of every page's last map

vars == <<mem, free, others, current_PML4, owned, tlb, unflushed, interruptsOn, asked>>

Table == [Index -> [frame : Nat, attrib : SUBSET {"P", "W"}]]
Zero == [frame |-> Null, attrib |-> {}]
Zeroed == [i \in Index |-> Zero]
Entry(f, a) == [frame |-> f, attrib |-> a]

ASSUME IndexAssumption == IsFiniteSet(Index) /\ 0 \in Index
ASSUME BootAssumption ==
    /\ BootTables \in [1 .. 4 -> Nat \ {Null}]
    /\ \A j, k \in 1 .. 4 : BootTables[j] = BootTables[k] => j = k
    /\ IdentityMap \in [Index -> Nat]
ASSUME PoolAssumption ==
    /\ Pool \subseteq Nat \ {Null}
    /\ IsFiniteSet(Pool)
    /\ Pool \cap {BootTables[k] : k \in 1 .. 4} = {}
    /\ Dirt \in [frame : Nat, attrib : SUBSET {"P", "W"}]
    /\ Devices \subseteq Nat \ (Pool \cup {Null})
(* Every flag constant of vmem.h has the present bit *)
ASSUME PresetsAssumption == Presets \subseteq {flags \in SUBSET {"P", "W"} : "P" \in flags}
(* Clients leave the 2 MiB of the boot code's page table alone *)
ASSUME PagesAssumption ==
    /\ Pages \cup {KernelPage, StackPage} \subseteq Index \X Index \X Index \X Index
    /\ {KernelPage, StackPage} \cap Pages = {}
    /\ \A v \in Pages : <<v[1], v[2], v[3]>> # <<0, 0, 0>>

------------------------------------------------------------------------------
(* The CPU: the walk of the tables, and the TLB *)

(* The entry of table e.frame at i, if the entry e leads there *)
Follow(e, i) == IF "P" \in e.attrib THEN mem[e.frame][i] ELSE Zero

PML4Eof(v) == mem[current_PML4][v[1]]
PDPTEof(v) == Follow(PML4Eof(v), v[2])
PDEof(v) == Follow(PDPTEof(v), v[3])
PTEof(v) == Follow(PDEof(v), v[4])

NoMapping == Entry(Null, {})

(* A page is writable when the entries of all four levels are *)
Writable(v) == \A e \in {PML4Eof(v), PDPTEof(v), PDEof(v), PTEof(v)} : "W" \in e.attrib

Translation(v) ==
    IF "P" \in PTEof(v).attrib
    THEN Entry(PTEof(v).frame, IF Writable(v) THEN {"W"} ELSE {})
    ELSE NoMapping

Running == Translation(KernelPage) # NoMapping

Access(v) ==
    /\ Running
    /\ v \notin DOMAIN tlb
    /\ Translation(v) # NoMapping
    /\ tlb' = [w \in DOMAIN tlb \cup {v} |->
                 IF w = v THEN Translation(v) ELSE tlb[w]]
    /\ UNCHANGED <<mem, free, others, current_PML4, owned, unflushed, interruptsOn, asked>>

Evict(v) == [w \in DOMAIN tlb \ {v} |-> tlb[w]]
NoCache == [w \in {} |-> NoMapping]

------------------------------------------------------------------------------
(* The physical memory manager *)

Lowest(F) == IF F = {} THEN Null ELSE CHOOSE f \in F : \A g \in F : f <= g

(* Its other callers, as kern.c is one, hold frames and give them back *)
OtherGivesBack ==
    /\ Running
    /\ others # {}
    /\ free' = free \cup others
    /\ others' = {}
    /\ UNCHANGED <<mem, current_PML4, owned, tlb, unflushed, interruptsOn, asked>>

------------------------------------------------------------------------------
(* The boot code's tables, and vm_initialize *)

BootTable(next) == [Zeroed EXCEPT ![0] = Entry(next, {"P", "W"})]

Init ==
    /\ mem = [t \in {BootTables[k] : k \in 1 .. 4} \cup Pool |->
                CASE t = BootTables[1] -> BootTable(BootTables[2])
                  [] t = BootTables[2] -> BootTable(BootTables[3])
                  [] t = BootTables[3] -> BootTable(BootTables[4])
                  [] t = BootTables[4] ->
                       [i \in Index |-> Entry(IdentityMap[i], {"P", "W"})]
                  [] OTHER -> [i \in Index |-> Dirt]]
    /\ others \in SUBSET Pool
    /\ \A f \in others, g \in Pool \ others : f < g
    /\ free = Pool \ others
    /\ current_PML4 = BootTables[1]
    /\ owned = {}
    /\ tlb = NoCache
    /\ unflushed = {}
    /\ interruptsOn \in BOOLEAN
    /\ asked = [v \in Pages |-> NoMapping]

(* Mutant: the new table is not cleared *)
NewTable_NotCleared(m, t) == m

(* memset of a frame that becomes a table *)
NewTable(m, t) == [m EXCEPT ![t] = Zeroed]

(* Mutant: the null pointer is not noticed *)
vm_initialize_NoCheck ==
    LET pml4 == Lowest(free) IN
    /\ Running
    /\ mem' = NewTable(mem, pml4)
    /\ free' = free \ {pml4}
    /\ current_PML4' = pml4
    /\ tlb' = NoCache
    /\ unflushed' = {}
    /\ asked' = [v \in Pages |-> NoMapping]
    /\ UNCHANGED <<others, owned, interruptsOn>>

(* The new PML4 is loaded while it is empty: the instruction after the load *)
(* cannot be fetched, and the mappings the rest of the function would make  *)
(* are never made.                                                          *)
vm_initialize ==
    LET pml4 == Lowest(free) IN
    /\ Running
    /\ pml4 # Null
    /\ mem' = NewTable(mem, pml4)
    /\ free' = free \ {pml4}
    /\ current_PML4' = pml4
    /\ tlb' = NoCache
    /\ unflushed' = {}
    /\ asked' = [v \in Pages |-> NoMapping]
    /\ UNCHANGED <<others, owned, interruptsOn>>

(* Mutant: the new table is not the current one *)
vm_switch_pml4_NoLoad(pml4) ==
    /\ Running
    /\ pml4 # Null
    /\ current_PML4' = pml4
    /\ unflushed' = {}
    /\ UNCHANGED <<mem, free, others, owned, tlb, interruptsOn, asked>>

vm_switch_pml4(pml4) ==
    /\ Running
    /\ pml4 # Null
    /\ current_PML4' = pml4
    /\ tlb' = NoCache
    /\ unflushed' = {}
    /\ UNCHANGED <<mem, free, others, owned, interruptsOn, asked>>

vm_getPML4 == current_PML4

(* The operand of invlpg is the parameter's slot on the stack ("m"(addr)),  *)
(* not the address it holds: the page flushed is the stack's.  The sti at   *)
(* its end turns interrupts on, also for a caller that had them off.        *)
vm_flush_tlb_entry(addr) ==
    /\ Running
    /\ tlb' = Evict(StackPage)
    /\ unflushed' = IF TrustFlush THEN unflushed \ {addr} ELSE unflushed
    /\ interruptsOn' = TRUE
    /\ UNCHANGED <<mem, free, others, current_PML4, owned, asked>>

------------------------------------------------------------------------------
(* Mapping *)

(* Mutant: the writable bit is set in the leaf only *)
Inherited_Nothing(flags) == {"P"}

(* What the entries above the leaf are given for it *)
Inherited(flags) == {"P"} \cup (flags \cap {"W"})

(* One level of the walk, w being the tables, the free frames and the table *)
(* reached so far: null once a level could not get a frame, which ends the  *)
(* walk with what the levels above have already done.                       *)
ensure(w, i, flags) ==
    LET e == w.mem[w.table][i]
        new == Lowest(w.free)
    IN  IF w.table = Null \/ (e = Zero /\ new = Null)
        THEN [w EXCEPT !.table = Null]
        ELSE IF e = Zero
        THEN [mem |-> [NewTable(w.mem, new) EXCEPT
                         ![w.table][i] = Entry(new, Inherited(flags))],
              free |-> w.free \ {new}, table |-> new]
        ELSE [w EXCEPT !.mem[w.table][i].attrib = @ \cup Inherited(flags),
                       !.table = e.frame]

vm_map_page_flags(phys, virt, flags) ==
    LET w == ensure(ensure(ensure(
               [mem |-> mem, free |-> free, table |-> current_PML4],
               virt[1], flags), virt[2], flags), virt[3], flags)
    IN  /\ Running
        /\ mem' = IF w.table = Null THEN w.mem
                  ELSE [w.mem EXCEPT ![w.table][virt[4]] =
                          Entry(phys, @.attrib \cup flags)]
        /\ asked' = IF w.table = Null THEN asked
                    ELSE [asked EXCEPT ![virt] = Entry(phys, flags \ {"P"})]
        /\ free' = w.free
        /\ unflushed' = unflushed \cup (DOMAIN tlb \cap {virt})
        /\ UNCHANGED <<others, current_PML4, owned, tlb, interruptsOn>>

vm_map_page(phys, virt) == vm_map_page_flags(phys, virt, {"P", "W"})

------------------------------------------------------------------------------
(* Pages backed by a frame of their own.  A client reaches the PTE of v by  *)
(* the tables, once they exist, and the manager's functions take it.        *)

PageTable(v) == PDEof(v).frame
HasPTE(v) == "P" \in PDEof(v).attrib

(* The lookups, from a table and a page to the place of an entry: all four  *)
(* take the index of the lowest level (PT_INDEX), and nobody calls the      *)
(* three that should not.                                                   *)
PT_lookup(p, v) == IF p = Null THEN <<>> ELSE <<p, v[4]>>
PD_lookup(p, v) == PT_lookup(p, v)
PDPT_lookup(p, v) == PT_lookup(p, v)
PML4_lookup(p, v) == PT_lookup(p, v)

(* Nothing is changed when there is no frame *)
vm_alloc_page(v) ==
    LET p == Lowest(free) IN
    /\ Running
    /\ p # Null
    /\ mem' = [mem EXCEPT ![PageTable(v)][v[4]] = Entry(p, @.attrib \cup {"P"})]
    /\ free' = free \ {p}
    /\ owned' = owned \cup {v}
    /\ unflushed' = unflushed \cup (DOMAIN tlb \cap {v})
    /\ UNCHANGED <<others, current_PML4, tlb, interruptsOn, asked>>

(* Mutant: the frame is not given back *)
vm_free_page_KeepsFrame(v) ==
    /\ Running
    /\ mem' = [mem EXCEPT ![PageTable(v)][v[4]].attrib = @ \ {"P"}]
    /\ owned' = owned \ {v}
    /\ unflushed' = unflushed \cup (DOMAIN tlb \cap {v})
    /\ UNCHANGED <<free, others, current_PML4, tlb, interruptsOn, asked>>

(* Mutant: the page stays present *)
vm_free_page_StaysPresent(v) ==
    /\ Running
    /\ free' = free \cup ({PTEof(v).frame} \ {Null})
    /\ owned' = owned \ {v}
    /\ unflushed' = unflushed \cup (DOMAIN tlb \cap {v})
    /\ UNCHANGED <<mem, others, current_PML4, tlb, interruptsOn, asked>>

vm_free_page(v) ==
    /\ Running
    /\ free' = free \cup ({PTEof(v).frame} \ {Null})
    /\ mem' = [mem EXCEPT ![PageTable(v)][v[4]].attrib = @ \ {"P"}]
    /\ owned' = owned \ {v}
    /\ unflushed' = unflushed \cup (DOMAIN tlb \cap {v})
    /\ UNCHANGED <<others, current_PML4, tlb, interruptsOn, asked>>

(* The attributes a page's entry has kept since it was first mapped, also   *)
(* while the page was free                                                  *)
Kept(v) == PTEof(v).attrib \ {"P"}

(* What clients do: they map devices over pages that own no frame, give a   *)
(* frame to a page that is not mapped, and free only what owns one.  Unless *)
(* Narrows, they ask for no fewer attributes than the page's entry has.     *)
Next ==
    \/ \E v \in Pages \cup {StackPage} : Access(v)
    \/ \E v \in Pages \ owned, p \in Devices : vm_map_page(p, v)
    \/ \E v \in Pages \ owned, p \in Devices, flags \in Presets :
          (Narrows \/ Kept(v) \subseteq flags) /\ vm_map_page_flags(p, v, flags)
    \/ \E v \in Pages \ owned :
          HasPTE(v) /\ Translation(v) = NoMapping /\ vm_alloc_page(v)
    \/ \E v \in owned : vm_free_page(v)
    \/ \E v \in Pages : vm_flush_tlb_entry(v)
    \/ vm_switch_pml4(vm_getPML4)
    \/ vm_initialize
    \/ OtherGivesBack

Spec == Init /\ [][Next]_vars

------------------------------------------------------------------------------
(* Properties *)

Roots == {BootTables[1], current_PML4}
Below(T) == {mem[t][i].frame : t \in T, i \in Index} \ {Null}
PDPTs == Below(Roots)
PDs == Below(PDPTs)
PTs == Below(PDs)
Inner == Roots \cup PDPTs \cup PDs     \* the tables that lead to tables

TypeOK ==
    /\ DOMAIN mem = {BootTables[k] : k \in 1 .. 4} \cup Pool
    /\ \A t \in DOMAIN mem : mem[t] \in Table
    /\ free \subseteq Pool /\ others \subseteq Pool
    /\ current_PML4 \in DOMAIN mem
    /\ owned \subseteq Pages
    /\ DOMAIN tlb \subseteq Pages \cup {StackPage}
    /\ unflushed \subseteq Pages
    /\ interruptsOn \in BOOLEAN
    /\ asked \in [Pages -> [frame : Nat, attrib : SUBSET {"P", "W"}]]

(* The tables form a tree whatever maps failed half-way for want of frames: *)
(* no table is reached by two entries or at two levels.  A shared table     *)
(* would map pages nobody asked for.                                        *)
TablesFormTree ==
    /\ \A f \in PDPTs \cup PDs \cup PTs :
          Cardinality({c \in Inner \X Index : mem[c[1]][c[2]].frame = f}) = 1
    /\ Roots \cap (PDPTs \cup PDs \cup PTs) = {}
    /\ PTs \cap Inner = {}

(* Every frame of the physical memory manager has one use: it is free,      *)
(* another caller's, a table, or the frame of one page.  A map that fails   *)
(* leaves no frame without one, so a retry neither leaks nor shares.        *)
FramesAccounted ==
    LET tables == (Inner \cup PTs) \cap Pool
        users(f) == {v \in owned : mem[PageTable(v)][v[4]].frame = f}
    IN  Running =>
          \A f \in Pool :
            Cardinality(users(f)) + (IF f \in tables THEN 1 ELSE 0)
              + Cardinality({F \in {free, others} : f \in F}) = 1

(* No page translates to a frame that is free or that holds a table: only   *)
(* the pages that own a frame of the pool reach one.                        *)
NoUseAfterFree ==
    \A v \in Pages : Translation(v).frame \in Pool => v \in owned

(* "Sets the final PTE to point to the given physical frame with the        *)
(* requested attributes", vmem.h:191-192: a map of a page changes its       *)
(* translation to that frame with those attributes and no others, or        *)
(* nothing when memory runs out on the way, and no other page's.  Clients   *)
(* whose maps never ask for fewer attributes than before (Narrows FALSE)    *)
(* get this.  The others do not: the attributes are only or'ed into the     *)
(* entry (VMM_map.cfg).                                                     *)
Space == INSTANCE AddressSpace
           WITH Frames <- Devices \cup Pool, Attributes <- {"W"},
                Unmapped <- NoMapping,
                map <- [v \in Pages |-> Translation(v)]

ImplementsAddressSpace == Space!Spec

(* A page is never reached by a translation older than the last load of     *)
(* cr3, which empties the TLB, unless the page was changed after that load: *)
(* this is what clients who do not trust vm_flush_tlb_entry (TrustFlush     *)
(* FALSE) can build on.  It says nothing of pages that were changed and     *)
(* then flushed with that function.  For clients who trust it they count as *)
(* flushed, and what vmem.h:184 says of it ("clears translation lookaside   *)
(* buffer entry specified by addr") is false (VMM_tlb.cfg).                 *)
TLBCoherent ==
    \A v \in DOMAIN tlb \ (unflushed \cup {StackPage}) : tlb[v] = Translation(v)

(* "finds and returns address of entry which maps addr in PD p",            *)
(* vmem.h:157, and 151, 163 and 169 of the other levels: what is found is   *)
(* the entry the CPU uses for the page.                                     *)
LookupsFindEntries ==
    \A v \in Pages :
        LET Found(e, entry) == e = <<>> \/ mem[e[1]][e[2]] = entry
        IN  /\ Found(PML4_lookup(current_PML4, v), PML4Eof(v))
            /\ Found(PDPT_lookup(PML4Eof(v).frame, v), PDPTEof(v))
            /\ Found(PD_lookup(PDPTEof(v).frame, v), PDEof(v))
            /\ Found(PT_lookup(PDEof(v).frame, v), PTEof(v))

(* "This keeps BIOS data, boot structures, and the kernel's load region     *)
(* accessible", vmem.c:404: the kernel's own page stays mapped.             *)
KernelStaysMapped == Translation(KernelPage) # NoMapping
==============================================================================
