# Specifications of the kernel

TLA+ models of the kernel in `src/`, the TLC configurations that check them on
small instances, and proofs checked by TLAPS. They cover the three memory
managers, the argument lists of `kprintf`, the text console and the number
conversions, the keyboard, the interrupt controllers with the timer and the
log, and the exceptions that return.

## 1. The system

The kernel is one image, loaded at 0x8000 by a boot sector, that runs on one CPU
in 64-bit mode. There are no threads: `_start` (`kern.c`) runs from its first
line to `jump_usermode`, and from `sti` on, interrupt handlers may run between
any two of its instructions. Nothing is persisted, nothing is locked.

| Component | Source | State | Operations | Used by |
|---|---|---|---|---|
| Physical memory manager | `mmap.c` | bitmap above the kernel, `blk_count`, table of usable regions | `pmBitmapInit`, `pm_alloc_block`, `pm_free_block`, `getUsableMemRegions`, `getLargestUsableMemRegion` | `kern.c`, page tables |
| Heap | `heap.c` | headers in the heap's memory, `firstFreeMemSeg` | `initHeap`, `malloc`, `calloc`, `calloct`, `realloc`, `alignedAlloc`, `free` | argument lists, `kern.c` |
| Virtual memory manager | `vmem.c`, `paging.asm` | four levels of tables, `current_PML4`, CR3; the CPU's TLB | `vm_map_page(_flags)`, `vm_alloc_page`, `vm_free_page`, `vm_switch_pml4`, `vm_flush_tlb_entry`, `vm_initialize`, lookups | nobody in the tree yet |
| Argument lists, kprintf | `varargs.c`, `textprint.c` | a FIFO of nodes and arguments on the heap | `arg_push`, `arg_pop`, `arg_flush`, `make_arg_*`, `kprintf` | `kern.c` |
| Text console | `textprint.c` | VGA memory, `cursorPosition`, the one `strOutput` buffer | `printCharC`, `printStrC`, `setCursorPosition`, `scrollUp`, conversions | everything, handlers included |
| Keyboard | `kbhandler.c` | `kbFlag`, `lastScancode` | `kbHandler` | IRQ 1 |
| Interrupts | `interrupts.c`, `idt.c`, `pic.c` | the IDT, both controllers' IRR, ISR and masks | handlers, `pic_sendEOI`, `pic_remap`, masks | hardware |
| Timer | `pit.c` | `TimeSinceBoot`, `Divisor`, the 8254's counter | `Tick`, `Sleep`, `SetFrequency` | IRQ 0, `kern.c` |
| Serial port, log | `serial.c`, `klog.c` | port table, log level | `initComPort`, `write_serial`, `klog` | `kern.c`, handlers |
| Boot code, primitives, debug registers | `sector1/`, `sector2+/`, `memory.c`, `io.c`, `ring3.c`, `debug_regs.c` | none of their own once they have run | | |

How they interact: the boot code leaves the BIOS memory map at 0x5000 and an
identity mapping of the first 2 MiB. `_start` gives the largest usable region to
the heap, prints through the argument lists (which allocate on the heap), then
builds the bitmap and allocates frames. `vmem.c` takes frames from the bitmap
for its tables and for pages. The console is written by `_start` and by the
handlers of the timer (through the log), the keyboard and the exceptions.

What is hard in it, and what makes each part correct:

* **Frames** have one owner, reserved ones have none, no sequence of calls loses
  or invents one. Hard: masks that are ints, a bitmap that must not hand out its
  own pages, memory maps in any order, RAM that holds anything at first.
* **Heap** blocks are disjoint, the segments tile the heap, everything comes
  back. Hard: two lists through one set of headers, hints that go stale, merges.
* **Page tables** are a tree, an operation on a page touches that page only.
  Hard: running out of frames half-way through a walk, tables in frames full of
  old data, translations that the CPU still holds.
* **Argument lists** keep order and are freed once. Hard: a failed allocation in
  the middle.
* **Console, keyboard, timer, controllers**: output is not torn, the cursor stays
  on the screen, every interrupt is ended once, `Sleep` returns. Hard: handlers
  between any two instructions.

The list of hazards, each at its line, is in `PROJECT.json`.

## 2. Modules

| Module | What it is |
|---|---|
| `FramePool` | what an allocator of frames promises |
| `PMM` | `mmap.c`; implements `FramePool` |
| `Heap` | `heap.c` but for alignment |
| `AlignedHeap` | `Heap` with `alignedAlloc`, and the callers' data where `free` reads it |
| `AddressSpace` | what a virtual memory manager promises |
| `VMM` | `vmem.c` on the boot code's tables; implements `AddressSpace` |
| `Fifo` | what `varargs.h` promises of a list |
| `ArgList` | `varargs.c`, and `kprintf` popping its arguments; implements `Fifo` |
| `Console` | the screen, the cursor and printing, `textprint.c` |
| `Keyboard` | `kbhandler.c`, composed with the `Console` it prints on |
| `Conversion` | the conversions of `textprint.c`, with the log of the handlers in the same buffer |
| `Interrupts` | `_start`, the handlers, both controllers, the timer, `Sleep`, the log's wait for the serial port |
| `Exceptions` | the handlers of the division and debug exceptions, and the CPU between them |
| `PMM_proofs`, `Heap_proofs`, `VMM_proofs`, `ArgList_proofs`, `Keyboard_proofs`, `Conversion_proofs`, `Interrupts_proofs`, `Exceptions_proofs` | theorems for every value of the constants |
| `MCPMM`, `MCHeap`, `MCVMM`, `MCArgList`, `MCKeyboard`, `MCConversion`, `MCInterrupts`, `MCExceptions` | the values the configurations give to constants |

Definitions that end in `_Something` after a function's name are mutants: the
function with a plausible mistake in it, kept beside it to show that the
properties notice (`PROJECT.json` says which property notices which).

### PMM

A frame is an address divided by the page size. A bit of the bitmap is a pair
(word, bit) and `bitmap` is the set of the bits that are 1. `Mask(j)` is what
`1 << j` is in the code: an int, so the shift count wraps at 32 and bit 31
sign-extends over the upper half of the 64-bit word. The widths are constants,
so that TLC runs on ints of 3 bits and the proofs cover 32.

| Action | Code |
|---|---|
| `pmBitmapInit_region` | one turn of the outer loop of `pmBitmapInit` |
| `pmBitmapInit_protect` | its last loop |
| `pm_alloc_block`, `TakePointer` | the call, and the caller storing the pointer |
| `FreeHeld`, `FreeStray` | `pm_free_block` of a frame the caller owns, and of a pointer of `StrayPtrs` that it never got (as `kern.c` does with 0x2000) |

`held` (who owns what) and `ret` (a pointer on its way to a caller) are the
callers' part. The initial bitmap is anything: the code does not clear the RAM
it uses. `Gap` is the part of the protected zone that `pm_free_block` lets a
pointer into: it compares with the end of the bitmap, `pmBitmapInit` protects up
to the end of the bitmap's page.

### Heap

Addresses are in words of 8 bytes, a header is six of them. `memory` has the
headers that some pointer still leads to; what a caller's block covers is that
caller's data. Each action is one whole call: `malloc` is search, split and
unlink, `free` is the relinking of the hints and both merges, `realloc` is
`malloc` and `free`, the block being lost when `malloc` fails, as in the code.

Callers are the environment. With `AnyOrder = FALSE` they never allocate while a
freed block lies below one in use; that is the discipline under which the code's
lists stay sound. With `AnyOrder = TRUE` they do as they like.

`AlignedHeap` adds the word before a block that `free` and `realloc` look at:
`marked` maps the words with bit 63 set to the address below it. `alignedAlloc`
writes such a word when it moves a block up. A caller writes all of what it was
given, with data from `Contents`, and the RAM holds one of `Contents` before
`initHeap`: both may have bit 63 set in any word. A header writes only the low
half of its last word, so the bit survives in it, and `free` then takes an
ordinary block for an aligned one (`Heap_stale.cfg`). Callers free and resize a
block only when the segment is found (`IsSegment`); what the code does to the
heap when it is not is outside the model.

A caller that is given null fills nothing. Not in the model: the bytes of a
block (`realloc` copies them to null when there is no memory), sizes that wrap at
2^64, an alignment of 0. `calloc` and `calloct` are `malloc` followed by a `memset` of the caller's
own block.

### VMM

`mem[t][i]` is entry `i` of the table in frame `t`: a frame field and a set of
attributes, "P" and "W" being the two the model tells apart. A virtual page is
the tuple of its four indices. `ensure` is the body common to `ensure_pml4e`,
`ensure_pdpte` and `ensure_pde`, together with the or of the writable bit that
`vm_map_page_flags` makes after each; it returns the tables, the free frames and
the next table, null when there is no frame left. What the levels above did
stays done.

| Action | Code |
|---|---|
| `vm_map_page_flags`, `vm_map_page` | the whole function, at every way it can end |
| `vm_alloc_page`, `vm_free_page` | the same, for the entry of a page |
| `vm_switch_pml4` | the load of CR3, which empties the TLB |
| `vm_flush_tlb_entry` | `invlpg` of the stack slot of its parameter |
| `vm_initialize` | up to the load of the empty table, where it stops |
| `OtherGivesBack` | the frames `kern.c` took before, freed |
| `Access` | external: the CPU walks the tables and caches a translation |

Clients (there are none in the tree) map device frames over pages that own no
frame, give a frame to a page that is not mapped, and free what they gave.
`unflushed` is what they must know: pages changed while their old translation
may be cached. `owned` is the pages that own a frame, `others` the frames that
other callers of the physical memory manager hold. `asked` is the frame and the
attributes of every page's last map that did not run out of memory, and
`interruptsOn` the flag that `vm_flush_tlb_entry` sets on its way out.

Two constants say what clients do. With `TrustFlush = TRUE` they rely on
`vm_flush_tlb_entry`, with `FALSE` they load CR3. With `Narrows = FALSE` no map
asks for fewer attributes than the page's entry has; with `TRUE` one may, and
the entry keeps the old ones too.

`AddressSpace` says what was asked for: a map gives the page the given frame
with exactly the given attributes, a page that gets a frame of the manager's
choice has the attributes of its last map, and no operation touches another page.

Assumptions, named in the module: the boot code's four tables are different
frames and none of the pool's (`BootAssumption`, `PoolAssumption`); what clients
map is present (`PresetsAssumption`), and none of it lies in the 2 MiB that the
boot code has mapped (`PagesAssumption`): a client that maps a page of the
kernel's own would replace its entry. The frames handed out lie in the 2 MiB the boot code maps, so the
code can write its tables by their physical addresses (nothing in `vmem.c`
ensures it); the physical memory manager is as `FramePool` says, lowest frame
first. The no-execute bit is left out: `EFER.NXE` is never set, so an entry with
it would fault. Each action is one step: no handler uses pages being mapped.

The four lookups are operators, as they change nothing; three of them use the
wrong index (`VMM_map.cfg`).

### ArgList

The heap is a pool of blocks of one size, of which `malloc` takes the first free
one: enough for blocks to be reused at once, which is where a pointer that was
kept too long does harm. `list` is the caller's pointer and `args` the one
`kprintf` and `arg_flush` got by value. `arg_push` is one action with both of
its allocations: when there is a block for the argument and none for the node,
or for neither, the kernel halts (`varargs.c:24`).
`kprintf` is an action per directive, and one for the free of the argument
after it has been printed. Callers (`kern.c`, `ring3.c`) pass no more arguments
than directives. When it returns they drop their list (`ring3.c`) or free the
node that their pointer still leads to (`kern.c`), in any call. What a second free
does to the heap's segments is not modelled: here it changes nothing.

### Console and Keyboard

`screen` is the VGA memory, as the number of the character in each cell, the
cursor, and whether `scrollUp` and `setCursorPosition` have called each other
until the stack was full (`hung`). Their functions are operators from screen to
screen. `printStrC` is a step per character, since the keyboard's handler runs
between any two of them and its cursor is in a local variable, `index`; the
handler is one step, it cannot be interrupted.

| Action | Code |
|---|---|
| `printStrC`, `printStrC_control`, `printStrC_char`, `printStrC_end` | the call, a turn of its loop for a control character or another, its last lines |
| `printChar` | `printCharC` called by `kprintf` |
| `Press`, `Release` | external: the user, and the codes the keyboard sends |
| `irq01_handler` | the handler of the keyboard with `kbHandler` |

`wire` is what the keyboard has to send, `held` the shifts that are held.
Extended keys come with shifts of their own, before which there is a prefix.
The kernel prints what fits in the row, and line ends by themselves only at the
end of a line that is on the screen (`Fits`). In most of its messages line ends come
last; `kern.c:95` prints one with a line end inside, which only
`Keyboard_scroll.cfg` has.

### Conversion

A step per digit. `strOutput` is the one buffer; `irq_klog` is what a handler
does to it when it logs: it converts a line number. A word has `Bytes` bytes, so
the four `hex2str` functions are one. Their loop runs on beyond the value, to
any byte, and stores before the buffer: `below` remembers it. The loops' number of
turns and the values printed are stated by `Quotients`, what is left of a number
after so many divisions by the base. The least s64 is not among the numbers: it has
no negation.

### Interrupts

`irr` and `isr` are the registers of both controllers, lines 0 to 15, and `high`
the lines whose device has not lowered them: a line that is high requests
nothing new. `handler` and `step` are the handler that runs (one at a time, the
gates turn interrupts off) and where it is, so that devices act between its
steps; `pc` is where `_start` is.

| Action | Code |
|---|---|
| `SetFrequency`, `initIdt`, `pic_remap`, `sti`, `set_mainkbhandler` | `_start` in its order |
| `Sleep`, `Sleepd_test`, `Sleepd_hlt` | the loop of `Sleepd`: the test and the `hlt` are two steps |
| `read_pit_count`, `set_pit_count` | the functions, which turn interrupts off and not on |
| `Interrupt` | external and `initIdt`: delivery of the highest line |
| `handler_klog`, `Tick`, `irq01_inb`, `handler_print`, `handler_EOI`, `iret` | the handlers' lines in their order |
| `TimerExpires`, `KeyArrives`, `MouseMoves`, `OtherRaises`, `PortTransmits` | external: devices |

`pic_sendEOI` is never told the line in a form it understands: its callers pass
vectors, which are all above 8, and it always acknowledges both controllers.
The model has the highest line in service of each ended, as the controllers do.
A log record that the level lets through needs room in the serial port, which
`klog` waits for without a limit.

### Exceptions

The CPU runs a program of instructions with lengths; a breakpoint, an access to
a debug register or a division may stop it before an instruction, and a data
breakpoint after it. `DR6` keeps its bits. `exc01_handler` and `exc00_handler`
are one step each and return by `iret`.

## 3. Runs

| Run | Shows | Bounds |
|---|---|---|
| `PMM_pass` | type, exclusive grants, protected and reserved pages safe, the bits of the guarded part of the zone set, `FramePool` implemented; of callers that free no pointer into the gap behind the bitmap | ints of 3 bits, words of 6, pages of 4 bytes; four maps (flat; that of a PC with a hole, a ROM and a region ending inside a page; out of order and overlapping; empty), three contents of the RAM, pointers into the kernel, the bitmap and to the end of its page |
| `PMM_heap` | pages of the heap are handed out (violation) | the PC's map |
| `Heap_pass` | blocks disjoint and inside their segments, no pointer into data, segments tile, all recovered, no free segment hidden, `free` finds the segment of a block that was moved up; of callers that never allocate above a hole and free what is found | 41 words from an odd address, requests of 1, 16 and 32 bytes, alignment of two words, 4 blocks, RAM and data without bit 63 or with it in one word |
| `Heap_overlap` | overlap when callers allocate above a hole (violation) | 40 words, no alignment |
| `VMM_pass` | tables a tree, frames accounted for, no use after free, TLB, `AddressSpace` implemented; of clients that load CR3 and ask for no fewer attributes | tables of 2 entries, 3 pages, 4 frames |
| `VMM_init` | the kernel's page unmapped (violation) | the same |
| `ArgList_pass` | no dangling pointer in the list in use, nothing lost but what `arg_flush` drops, nothing freed twice but by a caller that frees its list, `Fifo` implemented | 8 blocks, 5 formats of up to three directives |
| `Keyboard_pass` | the last characters on the screen in order, of texts that end with their line ends and while no key acts on the screen; no shift stuck | 3 by 3 cells, 12 characters, the right shift and Delete, 4 codes waiting |
| `Keyboard_screen` | type, the cursor within three rows below the screen | 2 by 2 cells, every key that moves the cursor or writes, 2 codes waiting |
| `Conversion_pass` | what is printed is the number | words of 2 bytes, numbers around the powers of ten, levels that handlers do not log at |
| `Interrupts_pass` | in a boot without interrupts before `pic_remap`: type, no tick and no key lost, only lines without a handler stuck; ticks for ever, `Sleep` returns, requests served | lines 0, 1, 3, 12 and 14 (3 and 14 without a handler), levels NONE, DEBUG and TRACE, sleeps of 2 ticks |
| `Exceptions_pass` | every instruction is passed, every breakpoint reported | five instructions, breakpoints 0 and 3 |

Why the bounds are enough. PMM: a word has both halves, the flat map has three
words, so every wrap of the mask and both sides of the guards occur; the bitmap
is always one page, as it is below 128 MiB, and `PMM_bitmap.cfg` has one of
several. Heap: 41 words hold up to five segments, so a block has
free or used neighbours on either side, remainders can and cannot be split, a
block is moved up or not, and the heap gets full. VMM: two pages share a page
table and one parts from them at the root. Other callers hold any number of the
frames at first and may give them back, so a map fails at the PDPT, the PD or
the PT, and is tried again when a frame is free; when they hold none, all three
pages can be mapped. ArgList: four values fit, so a push fails at the argument
or at the node and blocks are reused in every order. Console: twelve characters
on nine cells scroll the screen more than once, by one row and by two; the
cursor gets to every row below the screen it can get to. Keyboard: four codes
are a whole extended key with its shift; the theorem is for any number.
Conversion: both signs, one to four digits, leading zeros, all bits set.
Interrupts: each controller has a line with a handler and one without, and one
of them is above the other; two ticks make the test and the `hlt` of `Sleepd`
meet a tick in every place. Exceptions: the first and the last breakpoint on
instructions of one and of more bytes, with the general-detect fault between.

Deadlock is not checked where the system really stops: a heap that is full of
blocks whose segment `free` does not find, the VMM after `vm_initialize`, the
kernel halted or with its frames, list, screen or bounds used up; a CPU that is halted with interrupts off; a program that went on inside
a division.

### Fairness

`Interrupts` has the only components that run by themselves. `FairSpec` assumes
that the CPU executes (`Handler`: weak; `Boot` and `Sleepd`: strong, since
interrupts disable them again and again, and a handler takes far less than the
time to the next tick), that a line that is delivered again and again is taken
(strong, for the same reason: lines above it disable it), that the counter
counts down and that the serial port transmits (weak). No device is assumed to
raise a line, and nobody to press a key or to call `Sleep`. `TimerKeepsTicking`
is about runs in which interrupts are on again and again, `Served` about lines
above which nothing is pending again and again: without these conditions
neither is true of the hardware. `Exceptions` assumes that the CPU goes on.
Everywhere else the components are passive: whether callers call again is up to
them, and nothing is claimed to happen.

### Counterexamples kept beside the runs

The violations among the runs are what the code does, each against a sentence of
its own documentation, quoted in `PROJECT.json` under `findings`. The other
configurations here are the same kind of thing. Each is violated by what the
code does; where two rows name one configuration, TLC shows both violations with
`-continue`:

| Configuration | Violated | What the code does, and the sentence it is against |
|---|---|---|
| `PMM_null` | `NullMeansOutOfMemory` | `1 << (bit % 64)` is an int (`mmap.c:56`): the upper half of every word of frames is never handed out, and null comes while frames are free |
| `PMM_bitmap` | `BitmapNeverGranted` | words are divided by 0x1000 where bytes should be (`mmap.c:92`): from 128 MiB on, pages of the bitmap are handed out; "finally, mark bitmap pages", `mmap.c:90` |
| `PMM_stray` | `ProtectedStayBusy` | a pointer behind the end of the bitmap, into the rest of its page, is freed (`mmap.c:122`); "Does nothing if we try to free a protected zone (including kernel and bitmap)", `mmap.h:37` |
| `Heap_null` | `NullMeansNoFreeSegment` | once the heap was full, `free` never restores the head of the free list (`heap.c:153`); "no free mem available", `heap.c:21` |
| `Heap_stale` | `FreeFindsSegment` | a header over a word with bit 63 set, by an old mark, a caller's data or what the RAM held, keeps the bit, and `free` takes an ordinary block for an aligned one (`heap.c:148`); "Warning : realloc() doesn't preserve alignment.", `kern.c:96`, is the only warning |
| `VMM_tlb` | `TLBCoherent` | `invlpg` gets the stack slot of its parameter (`vmem.c:220`); "clears translation lookaside buffer entry specified by addr", `vmem.h:184` |
| `VMM_map` | `ImplementsAddressSpace` | the requested attributes are or-ed to those the entry had (`vmem.c:343`): none is ever taken back; "with the requested attributes", `vmem.h:192` |
| `VMM_map` | `LookupsFindEntries` | three lookups use `PT_INDEX` (`vmem.c:197`, 201, 205); "finds and returns address of entry which maps addr in PD p", `vmem.h:157` |
| `Interrupts_boot` | `TimerKeepsTicking` | the timer starts before `pic_remap`, which forgets its request when the log was slow (`kern.c:39`); "init kernel timer to 100 Hz", `kern.c:39` |
| `Interrupts_irr` | `IrrIsCombined` | the second controller is read at port `PIC2_CMD << 8` (`pic.c:9`); "Returns combined value of the cascaded PICs irq request register", `pic.h:30` |
| `Keyboard_scroll` | `TextInOrder` | the cursor goes two rows up and a string with a line end inside overwrites itself (`textprint.c:32`); "cursor -> one line up", `textprint.c:32` |
| `Keyboard_return` | `NeverHangs` | Return below the screen: `scrollUp` and `setCursorPosition` call each other without end; "should be signed to handle scrollUp limits", `textprint.c:3` |
| `Keyboard_shift` | `HeldShiftIsKnown` | `kbFlag &= ! LSHIFT` clears every flag (`kbhandler.c:31`); "Left shift released", `kbhandler.c:30` |
| `ArgList_free` | `FreedOnce` | `_start` frees the node that `kprintf` popped and freed (`kern.c:112`); "newarg to be freed by arg_pop", `varargs.c:19` |
| `ArgList_push` | `PushReturns` | without memory `arg_push` halts (`varargs.c:24`); "on Failure : nullptr", `varargs.h:35` |
| `Exceptions_stale` | `NoneMissed` | `DR6` is never cleared (`interrupts.c:42`): after a stale bit a data breakpoint sets RF, and the next instruction's breakpoint is missed |
| `Exceptions_div` | `AtInstruction` | `rip + 1` is inside a division (`interrupts.c:30`); "DIV or IDIV opcode size is 1", `interrupts.c:30` |
| `Exceptions_div` | `FlagsFound` | a field of one bit is anded with another bit of the mask (`debug_regs.c:225`); "Function to check if any flags are set based on a mask", `debug_regs.c:224` |
| `Conversion_hex` | `StoresInBuffer` | the loops run `2 * sizeof - 1` times over `sizeof` bytes (`textprint.c:102`); "extern u8 strOutput[128]", `textprint.h:27` |

They show what the passing run of each module leaves out: pointers into the gap
and maps of 128 MiB (`PMM`), `AnyOrder` and blocks whose segment is not found,
`TrustFlush`, `Narrows`, `QuietBoot`, texts, keys, kinds of breakpoints and
levels of the log. `FreedOnce` and `NeverHangs` are false of the code and no
passing run has them; `OnlyCallerFreesTwice` and `CursorBounded` are what is true.

## 4. Proofs

### PMM_proofs

Proved for all widths, page sizes, memory maps and initial contents of the RAM:

* `TypeCorrect`: `Spec => []TypeOK`;
* `Exclusive`: no frame is granted twice;
* `ProtectedSafe`: the pages that the last loop of `pmBitmapInit` marks are
  nobody's;
* `GuardedBusy`: their bits stay set whatever pointers of the zone are freed, but
  for those of the gap;
* `BitmapSafe`: the bitmap's own pages are nobody's, as long as it fits in the
  pages the code counts for it (`BitmapFits`; below 128 MiB it does);
* `ReservedSafe`: a reserved frame whose mask no later usable region clears is
  never granted;
* `Refinement`: `PMM` implements `FramePool`, as long as the bitmap leaves room
  in its last page (`BitmapLeavesRoom`).

Assumptions: those named in `PMM`, and `KernelStraysOnly`: a caller that holds
no frame passes no pointer above the start of the bitmap (as `kern.c`, the only
one that does so). It is needed because `pm_free_block` compares with the end of
the bitmap and not with the end of its last page. `GuardedBusy` needs less
(`ZoneStraysOnly`: such pointers lie in the kernel or in the bitmap's first page,
the gap included).

The argument. `NoDoubleGrant` alone is not inductive: a grant takes the first
clear frame, and that it is nobody's follows from *every owned frame's bits
being set* (`OwnedMarked`). A free clears the bits of one mask, and must leave
those of the other owned frames alone; masks overlap, but an owned frame was
found by the scan, which only ever returns frames of the low half of a word
(`FirstFree`: a frame of the high half shares its mask with a lower frame,
`LowTwin`), and the masks of two such frames are disjoint (`MaskDisjoint`,
`SharedCell`). The same reason keeps the protected pages busy: a freed frame is
above the zone and its mask meets no mask of it. `GuardInv` is that part alone,
for the zone without the gap, so that it survives the frees of the gap's pages.
These parts make up `IInv`,
proved by `IInvInit` and `IInvStep`. `ReservedInv` adds the history of the
regions already read. The refinement shows that a free or a grant changes the
bits of one managed frame only, so that the pool never changes.

Working out the refinement showed that when the bitmap exactly fills its last
page, the first frame after it can be granted but not freed (`<=` at
`mmap.c:122`); hence the strict bound.

### Heap_proofs

Proved for every heap, every set of requests and alignments and any number of
calls, about `AlignedSpec` with `AnyOrder = FALSE`: `TypeCorrect`,
`BlocksNeverOverlap` (`NoOverlap`), `PointersStayInHeaders`
(`NoPointerIntoData`), `SegmentsTileTheHeap` (`ChainTilesHeap`), `HeapRecovers`
(`AllRecovered`), `FreeListIsComplete` (`NoneHidden`), `GivenStaysInside`
(`GivenInside`), `MovedIsFound` (`MovedFound`), the last for everything that the
RAM held and callers write.

The assumption `AnyOrder = FALSE` is on the callers and is needed:
`Heap_overlap` is the overlap without it. `free` may still be called in any order.

The invariant. The segments are not a list in the state: they are what the
headers' `nextSeg` lead to. `IInv` says that there is a set `chain` of headers
with the shape of the lists, `Good`:

* `Tiles`: the headers of `chain` follow each other, both ways, from the base to
  the end, each where the one before it ends;
* `Uses`: the blocks callers hold are the segments that are not free;
* `Merged`: no two free segments are neighbours;
* `HeadIsLowest`: the head of the free list, if there is one, is the lowest free
  segment;
* `Hints`: a hint up leads up, and a hint down leads into a free segment below,
  which may be the one that has swallowed the header it was made for. This is as
  much as is true: hints go stale, and that none leads into data is the point;
* `Sound`: headers that are kept lead to each other only and no block covers one.

`free` keeps all of this whatever the order (`FreeGood`, from what relinking and
the two merges do to the shape: `RelinkShape`, `MergeNextShape`,
`MergePrevShape`). `malloc` does not: it follows hints. Under the discipline no
free segment lies below one in use when it is called (`Dense`), so with `Merged`
the only free segment is the last, the free list is that segment (`OnlyFree`), and
there is no hint down that could lead into the block it carves out
(`DenseShape`). `memory` then forgets headers that no pointer leads to, which
keeps `Good` since the set that is kept is closed (`ClosureIsClosed`,
`PruneGood`: as many steps as there are headers reach all that can be reached).

The properties follow once the segments found by following the chain are those of
the invariant (`SegmentsAreChain`, by the least segment that is not found).

What callers were given: `Given` says that it is in its block, however far
alignment moved it, and `Marks` that the word before a moved block leads to its
header. What a caller writes is in its own block, behind that word, and a new
header lies in no block, so the word survives.

### VMM_proofs

Proved for tables of every size, every pool of frames and whatever a frame holds
when it is handed out: `TypeCorrect`, `TablesStayATree` (`TablesFormTree`),
`EveryFrameAccounted` (`FramesAccounted`), `NoPageReachesFree`
(`NoUseAfterFree`). With `Narrows = FALSE`, `Refinement`: `VMM` implements
`AddressSpace`; without it this is false (`VMM_map`). With
`TrustFlush = FALSE`, `CachedIsCurrent` (`TLBCoherent`): it is about clients that
load CR3 and says nothing of `vm_flush_tlb_entry` (`VMM_tlb`).

The invariant. `Levels` are the sets of tables that the root leads to in no, one,
two and three steps. `Tree` says that they are disjoint (`Layered`), that above
the page tables an entry is zero or present (`ZeroOrPresent`), that no table has
two parents (`OneParent`) and that what is writable is writable all the way down
(`WritableAbove`). It is what `TablesFormTree` says, in the form the steps need:
`ZeroOrPresent` is why the code's test of the present bit finds every table, and
`OneParent` why a change to the leaf of one page is one to no other. `Accounted`
gives every frame of the pool one use: free, held by another caller, a table, or
the frame of one page that owns it. After `vm_initialize` nothing runs
(`Stopped`): the root is an empty table.

A step of `ensure` is two changes, the fill of a new table outside the tree, which
leaves the tree alone, and the link to it, which adds a table with zero entries;
or it is a mark of an entry as writable. Each keeps `Tree` and moves frames from
free to tables. `vm_map_page_flags` is up to three of these and a write of a
leaf, at every way it can end, so a map that ran out of memory keeps the
invariant with the levels it has built. For the refinement, the levels change no
translation, and the leaf changes the one that is asked for (`OnePage`). That the
attributes are those asked for is `Told`: every page's entry has the attributes
of its last map, so that to or more of them to it gives what was asked.

Proving it brought out `PresetsAssumption` and `PagesAssumption`, which the runs
had made by the values they gave.

### ArgList_proofs

Proved for any number of blocks, all values and all formats: `ListsAreSound`
(`NoDangling`), `OnlyFlushLeaks` (`NoOtherLeak`), `Refinement` (`ArgList`
implements `Fifo`), and `FreeOnce` (`OnlyCallerFreesTwice`): no step of `kprintf`,
`arg_pop` or `arg_flush` frees a free block.

The invariant. `Lists` says that the list is a path: a sequence of nodes without
repetition that leads to null, each with an argument of its own, and that every
block in use is a node of it, an argument of it, the one just popped or one that
`arg_flush` dropped (`Owns`). `Control` says which list: between calls the
caller's; in `kprintf` and `arg_flush` the copy passed by value, while the
caller's pointer is the same or is to a node already freed, and there are no more
nodes than directives left that take an argument, so the list is empty in the
end. Without the last part a caller could go on with a pointer to a freed block.
A caller that frees its list, as `kern.c`, frees what `kprintf` has freed, always
(`ReturnStep`, `ArgList_free`); what `kprintf` frees is in use (`PoppedInUse`).

Pointers are followed by a recursive function, of which only the defining equation
is known. The proofs take the least number of steps at which something would be
wrong (`Least`), and get the equation itself, that such a function exists, in the
same way (`SomeFollows`). That a list never has more nodes than `Fifo` allows
follows from the path being injective.

### Keyboard_proofs

Proved for every size of the screen, every text, every set of keys and any
number of codes that wait, from the assumptions named in `Console` and
`Keyboard`: `TypeCorrect`, `CursorSafe` (`CursorBounded`), `NoStuck`
(`NoStuckShift`). With `OneLineTexts`, that every text is one line: characters
and tabs, then at most one line end, and `QuietKeys`, that no key that is typed
acts on the screen, also `TextStaysInOrder` (`TextInOrder`). Both are needed:
`kern.c:95` is not one line (`Keyboard_scroll`), and a key that echoes prints over
the text.

The cursor. What each operator does to a screen is a lemma: `ScrollUp` either
hangs or leaves the cursor where it may be; `SetCursorPosition`, `PrintCharC` and
`NewLineBounded` bound it by what they are given. The steps are then the console's
(`ConsoleStep`), the user's (`KeyStep`) and the handler's (`HandlerStep`).

No shift stuck. `NoStuckShift` is not inductive: the handler may take a make code
that is on the way. The invariant `KInv` says of all that is on the way that every
make code of a shift is followed by its break or the shift is held, and that
no extended key is cut after its prefix, so that the shifts behind a prefix are
never taken for the user's. `KeySends` shows it for what is sent, `TakeFirst` and
`HandlerTakes` for what is taken.

The text. `TextInOrder` says nothing of where the next character goes, so it is
not inductive. `TextInv` says that what is on the screen lies before the cursor,
or one row further up when the cursor is below the screen, because a scroll that
printing caused has moved the text and the cursor is still that of the string
(`index`). It does so for each of the three phases of a string: nothing has been
scrolled yet (`Begun`), the rest of its line is being printed (`Within`), only the
control characters of its line end are left (`Ending`); and for the screen at rest.
So, with these texts and keys, the cursor never gets where `scrollUp` and
`setCursorPosition` call each other.
`QuietWire` says that the codes on the way are those of the keys that are typed.

### Conversion_proofs

`PrintsRight`: below the level TRACE (`QuietLevels`), what is printed is the number
(`PrintedRight`), for every s64 but the least and every word of 1, 2, 4 or 8 bytes,
in decimal with no leading zero, in hexadecimal or as any number of binary digits.

The invariant `CInv` is that of the loops: the digits stored so far are the last
ones of the number asked for (`LastDigits`), and the value left is the number
divided so many times by the base (`Left`). A byte of `hex2str` is two such steps
(`TwoDigitsStored`, `ByteStored`); the turns of its loop after the last byte store
nothing in the buffer. In `printStr` the end of the string is the first NUL, since
a digit is below 16. `DigitsValue` then says what digits stand for: the number is
what is left of it after `count` divisions, times the power of the base, plus the
value of the digits. For `int2str` and `hex2str` nothing is left; for `bin2str` it is
the remainder (`RemainderIs`), the lower bits.

`Quotients`, `ValueOf` and `Power` are recursive functions: that they exist is
proved by the least counterexample (`SomeDivides`, `SomeSums`, `SomePowers`), as
for the pointers of `ArgList_proofs`.

### Interrupts_proofs

Proved for every set of lines and log levels: `TypeCorrect`; `TimerSafe` and
`KeySafe` (`TimerNeverLost`, `KeyNeverLost`); `NoneStuck` (`OnlyStrayStuck`). They
are about `Spec`, and so about `FairSpec`, which is `Spec` with fairness.

`TimerNeverLost` needs `NothingToForget`, since `pic_remap` forgets requests: in a
quiet boot the timer still counts there. `OnlyStrayStuck` needs to know what
`pic_sendEOI` ends: `ServedIsHighest` says that the line whose handler runs, and
the cascade if it is on the second controller, are the highest in service until
the end of interrupt, because a line is only delivered above all that are in
service; `EndsOwnService` follows, and after it nothing is left in service but
what a line without a handler accounts for (`EndedService`).

### Exceptions_proofs

`NoneIsMissed`: with breakpoints on instructions only (`OnInstructions`) and
divisions in which no instruction begins (`LongDivisions`, true of the CPU's),
no breakpoint of any program is missed (`NoneMissed`), although `DR6` is never
cleared. `Exceptions_stale.cfg` shows that the first assumption is needed. The
invariant `ReportedFirst` says that RF is set only at an instruction whose
breakpoints have been reported, and that the frame of a handler is that of the
instruction that was stopped.

### Only model-checked

Every safety property of the passing runs is proved, under the assumptions named
above.
What stays with TLC are the liveness properties of `Interrupts` (`Served`,
`TimerKeepsTicking`, `SleepReturns`) and `Progress` of `Exceptions`, which are out of
the prover's reach, as is anything about ENABLED; and the properties of the
configurations with violations, which are false.

## 5. Not modelled

* Boot code but for the identity mapping (`paging.asm`): it runs once, before
  there is anything to interleave with, in real mode and against the BIOS.
* `double2str`, `float2str`: floating-point numbers.
* What the handlers of exceptions, of the other devices and of lines without a
  handler print on the console between two characters of the kernel: `Keyboard`
  has the keyboard's handler only, `Interrupts` has the others without the screen.
* The exceptions' handlers that only print, `printmmap`, the debug registers'
  output: no state is changed.
* The serial port's detection and initialisation: one sequence of port writes;
  reading from it, which nobody does.
* `pic_set_mask`, `pic_clear_mask`, `pic_disable`, the vector table of `idt.c` but
  for who has a handler: no caller, or constants.
* `memory.c`, `io.c`, `ring3.c` and the build: no state of their own.

## 6. Plan

1. The safety half of the liveness properties of `Interrupts`: that a step of a
   handler is always possible, so that a handler ends unless the port is dead.
2. The handlers that print (`interrupts.c`), on the console between two characters
   of the kernel, in `Keyboard` or in a module that composes it with `Interrupts`.
