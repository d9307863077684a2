------------------------------ MODULE Interrupts ------------------------------
(***************************************************************************)
(* The kernel's interrupts: _start up to its sti and after (src/kern.c),   *)
(* the handlers of src/interrupts.c, the two controllers (src/pic.c), the  *)
(* timer and Sleep (src/pit.c), and the log's wait for the serial port     *)
(* (src/klog.c, src/serial.c).                                             *)
(*                                                                         *)
(* One CPU.  Handlers sit behind interrupt gates: they run with interrupts *)
(* off and do not nest, but devices raise their lines between any two of   *)
(* their steps.  Lines are edge triggered: a line that is still high       *)
(* requests nothing more until its device has lowered it.                  *)
(*                                                                         *)
(* TimeSinceBoot only matters to Sleepd relative to the time it waits for, *)
(* so the model keeps the number of ticks that are left.  A log record     *)
(* stands for all its bytes, and for those of the functions that are       *)
(* called.  The masks are those the BIOS left: Lines are the lines that    *)
(* are not masked.                                                         *)
(***************************************************************************)
EXTENDS Naturals, FiniteSets

CONSTANTS
    Lines,        \* the interrupt lines that are not masked (0 .. 15)
    Handled,      \* those for which kern.c sets a descriptor
    Levels,       \* the log levels the kernel may have set
    MaxSleep,     \* bound: the ticks a Sleep waits for
    QuietBoot     \* does no line rise before pic_remap?

Cascade == 2      \* the line of the first controller the second one is on
Timer == 0
Keyboard == 1
Mouse == 12
NoLine == 16

DEBUG == 4
TRACE == 5
NONE == 6

ASSUME LinesAssumption ==
    /\ Lines \subseteq (0 .. 15) \ {Cascade}
    /\ Handled \subseteq {0, 1, 4, 8, 12}
    /\ {Timer, Keyboard} \subseteq Handled \cap Lines
    /\ Levels \subseteq 0 .. NONE /\ Levels # {}
    /\ MaxSleep \in Nat
    /\ QuietBoot \in BOOLEAN

VARIABLES
    pc,               \* where _start is
    IF_,              \* its interrupt flag (on the stack while a handler runs)
    handler, step,    \* the line whose handler runs, and where that is
    irr, isr,         \* requests and lines in service, of both controllers
    high,             \* the lines whose device has not lowered them
    counting,         \* is channel 0 of the timer counting?
    buffer,           \* what the keyboard controller's output buffer holds
    mainkbhandler,    \* has it been set?
    left,             \* ticks before TimeSinceBoot reaches what Sleepd waits for
    curLvl,
    room              \* can the serial port take a record?

cpu == <<pc, IF_, handler, step, left, mainkbhandler>>
pics == <<irr, isr>>
devices == <<high, counting, buffer, room>>
vars == <<cpu, pics, devices, curLvl>>

------------------------------------------------------------------------------
(* The log: klog, and write_serial waiting for room *)

Logs(lvl) == curLvl # NONE /\ lvl <= curLvl

klog(lvl) ==
    /\ Logs(lvl) => room
    /\ room' = (room /\ ~ Logs(lvl))

------------------------------------------------------------------------------
(* The controllers *)

First(S) == {l \in S : l < 8}
Second(S) == {l \in S : l >= 8}

(* Lines by priority: those of the second controller come where its own is *)
Rank(l) == IF l < 8 THEN 16 * l ELSE 16 * Cascade + l

Highest(S) == {l \in S : \A k \in S : Rank(l) <= Rank(k)}

(* A line is delivered when nothing of its priority or above is in service *)
Deliverable ==
    {l \in irr : /\ \A k \in First(isr) : Rank(IF l < 8 THEN l ELSE Cascade) < Rank(k)
                 /\ l >= 8 => \A k \in Second(isr) : l < k}

InService(l) == IF l >= 8 THEN {l, Cascade} ELSE {l}

(* The request and in-service registers as pic_get_irr and pic_get_isr read *)
(* them.  The second controller's is asked for at port PIC2_CMD << 8, where *)
(* no device is: reading it gives NoDevice, some value for lines 0 to 7.    *)
NoDevice == 0 .. 7
__pic_get_irq_reg(register) == First(register) \cup NoDevice

(* Mutant: one acknowledgement, for the second controller only *)
pic_sendEOI_SecondOnly == isr \ Highest(Second(isr))

(* Both controllers end what they serve: the callers pass vectors, which    *)
(* are all above 8.                                                         *)
pic_sendEOI == isr \ (Highest(First(isr)) \cup Highest(Second(isr)))

------------------------------------------------------------------------------
(* Devices *)

(* A line that is masked requests nothing *)
Raise(l) ==
    /\ QuietBoot => pc \notin {"SetFrequency", "initIdt", "pic_remap"}
    /\ l \in Lines \ high
    /\ high' = high \cup {l}
    /\ irr' = irr \cup {l}
    /\ UNCHANGED <<cpu, isr, room, curLvl>>

TimerExpires == counting /\ counting' = FALSE /\ Raise(Timer) /\ UNCHANGED buffer

(* The keyboard controller has one output buffer for its two devices *)
KeyArrives ==
    buffer = "empty" /\ buffer' = "key" /\ Raise(Keyboard) /\ UNCHANGED counting

MouseMoves ==
    buffer = "empty" /\ buffer' = "mouse" /\ Raise(Mouse) /\ UNCHANGED counting

OtherRaises ==
    /\ \E l \in Lines \ {Timer, Keyboard, Mouse} : Raise(l)
    /\ UNCHANGED <<counting, buffer>>

PortTransmits ==
    /\ ~ room
    /\ room' = TRUE
    /\ UNCHANGED <<cpu, pics, high, counting, buffer, curLvl>>

------------------------------------------------------------------------------
(* The kernel *)

Init ==
    /\ pc = "SetFrequency"
    /\ IF_ = FALSE
    /\ handler = NoLine /\ step = "none"
    /\ irr = {} /\ isr = {} /\ high = {}
    /\ counting = FALSE
    /\ buffer = "empty"
    /\ mainkbhandler = FALSE
    /\ left = 0
    /\ curLvl \in Levels
    /\ room = TRUE

At(from, to) == handler = NoLine /\ pc = from /\ pc' = to /\ UNCHANGED <<handler, step, curLvl>>

(* The control word and the two bytes of the count: channel 0 starts, its   *)
(* output low, in the mode in which it counts once.                         *)
StartCounter == counting' = TRUE /\ high' = high \ {Timer}

SetFrequency ==
    /\ At("SetFrequency", "initIdt")
    /\ klog(TRACE)
    /\ StartCounter
    /\ UNCHANGED <<IF_, left, mainkbhandler, pics, buffer>>

initIdt ==
    /\ At("initIdt", "pic_remap")
    /\ klog(DEBUG)
    /\ UNCHANGED <<IF_, left, mainkbhandler, pics, high, counting, buffer>>

(* ICW1 forgets the requests: a line that is high must fall and rise again *)
pic_remap ==
    /\ At("pic_remap", "sti")
    /\ irr' = {} /\ isr' = {}
    /\ UNCHANGED <<IF_, left, mainkbhandler, devices>>

sti ==
    /\ At("sti", "set_mainkbhandler")
    /\ IF_' = TRUE
    /\ UNCHANGED <<left, mainkbhandler, pics, devices>>

set_mainkbhandler ==
    /\ At("set_mainkbhandler", "run")
    /\ mainkbhandler' = TRUE
    /\ UNCHANGED <<IF_, left, pics, devices>>

Sleep(ticks) ==
    /\ At("run", "check")
    /\ left' = ticks
    /\ UNCHANGED <<IF_, mainkbhandler, pics, devices>>

(* The loop of Sleepd: the test, and then the hlt that the interrupt it     *)
(* waits for may come before.                                               *)
Sleepd_test ==
    /\ At("check", IF left = 0 THEN "run" ELSE "hlt")
    /\ UNCHANGED <<IF_, left, mainkbhandler, pics, devices>>

Sleepd_hlt ==
    /\ At("hlt", "halted")
    /\ UNCHANGED <<IF_, left, mainkbhandler, pics, devices>>

(* cli, and no sti: read_pit_count, and set_pit_count which starts the      *)
(* count anew.                                                              *)
read_pit_count ==
    /\ At("run", "run")
    /\ IF_' = FALSE
    /\ UNCHANGED <<left, mainkbhandler, pics, devices>>

set_pit_count ==
    /\ At("run", "run")
    /\ IF_' = FALSE
    /\ StartCounter
    /\ UNCHANGED <<left, mainkbhandler, pics, buffer, room>>

------------------------------------------------------------------------------
(* Handlers *)

(* Mutant: both controllers are given the same vectors by pic_remap *)
Interrupt_SameVectors(l) ==
    /\ IF_ /\ handler = NoLine
    /\ l \in Highest(Deliverable)
    /\ handler' = l % 8
    /\ step' = IF l % 8 \in {Timer, Keyboard} THEN "klog" ELSE "print"
    /\ irr' = irr \ {l}
    /\ isr' = isr \cup InService(l)
    /\ pc' = IF pc = "halted" THEN "check" ELSE pc
    /\ UNCHANGED <<IF_, left, mainkbhandler, devices, curLvl>>

(* The line's gate; a halted CPU goes on after its hlt *)
Interrupt(l) ==
    /\ IF_ /\ handler = NoLine
    /\ l \in Highest(Deliverable)
    /\ handler' = l
    /\ step' = IF l \in {Timer, Keyboard} THEN "klog" ELSE "print"
    /\ irr' = irr \ {l}
    /\ isr' = isr \cup InService(l)
    /\ pc' = IF pc = "halted" THEN "check" ELSE pc
    /\ UNCHANGED <<IF_, left, mainkbhandler, devices, curLvl>>

From(here, there) ==
    /\ handler # NoLine /\ step = here /\ step' = there
    /\ UNCHANGED <<pc, IF_, mainkbhandler, curLvl>>

handler_klog ==
    /\ From("klog", IF handler = Timer THEN "Tick" ELSE "inb")
    /\ klog(TRACE)
    /\ UNCHANGED <<handler, left, pics, high, counting, buffer>>

(* Mutant: the counter is not started again *)
Tick_Once ==
    /\ From("Tick", "EOI")
    /\ klog(TRACE)
    /\ left' = IF left = 0 THEN 0 ELSE left - 1
    /\ UNCHANGED <<handler, pics, high, counting, buffer>>

Tick ==
    /\ From("Tick", "EOI")
    /\ klog(TRACE)
    /\ StartCounter
    /\ left' = IF left = 0 THEN 0 ELSE left - 1
    /\ UNCHANGED <<handler, pics, buffer>>

(* Mutant: the byte is read only when there is a handler for it *)
irq01_inb_Guarded ==
    /\ From("inb", "EOI")
    /\ buffer' = IF mainkbhandler THEN "empty" ELSE buffer
    /\ high' = IF mainkbhandler THEN high \ {Keyboard} ELSE high
    /\ UNCHANGED <<handler, left, pics, counting, room>>

(* Reading port 0x60 empties the buffer and lowers the lines it raised *)
irq01_inb ==
    /\ From("inb", "EOI")
    /\ buffer' = "empty"
    /\ high' = high \ {Keyboard, Mouse}
    /\ UNCHANGED <<handler, left, pics, counting, room>>

(* The other handlers print a line.  That of a line without a descriptor of *)
(* its own ends there, and acknowledges nothing.                            *)
handler_print ==
    /\ From("print", IF handler \in Handled THEN "EOI" ELSE "iret")
    /\ UNCHANGED <<handler, left, pics, devices>>

handler_EOI ==
    /\ From("EOI", "iret")
    /\ isr' = pic_sendEOI
    /\ UNCHANGED <<handler, left, irr, devices>>

iret ==
    /\ From("iret", "none")
    /\ handler' = NoLine
    /\ UNCHANGED <<left, pics, devices>>

------------------------------------------------------------------------------

Boot == SetFrequency \/ initIdt \/ pic_remap \/ sti \/ set_mainkbhandler
Sleepd == Sleepd_test \/ Sleepd_hlt
Handler == handler_klog \/ Tick \/ irq01_inb \/ handler_print \/ handler_EOI \/ iret

Next ==
    \/ Boot
    \/ \E ticks \in 1 .. MaxSleep : Sleep(ticks)
    \/ Sleepd
    \/ read_pit_count
    \/ set_pit_count
    \/ \E l \in Lines : Interrupt(l)
    \/ Handler
    \/ TimerExpires
    \/ KeyArrives
    \/ MouseMoves
    \/ OtherRaises
    \/ PortTransmits

(* The CPU executes; the counter counts down; the port transmits.  Handlers *)
(* take far less than the time between two ticks, so that neither _start    *)
(* nor a line of low priority is kept waiting by the others for ever.       *)
Fairness ==
    /\ SF_vars(Boot \/ Sleepd)
    /\ \A l \in Lines : SF_vars(Interrupt(l))
    /\ WF_vars(Handler)
    /\ WF_vars(TimerExpires)
    /\ WF_vars(PortTransmits)

Spec == Init /\ [][Next]_vars
FairSpec == Spec /\ Fairness

------------------------------------------------------------------------------
(* Properties *)

(* No handler runs but that of a line that is not masked, and no more ticks *)
(* are waited for than Sleep was asked for                                  *)
TypeOK ==
    /\ pc \in {"SetFrequency", "initIdt", "pic_remap", "sti", "set_mainkbhandler",
               "run", "check", "hlt", "halted"}
    /\ IF_ \in BOOLEAN /\ counting \in BOOLEAN /\ mainkbhandler \in BOOLEAN
    /\ room \in BOOLEAN
    /\ handler \in Lines \cup {NoLine}
    /\ step \in {"none", "klog", "Tick", "inb", "print", "EOI", "iret"}
    /\ irr \subseteq Lines /\ high \subseteq Lines
    /\ isr \subseteq Lines \cup {Cascade}
    /\ buffer \in {"empty", "key", "mouse"}
    /\ left \in 0 .. MaxSleep
    /\ curLvl \in Levels

(* In a quiet boot the timer is never lost: it counts, or its request is    *)
(* pending, or its handler is on the way to start it again, whatever other  *)
(* lines do.  With lines that rise before pic_remap it may be.              *)
TimerNeverLost ==
    QuietBoot /\ pc # "SetFrequency" =>
        \/ counting
        \/ Timer \in irr
        \/ handler = Timer /\ step \in {"klog", "Tick"}

(* In a quiet boot a byte of the keyboard is never left in the controller's *)
(* buffer, which would keep every later one out, without a request or a     *)
(* handler for it.  A key typed before pic_remap is, and so may be a byte   *)
(* of the mouse, of which nothing is said here.                             *)
KeyNeverLost ==
    QuietBoot /\ buffer = "key" =>
        \/ Keyboard \in irr
        \/ handler = Keyboard /\ step \in {"klog", "inb"}

(* The lines that stay in service although no handler runs for them *)
Stuck == {l \in isr : handler = NoLine \/ l \notin InService(handler)}

(* pic_sendEOI, which never says which line it ends, ends the line whose    *)
(* handler calls it and no other: only lines without a handler get stuck.   *)
OnlyStrayStuck ==
    \A l \in Stuck : \E s \in Lines \ Handled : l \in InService(s)

(* "init kernel timer to 100 Hz", kern.c:39: after a quiet boot ticks go on *)
(* for ever, as long as _start does not turn interrupts off for good.  With *)
(* a tick before pic_remap they do not (Interrupts_boot.cfg).               *)
TimerKeepsTicking == []<>IF_ => []<>(handler = Timer /\ step = "Tick")

(* Sleep returns, though the tick it waits for may come before its hlt *)
SleepReturns == pc = "check" /\ IF_ ~> pc = "run"

(* Every line with a handler that requests service gets it, if again and    *)
(* again no request above its own is pending while interrupts are on,       *)
(* unless a line without a handler got stuck: then only the timer and the   *)
(* keyboard, which are above all the others, are still served.              *)
Served ==
    \A l \in Handled \cap Lines :
        []<>(IF_ /\ handler = NoLine /\ \A k \in irr : Rank(l) <= Rank(k)) =>
            (l \in irr ~>
                (l \notin irr \/ (l \notin {Timer, Keyboard} /\ Stuck # {})))

(* "Returns combined value of the cascaded PICs irq request register",      *)
(* pic.h:30: a request to the second controller is in the value.            *)
IrrIsCombined == Second(irr) \subseteq __pic_get_irq_reg(irr)
===============================================================================
