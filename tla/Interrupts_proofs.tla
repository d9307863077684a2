-------------------------- MODULE Interrupts_proofs --------------------------
(***************************************************************************)
(* Proofs about Interrupts, for every set of lines, of handlers and of log *)
(* levels.                                                                 *)
(***************************************************************************)
EXTENDS Interrupts, TLAPS

USE DEF Cascade, Timer, Keyboard, Mouse, NoLine

(* Before pic_remap, which forgets requests, nothing has been requested if  *)
(* the boot is quiet: the timer still counts and no byte has come.          *)
NothingToForget ==
    QuietBoot =>
        /\ pc \in {"initIdt", "pic_remap"} => counting
        /\ pc \in {"SetFrequency", "initIdt", "pic_remap"} => buffer = "empty"

(* A line in service that some line without a handler accounts for *)
Explained(l) == \E s \in Lines \ Handled : l \in InService(s)

(* The line of the first controller through which a line is served *)
Own(l) == IF l >= 8 THEN Cascade ELSE l

(* While a handler has not ended its service its lines are the highest in   *)
(* service: they are what pic_sendEOI, which names none, will end.          *)
ServedIsHighest ==
    handler # NoLine /\ step # "iret" =>
        /\ InService(handler) \subseteq isr
        /\ \A k \in First(isr) \ {Own(handler)} : Rank(Own(handler)) < Rank(k)
        /\ handler >= 8 => \A k \in Second(isr) \ {handler} : handler < k

(* A handler that returns leaves no line in service that is not explained *)
EndedService == step = "iret" => \A l \in isr : Explained(l)

------------------------------------------------------------------------------
(* The controllers *)

(* The vectors of lines are numbers below 16, and NoLine is none of them. *)
LEMMA LinesAreSmall ==
    /\ \A l \in Lines : l \in 0 .. 15 /\ l # NoLine /\ l # Cascade
    /\ Timer \in Lines /\ Keyboard \in Lines
    /\ Timer \in Handled /\ Keyboard \in Handled
BY LinesAssumption

(* pic_sendEOI ends the service of the handler that calls it, if that is    *)
(* the highest in service, and never puts a line in service.                *)
LEMMA EndsOwnService ==
    ASSUME TypeOK, ServedIsHighest, handler # NoLine, step # "iret"
    PROVE  pic_sendEOI \subseteq {l \in isr : l \notin InService(handler)}
<1>1. handler \in Lines /\ handler \in 0 .. 15 /\ isr \subseteq 0 .. 15
  BY LinesAreSmall DEF TypeOK
<1>2. Own(handler) \in First(isr)
  BY <1>1 DEF ServedIsHighest, InService, Own, First
<1>3. Own(handler) \in Highest(First(isr))
  BY <1>1, <1>2 DEF ServedIsHighest, Highest, First, Rank, Own
<1>4. ASSUME handler >= 8
      PROVE  handler \in Highest(Second(isr))
  <2>1. handler \in Second(isr)
    BY <1>1, <1>4 DEF ServedIsHighest, InService, Second
  <2> QED
    BY <1>1, <1>4, <2>1 DEF ServedIsHighest, Highest, Second, Rank
<1> QED
  BY <1>1, <1>3, <1>4 DEF pic_sendEOI, InService, Own

------------------------------------------------------------------------------
(* Types *)

(* Every variable keeps its type at the start. *)
LEMMA TypeInit == Init => TypeOK
<1> SUFFICES ASSUME Init
             PROVE  TypeOK
  OBVIOUS
<1>1. MaxSleep \in Nat
  BY LinesAssumption
<1>2. IF_ \in BOOLEAN /\ counting \in BOOLEAN /\ mainkbhandler \in BOOLEAN /\ room \in BOOLEAN
  BY DEF Init
<1> QED
  BY <1>1, <1>2 DEF Init, TypeOK

(* A line that is raised is one of Lines. *)
LEMMA TypeRaise ==
    ASSUME NEW l \in Lines, TypeOK, Raise(l), counting' \in BOOLEAN,
           buffer' \in {"empty", "key", "mouse"}
    PROVE  TypeOK'
BY DEF TypeOK, Raise, cpu

(* Every variable keeps its type at every step. *)
LEMMA TypeStep == TypeOK /\ [Next]_vars => TypeOK'
<1> SUFFICES ASSUME TypeOK, [Next]_vars
             PROVE  TypeOK'
  OBVIOUS
<1> USE DEF TypeOK
<1>1. CASE SetFrequency
  BY <1>1 DEF SetFrequency, At, klog, StartCounter, pics
<1>2. CASE initIdt
  BY <1>2 DEF initIdt, At, klog, pics
<1>3. CASE pic_remap
  BY <1>3 DEF pic_remap, At, devices
<1>4. CASE sti
  BY <1>4 DEF sti, At, pics, devices
<1>5. CASE set_mainkbhandler
  BY <1>5 DEF set_mainkbhandler, At, pics, devices
<1>6. ASSUME NEW ticks \in 1 .. MaxSleep, Sleep(ticks)
      PROVE  TypeOK'
  BY <1>6, LinesAssumption DEF Sleep, At, pics, devices
<1>7. CASE Sleepd
  BY <1>7 DEF Sleepd, Sleepd_test, Sleepd_hlt, At, pics, devices
<1>8. CASE read_pit_count
  BY <1>8 DEF read_pit_count, At, pics, devices
<1>9. CASE set_pit_count
  BY <1>9 DEF set_pit_count, At, StartCounter, pics
<1>10. ASSUME NEW l \in Lines, Interrupt(l)
       PROVE  TypeOK'
  BY <1>10 DEF Interrupt, InService, devices
<1>11. CASE handler_klog
  BY <1>11 DEF handler_klog, From, klog, pics
<1>12. CASE Tick
  BY <1>12, LinesAssumption DEF Tick, From, klog, StartCounter, pics
<1>13. CASE irq01_inb
  BY <1>13 DEF irq01_inb, From, pics
<1>14. CASE handler_print
  BY <1>14 DEF handler_print, From, pics, devices
<1>15. CASE handler_EOI
  BY <1>15 DEF handler_EOI, From, pic_sendEOI, devices
<1>16. CASE iret
  BY <1>16 DEF iret, From, pics, devices
<1>17. CASE TimerExpires
  BY <1>17, LinesAreSmall, TypeRaise DEF TimerExpires
<1>18. CASE KeyArrives
  BY <1>18, LinesAreSmall, TypeRaise DEF KeyArrives
<1>19. CASE MouseMoves
  BY <1>19, TypeRaise DEF MouseMoves, Raise
<1>20. CASE OtherRaises
  BY <1>20, TypeRaise DEF OtherRaises
<1>21. CASE PortTransmits
  BY <1>21 DEF PortTransmits, cpu, pics
<1>22. CASE UNCHANGED vars
  BY <1>22 DEF vars, cpu, pics, devices
<1> QED
  BY <1>1, <1>2, <1>3, <1>4, <1>5, <1>6, <1>7, <1>8, <1>9, <1>10, <1>11, <1>12,
     <1>13, <1>14, <1>15, <1>16, <1>17, <1>18, <1>19, <1>20, <1>21, <1>22
     DEF Next, Boot, Handler

(* Every variable of the processor, the controllers and the devices keeps   *)
(* its type.                                                                *)
THEOREM TypeCorrect == Spec => []TypeOK
<1> QED
  BY TypeInit, TypeStep, PTL DEF Spec

------------------------------------------------------------------------------
(* The timer *)

(* What a quiet boot leaves to forget stays nothing, and no step loses the  *)
(* timer: the counter stops only with a request, the request is taken only  *)
(* by the handler, and the handler starts the counter before it ends.       *)
LEMMA TimerStep ==
    NothingToForget /\ TimerNeverLost /\ [Next]_vars => NothingToForget' /\ TimerNeverLost'
<1> SUFFICES ASSUME NothingToForget, TimerNeverLost, [Next]_vars
             PROVE  NothingToForget' /\ TimerNeverLost'
  OBVIOUS
<1> USE DEF NothingToForget, TimerNeverLost
<1>1. CASE SetFrequency
  BY <1>1 DEF SetFrequency, At, klog, StartCounter, pics
<1>2. CASE initIdt
  BY <1>2 DEF initIdt, At, klog, pics
<1>3. CASE pic_remap
  BY <1>3 DEF pic_remap, At, devices
<1>4. CASE sti
  BY <1>4 DEF sti, At, pics, devices
<1>5. CASE set_mainkbhandler
  BY <1>5 DEF set_mainkbhandler, At, pics, devices
<1>6. ASSUME NEW ticks \in 1 .. MaxSleep, Sleep(ticks)
       PROVE  NothingToForget' /\ TimerNeverLost'
  BY <1>6 DEF Sleep, At, pics, devices
<1>7. CASE Sleepd
  BY <1>7 DEF Sleepd, Sleepd_test, Sleepd_hlt, At, pics, devices
<1>8. CASE read_pit_count
  BY <1>8 DEF read_pit_count, At, pics, devices
<1>9. CASE set_pit_count
  BY <1>9 DEF set_pit_count, At, StartCounter, pics
<1>10. ASSUME NEW l \in Lines, Interrupt(l)
       PROVE  NothingToForget' /\ TimerNeverLost'
  BY <1>10 DEF Interrupt, devices
<1>11. CASE handler_klog
  BY <1>11 DEF handler_klog, From, klog, pics
<1>12. CASE Tick
  BY <1>12 DEF Tick, From, klog, StartCounter, pics
<1>13. CASE irq01_inb
  BY <1>13 DEF irq01_inb, From, pics
<1>14. CASE handler_print
  BY <1>14 DEF handler_print, From, pics, devices
<1>15. CASE handler_EOI
  BY <1>15 DEF handler_EOI, From, devices
<1>16. CASE iret
  BY <1>16 DEF iret, From, pics, devices
<1>17. CASE TimerExpires
  BY <1>17 DEF TimerExpires, Raise, cpu
<1>18. CASE KeyArrives
  BY <1>18 DEF KeyArrives, Raise, cpu
<1>19. CASE MouseMoves
  BY <1>19 DEF MouseMoves, Raise, cpu
<1>20. CASE OtherRaises
  BY <1>20 DEF OtherRaises, Raise, cpu
<1>21. CASE PortTransmits
  BY <1>21 DEF PortTransmits, cpu, pics
<1>22. CASE UNCHANGED vars
  BY <1>22 DEF vars, cpu, pics, devices
<1> QED
  BY <1>1, <1>2, <1>3, <1>4, <1>5, <1>6, <1>7, <1>8, <1>9, <1>10, <1>11, <1>12,
     <1>13, <1>14, <1>15, <1>16, <1>17, <1>18, <1>19, <1>20, <1>21, <1>22
     DEF Next, Boot, Handler

(* As long as no line is raised before pic_remap, the timer always counts,  *)
(* is requested, or is about to be started again by its handler.            *)
THEOREM TimerSafe == Spec => []TimerNeverLost
<1>1. Init => NothingToForget /\ TimerNeverLost
  BY DEF Init, NothingToForget, TimerNeverLost
<1> QED
  BY <1>1, TimerStep, PTL DEF Spec

------------------------------------------------------------------------------
(* The keyboard *)

(* No step leaves a byte in the controller's buffer without a request or a  *)
(* handler for it.                                                          *)
LEMMA KeyStep ==
    NothingToForget /\ KeyNeverLost /\ [Next]_vars => KeyNeverLost'
<1> SUFFICES ASSUME NothingToForget, KeyNeverLost, [Next]_vars
             PROVE  KeyNeverLost'
  OBVIOUS
<1> USE DEF NothingToForget, KeyNeverLost
<1>1. CASE SetFrequency
  BY <1>1 DEF SetFrequency, At, klog, StartCounter, pics
<1>2. CASE initIdt
  BY <1>2 DEF initIdt, At, klog, pics
<1>3. CASE pic_remap
  BY <1>3 DEF pic_remap, At, devices
<1>4. CASE sti
  BY <1>4 DEF sti, At, pics, devices
<1>5. CASE set_mainkbhandler
  BY <1>5 DEF set_mainkbhandler, At, pics, devices
<1>6. ASSUME NEW ticks \in 1 .. MaxSleep, Sleep(ticks)
       PROVE  KeyNeverLost'
  BY <1>6 DEF Sleep, At, pics, devices
<1>7. CASE Sleepd
  BY <1>7 DEF Sleepd, Sleepd_test, Sleepd_hlt, At, pics, devices
<1>8. CASE read_pit_count
  BY <1>8 DEF read_pit_count, At, pics, devices
<1>9. CASE set_pit_count
  BY <1>9 DEF set_pit_count, At, StartCounter, pics
<1>10. ASSUME NEW l \in Lines, Interrupt(l)
       PROVE  KeyNeverLost'
  BY <1>10 DEF Interrupt, devices
<1>11. CASE handler_klog
  BY <1>11 DEF handler_klog, From, klog, pics
<1>12. CASE Tick
  BY <1>12 DEF Tick, From, klog, StartCounter, pics
<1>13. CASE irq01_inb
  BY <1>13 DEF irq01_inb, From, pics
<1>14. CASE handler_print
  BY <1>14 DEF handler_print, From, pics, devices
<1>15. CASE handler_EOI
  BY <1>15 DEF handler_EOI, From, devices
<1>16. CASE iret
  BY <1>16 DEF iret, From, pics, devices
<1>17. CASE TimerExpires
  BY <1>17 DEF TimerExpires, Raise, cpu
<1>18. CASE KeyArrives
  BY <1>18 DEF KeyArrives, Raise, cpu
<1>19. CASE MouseMoves
  BY <1>19 DEF MouseMoves, Raise, cpu
<1>20. CASE OtherRaises
  BY <1>20 DEF OtherRaises, Raise, cpu
<1>21. CASE PortTransmits
  BY <1>21 DEF PortTransmits, cpu, pics
<1>22. CASE UNCHANGED vars
  BY <1>22 DEF vars, cpu, pics, devices
<1> QED
  BY <1>1, <1>2, <1>3, <1>4, <1>5, <1>6, <1>7, <1>8, <1>9, <1>10, <1>11, <1>12,
     <1>13, <1>14, <1>15, <1>16, <1>17, <1>18, <1>19, <1>20, <1>21, <1>22
     DEF Next, Boot, Handler

(* As long as no line is raised before pic_remap, no byte of the keyboard   *)
(* stays in its controller without a request or a handler for it.           *)
THEOREM KeySafe == Spec => []KeyNeverLost
<1>1. Init => NothingToForget /\ TimerNeverLost /\ KeyNeverLost
  BY DEF Init, NothingToForget, TimerNeverLost, KeyNeverLost
<1> QED
  BY <1>1, TimerStep, KeyStep, PTL DEF Spec

------------------------------------------------------------------------------
(* Lines in service *)

StuckInv == OnlyStrayStuck /\ ServedIsHighest /\ EndedService

(* A step that changes neither what is in service nor whose handler runs,   *)
(* and ends no service, keeps what is known of the lines in service.        *)
LEMMA SameService ==
    ASSUME StuckInv, isr' = isr, handler' = handler,
           step' = "iret" => step = "iret", step = "iret" => step' = "iret"
    PROVE  StuckInv'
BY DEF StuckInv, OnlyStrayStuck, Stuck, ServedIsHighest, EndedService, Explained

(* Every step keeps the lines in service explained.  What matters is what   *)
(* happens to them: pic_remap empties the registers, an interrupt is only   *)
(* delivered above all of them, and pic_sendEOI ends the highest.           *)
LEMMA StuckStep == TypeOK /\ StuckInv /\ [Next]_vars => StuckInv'
<1> SUFFICES ASSUME TypeOK, StuckInv, [Next]_vars
             PROVE  StuckInv'
  OBVIOUS
<1>1. CASE SetFrequency
  BY <1>1, SameService DEF SetFrequency, At, klog, StartCounter, pics
<1>2. CASE initIdt
  BY <1>2, SameService DEF initIdt, At, klog, pics
<1>3. CASE pic_remap
  BY <1>3 DEF pic_remap, At, StuckInv, OnlyStrayStuck, Stuck, ServedIsHighest,
          EndedService, First, Second
<1>4. CASE sti
  BY <1>4, SameService DEF sti, At, pics, devices
<1>5. CASE set_mainkbhandler
  BY <1>5, SameService DEF set_mainkbhandler, At, pics, devices
<1>6. ASSUME NEW ticks \in 1 .. MaxSleep, Sleep(ticks)
      PROVE  StuckInv'
  BY <1>6, SameService DEF Sleep, At, pics, devices
<1>7. CASE Sleepd
  BY <1>7, SameService DEF Sleepd, Sleepd_test, Sleepd_hlt, At, pics, devices
<1>8. CASE read_pit_count
  BY <1>8, SameService DEF read_pit_count, At, pics, devices
<1>9. CASE set_pit_count
  BY <1>9, SameService DEF set_pit_count, At, StartCounter, pics
<1>10. ASSUME NEW l \in Lines, Interrupt(l)
       PROVE  StuckInv'
  <2>1. l \in 0 .. 15 /\ isr \subseteq 0 .. 15 /\ handler' = l /\ step' # "iret"
    BY <1>10, LinesAreSmall DEF Interrupt, TypeOK
  <2>2. isr' = isr \cup InService(l) /\ l \in Deliverable /\ handler = NoLine
    BY <1>10 DEF Interrupt, Highest
  <2>3. OnlyStrayStuck'
    BY <2>1, <2>2 DEF StuckInv, OnlyStrayStuck, Stuck
  <2>4. ServedIsHighest'
    BY <2>1, <2>2 DEF ServedIsHighest, InService, Deliverable, First, Second, Own, Rank
  <2> QED
    BY <2>1, <2>3, <2>4 DEF StuckInv, EndedService
<1>11. CASE handler_klog
  BY <1>11, SameService DEF handler_klog, From, klog, pics
<1>12. CASE Tick
  BY <1>12, SameService DEF Tick, From, klog, StartCounter, pics
<1>13. CASE irq01_inb
  BY <1>13, SameService DEF irq01_inb, From, pics
<1>14. CASE handler_print
  <2>1. CASE handler \in Handled
    BY <1>14, <2>1, SameService DEF handler_print, From, pics
  <2>2. CASE handler \notin Handled
    <3>1. handler \in Lines \ Handled /\ isr' = isr /\ handler' = handler /\ step' = "iret"
      BY <1>14, <2>2 DEF handler_print, From, pics, TypeOK
    <3>2. \A l \in isr : Explained(l)
      BY <3>1, LinesAreSmall DEF StuckInv, OnlyStrayStuck, Stuck, Explained
    <3> QED
      BY <3>1, <3>2 DEF StuckInv, OnlyStrayStuck, Stuck, ServedIsHighest, EndedService, Explained
  <2> QED
    BY <2>1, <2>2
<1>15. CASE handler_EOI
  <2>1. handler # NoLine /\ step # "iret" /\ isr' = pic_sendEOI /\ handler' = handler /\ step' = "iret"
    BY <1>15 DEF handler_EOI, From
  <2>2. isr' \subseteq {l \in isr : l \notin InService(handler)}
    BY <2>1, EndsOwnService DEF StuckInv
  <2>3. \A l \in isr' : Explained(l)
    BY <2>2 DEF StuckInv, OnlyStrayStuck, Stuck, Explained
  <2> QED
    BY <2>1, <2>3 DEF StuckInv, OnlyStrayStuck, Stuck, ServedIsHighest, EndedService, Explained
<1>16. CASE iret
  <2>1. step = "iret" /\ isr' = isr /\ handler' = NoLine /\ step' = "none"
    BY <1>16 DEF iret, From, pics
  <2> QED
    BY <2>1 DEF StuckInv, OnlyStrayStuck, Stuck, ServedIsHighest, EndedService, Explained
<1>17. CASE TimerExpires
  BY <1>17, SameService DEF TimerExpires, Raise, cpu
<1>18. CASE KeyArrives
  BY <1>18, SameService DEF KeyArrives, Raise, cpu
<1>19. CASE MouseMoves
  BY <1>19, SameService DEF MouseMoves, Raise, cpu
<1>20. CASE OtherRaises
  BY <1>20, SameService DEF OtherRaises, Raise, cpu
<1>21. CASE PortTransmits
  BY <1>21, SameService DEF PortTransmits, cpu, pics
<1>22. CASE UNCHANGED vars
  BY <1>22, SameService DEF vars, cpu, pics, devices
<1> QED
  BY <1>1, <1>2, <1>3, <1>4, <1>5, <1>6, <1>7, <1>8, <1>9, <1>10, <1>11, <1>12,
     <1>13, <1>14, <1>15, <1>16, <1>17, <1>18, <1>19, <1>20, <1>21, <1>22
     DEF Next, Boot, Handler

(* Only lines without a handler, and the cascade for those of the second    *)
(* controller, ever stay in service: pic_sendEOI always ends the line whose *)
(* handler calls it.                                                        *)
THEOREM NoneStuck == Spec => []OnlyStrayStuck
<1>1. Init => TypeOK /\ StuckInv
  BY TypeInit DEF Init, StuckInv, OnlyStrayStuck, Stuck, ServedIsHighest, EndedService
<1>2. TypeOK /\ StuckInv /\ [Next]_vars => TypeOK' /\ StuckInv'
  BY TypeStep, StuckStep
<1>3. StuckInv => OnlyStrayStuck
  BY DEF StuckInv
<1> QED
  BY <1>1, <1>2, <1>3, PTL DEF Spec
===============================================================================
