------------------------------ MODULE Keyboard ------------------------------
(***************************************************************************)
(* The keyboard: irq01_handler of src/interrupts.c, kbHandler of           *)
(* src/kbhandler.c with the tables of src/kbscancodeset1.c, and the        *)
(* Console they print on while the kernel prints on it too.                *)
(*                                                                         *)
(* The user presses and releases keys; the keyboard sends the codes of     *)
(* scancode set 1, in order, with the shifts it pretends around an         *)
(* extended key.  The handler runs to its end between two steps of the     *)
(* kernel, whose printStrC keeps the cursor in a local variable.           *)
(***************************************************************************)
EXTENDS Console

CONSTANTS
    Keys,           \* the keys the user has: their codes, extended ones plus \he000
    WireLength      \* bound: the bytes that wait in the keyboard

VARIABLES
    kbFlag,         \* the shifts the handler takes for held
    lastScancode,
    held,           \* the shifts that are held
    wire            \* what the keyboard has to send

keyboardVars == <<kbFlag, lastScancode, held, wire>>

LSHIFT == \h2a
RSHIFT == \h36
Shifts == {LSHIFT, RSHIFT}
Extended == \he0
Break(code) == code + \h80
Echo == MaxPrinted + 1      \* the cells the keyboard printed

(* The scancodes for which scanCodeLookupTable has a character; for all of  *)
(* them that are not letters scanCodeLookupTableShifted has one too.        *)
scanCodeLookupTable ==
    UNION {\h02 .. \h0d, \h10 .. \h1b, \h1e .. \h29, \h2b .. \h35, {\h37, \h39, \h4a, \h4e}}

ASSUME KeyboardAssumption ==
    /\ Keys \subseteq (1 .. \h58) \cup {\he000 + code : code \in 1 .. \h58}
    /\ WireLength \in Nat

------------------------------------------------------------------------------
(* The keyboard *)

(* What is sent for a key, given the code: an extended key may come with a  *)
(* shift of its own, pressed or released, that undoes a lock or a shift.    *)
Codes(key, shift, code) ==
    IF key < \he000 THEN {<<code>>}
    ELSE {<<Extended, code>>, <<Extended, shift, Extended, code>>}

Send(bytes) == Len(wire \o bytes) <= WireLength /\ wire' = wire \o bytes

(* A key that is held sends its code again.  Of the other keys than the    *)
(* shifts the model does not keep which are held.                           *)
Press(key) ==
    /\ \E bytes \in Codes(key, LSHIFT, key % \h100)
                    \cup Codes(key, Break(LSHIFT), key % \h100) : Send(bytes)
    /\ held' = held \cup ({key} \cap Shifts)
    /\ UNCHANGED <<consoleVars, kbFlag, lastScancode>>

Release(key) ==
    /\ key \in Shifts => key \in held
    /\ \E bytes \in Codes(key, LSHIFT, Break(key % \h100))
                    \cup Codes(key, Break(LSHIFT), Break(key % \h100)) : Send(bytes)
    /\ held' = held \ {key}
    /\ UNCHANGED <<consoleVars, kbFlag, lastScancode>>

------------------------------------------------------------------------------
(* The handler *)

Column(s) == s.cursor % Width

kbHandler0xe0(s, scancode) ==
    CASE scancode = \h1c -> NewLine(s)
      [] scancode = \h35 -> printCharC(s, Echo)
      [] scancode = \h47 -> setCursorPosition(s, s.cursor - Column(s))
      [] scancode = \h48 -> setCursorPosition(s, s.cursor - Width)
      [] scancode = \h49 -> setCursorPosition(s, 0)
      [] scancode = \h4b -> setCursorPosition(s, s.cursor - 1)
      [] scancode = \h4d -> setCursorPosition(s, s.cursor + 1)
      [] scancode = \h4f -> setCursorPosition(s, s.cursor + Width - Column(s) - 1)
      [] scancode = \h50 -> setCursorPosition(s, s.cursor + Width)
      [] scancode = \h51 -> setCursorPosition(s, Size - 1)
      [] OTHER -> s

Back(s) == setCursorPosition(s, s.cursor - 1)

stdKbHandler(s, scancode) ==
    CASE scancode \in scanCodeLookupTable -> printCharC(s, Echo)
      [] scancode = \h0e -> Back(printCharC(Back(s), Blank))
      [] scancode = \h1c -> NewLine(s)
      [] OTHER -> s

(* "kbFlag &= ! LSHIFT" clears every flag, as "! LSHIFT" is 0 *)
NewFlag(scancode) ==
    CASE scancode \in Shifts -> kbFlag \cup {scancode}
      [] scancode \in {Break(LSHIFT), Break(RSHIFT)} -> {}
      [] OTHER -> kbFlag

(* Mutant: the prefix is not remembered *)
kbHandler_NoPrefix(scancode) ==
    /\ screen' = stdKbHandler(screen, scancode)
    /\ kbFlag' = NewFlag(scancode)
    /\ lastScancode' = scancode

kbHandler(scancode) ==
    /\ IF lastScancode = Extended
       THEN /\ screen' = kbHandler0xe0(screen, scancode)
            /\ UNCHANGED kbFlag
       ELSE /\ screen' = stdKbHandler(screen, scancode)
            /\ kbFlag' = NewFlag(scancode)
    /\ lastScancode' = scancode

irq01_handler ==
    /\ ~ screen.hung
    /\ wire # <<>>
    /\ kbHandler(Head(wire))
    /\ wire' = Tail(wire)
    /\ UNCHANGED <<printing, str, index, printed, held>>

------------------------------------------------------------------------------

Init ==
    /\ ConsoleInit
    /\ kbFlag = {} /\ lastScancode = 0
    /\ held = {} /\ wire = <<>>

Next ==
    \/ \E key \in Keys : Press(key) \/ Release(key)
    \/ irq01_handler
    \/ ConsoleNext /\ UNCHANGED keyboardVars

Spec == Init /\ [][Next]_<<consoleVars, keyboardVars>>

------------------------------------------------------------------------------
(* Properties *)

TypeOK ==
    /\ ConsoleTypeOK
    /\ kbFlag \subseteq Shifts
    /\ lastScancode \in 0 .. 255
    /\ held \subseteq Shifts
    /\ wire \in Seq(1 .. 255) /\ Len(wire) <= WireLength

(* The byte at position i of what waits is a code of its own, and not one   *)
(* that follows a prefix.                                                   *)
Plain(i) == (IF i = 1 THEN lastScancode ELSE wire[i - 1]) # Extended

(* No shift gets stuck: what the handler takes for held is held, or its     *)
(* release is on the way.  The shifts an extended key comes with, of which  *)
(* only one of the two may reach the handler, change nothing.               *)
NoStuckShift ==
    \A shift \in kbFlag :
        shift \in held \/ \E i \in DOMAIN wire : Plain(i) /\ wire[i] = Break(shift)

(* "//Left shift released", kbhandler.c:31, is no release of the right one: *)
(* a shift that is held, and nothing of which waits, is known to be.        *)
HeldShiftIsKnown == wire = <<>> => held \subseteq kbFlag
===============================================================================
