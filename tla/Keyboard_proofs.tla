--------------------------- MODULE Keyboard_proofs ---------------------------
(***************************************************************************)
(* Proofs about Keyboard, and so about the Console it prints on, for every *)
(* size of the screen, every text the kernel prints and every key.         *)
(***************************************************************************)
EXTENDS Keyboard, FiniteSetTheorems, SequenceTheorems, TLAPS

USE DEF Blank, Controls

Screens == [cells : [Cells -> Nat], cursor : Nat, hung : BOOLEAN]

(* A screen the cursor of which is where CursorBounded says *)
Bounded(s) == ~ s.hung => s.cursor \in 0 .. Size + 3 * Width - 1

------------------------------------------------------------------------------
(* Arithmetic *)

(* A remainder is less than the divisor, and no more than the number. *)
LEMMA Remainder ==
    ASSUME NEW a \in Nat, NEW b \in Nat \ {0}
    PROVE  a % b \in 0 .. b - 1 /\ a - (a % b) \in Nat
<1>1. a % b \in 0 .. b - 1
  OBVIOUS
<1>2. a = b * (a \div b) + (a % b) /\ a \div b \in Nat
  OBVIOUS
<1>3. b * (a \div b) \in Nat
  BY <1>2
<1> QED
  BY <1>1, <1>2, <1>3

(* The screen has at least one cell, and a row is less than all of it. *)
LEMMA ScreenSize == Size \in Nat /\ Width \in Nat \ {0} /\ Size > Width
<1>1. Width * Height \in Nat /\ Width * Height >= Width * 2
  BY ConsoleAssumption
<1> QED
  BY <1>1, ConsoleAssumption DEF Size

------------------------------------------------------------------------------
(* The functions of textprint.c *)

(* scrollUp takes a screen to a screen. *)
LEMMA ScrollUp ==
    ASSUME NEW s \in Screens
    PROVE  /\ scrollUp(s) \in Screens
           /\ s.cursor >= Size + 2 * Width => scrollUp(s).hung
           /\ Bounded(scrollUp(s))
<1>1. MoveUp(s.cells) \in [Cells -> Nat]
  BY ScreenSize DEF Screens, MoveUp, Cells
<1> DEFINE pos == s.cursor - 2 * Width
           top == IF pos < 0 THEN 0 ELSE pos
<1>2. s.cursor \in Nat /\ pos \in Int /\ top \in Nat /\ (pos >= Size <=> s.cursor >= Size + 2 * Width)
  BY ScreenSize DEF Screens
<1> HIDE DEF pos
<1>3. CASE pos >= Size
  <2>1. scrollUp(s) = [s EXCEPT !.hung = TRUE]
    BY <1>3 DEF scrollUp, Hang, pos
  <2> QED
    BY <2>1 DEF Screens, Bounded
<1>4. CASE ~ (pos >= Size)
  <2>1. scrollUp(s) = [s EXCEPT !.cells = MoveUp(s.cells), !.cursor = top]
    BY <1>4 DEF scrollUp, pos
  <2>2. scrollUp(s) \in Screens
    BY <1>1, <1>2, <2>1 DEF Screens
  <2>3. top < Size /\ scrollUp(s).cursor = top
    BY <1>2, <1>4, <2>1, ScreenSize DEF top, Screens
  <2> QED
    BY <1>2, <1>4, <2>2, <2>3, ScreenSize DEF Bounded
<1> QED
  BY <1>2, <1>3, <1>4

(* setCursorPosition takes a screen to a bounded one, as long as it moves   *)
(* the cursor one row down at most.                                         *)
LEMMA SetCursorPosition ==
    ASSUME NEW s \in Screens, NEW pos \in Int, pos <= s.cursor + Width
    PROVE  /\ setCursorPosition(s, pos) \in Screens
           /\ Bounded(setCursorPosition(s, pos))
<1>1. CASE pos < Size
  BY <1>1, ScreenSize DEF setCursorPosition, Screens, Bounded
<1>2. CASE pos >= Size
  <2>1. scrollUp(s) \in Screens /\ (s.cursor >= Size + 2 * Width => scrollUp(s).hung)
    BY ScrollUp
  <2> DEFINE t == scrollUp(s)
  <2>2. setCursorPosition(s, pos) = [t EXCEPT !.cursor = pos]
    BY <1>2, ScreenSize DEF setCursorPosition
  <2> HIDE DEF t
  <2>3. t \in Screens /\ (s.cursor >= Size + 2 * Width => t.hung)
    BY <2>1 DEF t
  <2> QED
    BY <1>2, <2>2, <2>3, ScreenSize DEF Screens, Bounded
<1> QED
  BY <1>1, <1>2, ScreenSize

(* A character that is stored changes cells only. *)
LEMMA StoreIsScreen ==
    ASSUME NEW s \in Screens, NEW pos \in Nat, NEW c \in Nat
    PROVE  /\ Store(s, pos, c) \in Screens
           /\ Store(s, pos, c).cursor = s.cursor
           /\ Bounded(s) => Bounded(Store(s, pos, c))
<1>1. CASE pos \in Cells
  <2>1. Store(s, pos, c) = [s EXCEPT !.cells[pos] = c]
    BY <1>1 DEF Store
  <2> QED
    BY <2>1 DEF Screens, Bounded
<1>2. CASE pos \notin Cells
  BY <1>2 DEF Store
<1> QED
  BY <1>1, <1>2

(* So does printCharC, whatever the cursor, *)
LEMMA PrintCharC ==
    ASSUME NEW s \in Screens, NEW c \in Nat
    PROVE  printCharC(s, c) \in Screens /\ Bounded(printCharC(s, c))
<1>1. Store(s, s.cursor, c) \in Screens /\ Store(s, s.cursor, c).cursor = s.cursor
  BY StoreIsScreen DEF Screens
<1> DEFINE t == Store(s, s.cursor, c)
<1>2. s.cursor + 1 \in Int /\ s.cursor + 1 <= t.cursor + Width
  BY <1>1, ScreenSize DEF Screens
<1> QED
  BY <1>1, <1>2, SetCursorPosition DEF printCharC

(* and the line end the keyboard prints. *)
LEMMA NewLineBounded ==
    ASSUME NEW s \in Screens
    PROVE  NewLine(s) \in Screens /\ Bounded(NewLine(s))
<1> DEFINE pos == s.cursor + Width
           start == pos - (pos % Width)
           t == [s EXCEPT !.cursor = start]
<1>1. pos \in Nat /\ Width \in Nat \ {0}
  BY ScreenSize DEF Screens
<1>2. start \in Nat
  BY <1>1, Remainder
<1>3. t \in Screens /\ t.cursor = start
  BY <1>2 DEF Screens
<1>4. NewLine(s) = setCursorPosition(t, start)
  BY DEF NewLine
<1>5. start \in Int /\ start <= t.cursor + Width
  BY <1>1, <1>2, <1>3
<1> HIDE DEF t, start
<1> QED
  BY <1>3, <1>4, <1>5, SetCursorPosition

------------------------------------------------------------------------------
(* The handler *)

(* What the keyboard can send: the bytes of a code set, all of them below   *)
(* 256 and none of them 0.                                                  *)
LEMMA CodesAreBytes ==
    ASSUME NEW key \in Keys
    PROVE  /\ key % \h100 \in 1 .. \h58
           /\ Break(key % \h100) \in \h81 .. \hd8
<1>1. key \in 1 .. \h58 \/ \E code \in 1 .. \h58 : key = \he000 + code
  BY KeyboardAssumption
<1> QED
  BY <1>1 DEF Break

(* After a prefix, *)
LEMMA Handler0xe0Bounded ==
    ASSUME NEW s \in Screens, Bounded(s), NEW code \in 0 .. 255
    PROVE  kbHandler0xe0(s, code) \in Screens /\ Bounded(kbHandler0xe0(s, code))
<1>1. s.cursor \in Nat /\ Column(s) \in 0 .. Width - 1 /\ s.cursor - Column(s) \in Nat
  BY ScreenSize, Remainder DEF Screens, Column
<1>2. NewLine(s) \in Screens /\ Bounded(NewLine(s))
  BY NewLineBounded
<1>3. printCharC(s, Echo) \in Screens /\ Bounded(printCharC(s, Echo))
  BY PrintCharC, ConsoleAssumption DEF Echo
<1>4. \A pos \in Int : pos <= s.cursor + Width =>
         setCursorPosition(s, pos) \in Screens /\ Bounded(setCursorPosition(s, pos))
  BY SetCursorPosition
<1>5. \A pos \in {s.cursor - Column(s), s.cursor - Width, 0, s.cursor - 1, s.cursor + 1,
                 s.cursor + Width - Column(s) - 1, s.cursor + Width} :
         setCursorPosition(s, pos) \in Screens /\ Bounded(setCursorPosition(s, pos))
  BY <1>1, <1>4, ScreenSize
<1>6. setCursorPosition(s, Size - 1) \in Screens /\ Bounded(setCursorPosition(s, Size - 1))
  <2>1. setCursorPosition(s, Size - 1) = [s EXCEPT !.cursor = Size - 1]
    BY ScreenSize DEF setCursorPosition
  <2> QED
    BY <2>1, ScreenSize DEF Screens, Bounded
<1> QED
  BY <1>2, <1>3, <1>5, <1>6 DEF kbHandler0xe0

(* and without one, the handler leaves a bounded screen. *)
LEMMA StdHandlerBounded ==
    ASSUME NEW s \in Screens, Bounded(s), NEW code \in 0 .. 255
    PROVE  stdKbHandler(s, code) \in Screens /\ Bounded(stdKbHandler(s, code))
<1>1. \A t \in Screens : Back(t) \in Screens /\ Bounded(Back(t))
  <2> TAKE t \in Screens
  <2>1. t.cursor - 1 \in Int /\ t.cursor - 1 <= t.cursor + Width
    BY ScreenSize DEF Screens
  <2> QED
    BY <2>1, SetCursorPosition DEF Back
<1>2. \A t \in Screens : printCharC(t, Blank) \in Screens
  BY PrintCharC
<1>3. printCharC(s, Echo) \in Screens /\ Bounded(printCharC(s, Echo))
  BY PrintCharC, ConsoleAssumption DEF Echo
<1>4. NewLine(s) \in Screens /\ Bounded(NewLine(s))
  BY NewLineBounded
<1>5. Back(printCharC(Back(s), Blank)) \in Screens /\ Bounded(Back(printCharC(Back(s), Blank)))
  BY <1>1, <1>2
<1> QED
  BY <1>3, <1>4, <1>5 DEF stdKbHandler

------------------------------------------------------------------------------
(* The inductive invariant: TypeOK, and a screen that is one even when the  *)
(* kernel hangs.                                                            *)

IInv == screen \in Screens /\ TypeOK

LEMMA Initially == Init => IInv
<1> SUFFICES ASSUME Init PROVE IInv
  OBVIOUS
<1>1. clearScreen \in [Cells -> Nat] /\ posFromCoords(0, 0) = 0
  BY ScreenSize DEF clearScreen, posFromCoords
<1>2. screen \in Screens /\ Bounded(screen)
  BY <1>1, ScreenSize DEF Init, ConsoleInit, Screens, Bounded
<1>3. <<>> \in Seq(Controls \cup {"x"}) /\ <<>> \in Seq(1 .. 255) /\ Len(<<>>) = 0
  OBVIOUS
<1>4. ConsoleTypeOK
  <2>1. printing = FALSE /\ str = <<>> /\ index = 0 /\ printed = 0 /\ 0 \in 0 .. MaxPrinted
    BY ConsoleAssumption DEF Init, ConsoleInit
  <2>2. screen.cells \in [Cells -> Nat] /\ screen.hung \in BOOLEAN /\ CursorBounded
    BY <1>2 DEF Screens, Bounded, CursorBounded
  <2> QED
    BY <1>3, <2>1, <2>2 DEF ConsoleTypeOK
<1>5. /\ kbFlag \subseteq Shifts /\ held \subseteq Shifts
      /\ lastScancode \in 0 .. 255
      /\ wire \in Seq(1 .. 255) /\ Len(wire) <= WireLength
  BY <1>3, KeyboardAssumption DEF Init
<1> QED
  BY <1>2, <1>4, <1>5 DEF IInv, TypeOK

(* What is left of a text after its first character. *)
LEMMA TailIsSeq ==
    ASSUME NEW S, NEW q \in Seq(S), q # <<>>
    PROVE  Head(q) \in S /\ Tail(q) \in Seq(S) /\ Len(Tail(q)) = Len(q) - 1
  OBVIOUS

(* The kernel's steps preserve it, *)
LEMMA ConsoleStep ==
    ASSUME IInv, ConsoleNext, UNCHANGED keyboardVars
    PROVE  IInv'
<1>1. /\ screen \in Screens /\ Bounded(screen)
      /\ printing \in BOOLEAN /\ str \in Seq(Controls \cup {"x"})
      /\ index \in Nat /\ printed \in 0 .. MaxPrinted
  BY DEF IInv, TypeOK, ConsoleTypeOK, CursorBounded, Bounded
<1> SUFFICES /\ screen' \in Screens /\ Bounded(screen')
             /\ printing' \in BOOLEAN /\ str' \in Seq(Controls \cup {"x"})
             /\ index' \in Nat /\ printed' \in 0 .. MaxPrinted
  BY DEF IInv, TypeOK, ConsoleTypeOK, CursorBounded, Bounded, Screens, keyboardVars
<1>2. ASSUME NEW text \in Texts, printStrC(text)
      PROVE  /\ screen' = screen /\ printing' = TRUE
             /\ str' \in Seq(Controls \cup {"x"})
             /\ index' \in Nat /\ printed' = printed
  BY <1>1, <1>2, ConsoleAssumption DEF printStrC, Screens
<1>3. ASSUME printStrC_control
      PROVE  /\ screen' = screen /\ printing' = printing
             /\ str' \in Seq(Controls \cup {"x"})
             /\ index' \in Nat /\ printed' = printed
  <2>1. str' \in Seq(Controls \cup {"x"}) /\ Head(str) \in Controls
    BY <1>1, <1>3, TailIsSeq DEF printStrC_control
  <2>2. index - (index % Width) \in Nat
    BY <1>1, Remainder, ScreenSize
  <2>3. index' \in Nat
    <3>1. CASE Head(str) = "tab"
      BY <1>1, <1>3, <3>1 DEF printStrC_control, TABSIZE
    <3>2. CASE Head(str) = "nl"
      BY <1>1, <1>3, <3>2, ScreenSize DEF printStrC_control
    <3>3. CASE Head(str) = "cr"
      BY <1>1, <1>3, <2>2, <3>3 DEF printStrC_control
    <3> QED
      BY <2>1, <3>1, <3>2, <3>3
  <2> QED
    BY <1>3, <2>1, <2>3 DEF printStrC_control
<1>4. ASSUME printStrC_char
      PROVE  /\ screen' \in Screens /\ Bounded(screen') /\ printing' = printing
             /\ str' \in Seq(Controls \cup {"x"})
             /\ index' \in Nat /\ printed' \in 0 .. MaxPrinted
  <2>1. MakeRoom(screen) \in Screens /\ Bounded(MakeRoom(screen))
    BY <1>1, ScrollUp DEF MakeRoom
  <2>2. RoomAt(screen) \in Nat
    BY <1>1, ScrollUp DEF RoomAt, Screens
  <2>3. printed' \in 0 .. MaxPrinted
    BY <1>1, <1>4, ConsoleAssumption DEF printStrC_char
  <2>4. screen' \in Screens /\ Bounded(screen')
    BY <1>4, <2>1, <2>2, <2>3, StoreIsScreen DEF printStrC_char
  <2> QED
    BY <1>1, <1>4, <2>2, <2>3, <2>4, TailIsSeq DEF printStrC_char
<1>5. ASSUME printStrC_end
      PROVE  /\ screen' \in Screens /\ Bounded(screen') /\ printing' = FALSE
             /\ str' = str /\ index' = index /\ printed' = printed
  <2> DEFINE t == [screen EXCEPT !.cursor = index]
  <2>1. t \in Screens /\ index \in Int /\ index <= t.cursor + Width
    BY <1>1, ScreenSize DEF Screens
  <2>2. screen' = setCursorPosition(t, index)
    BY <1>5 DEF printStrC_end
  <2> HIDE DEF t
  <2>3. screen' \in Screens /\ Bounded(screen')
    BY <2>1, <2>2, SetCursorPosition
  <2> QED
    BY <1>5, <2>3 DEF printStrC_end
<1>6. ASSUME printChar
      PROVE  /\ screen' \in Screens /\ Bounded(screen') /\ printing' = printing
             /\ str' = str /\ index' = index /\ printed' \in 0 .. MaxPrinted
  <2>1. printed' \in 0 .. MaxPrinted /\ printed' \in Nat
    BY <1>1, <1>6, ConsoleAssumption DEF printChar
  <2> QED
    BY <1>1, <1>6, <2>1, PrintCharC DEF printChar
<1> QED
  BY <1>1, <1>2, <1>3, <1>4, <1>5, <1>6 DEF ConsoleNext, Bounded

(* the user's and the keyboard's, *)
LEMMA KeyStep ==
    ASSUME IInv, NEW key \in Keys, Press(key) \/ Release(key)
    PROVE  IInv'
<1>1. wire \in Seq(1 .. 255) /\ held \subseteq Shifts
  BY DEF IInv, TypeOK
<1>2. \A shift, code \in 1 .. 255 :
        \A bytes \in Codes(key, shift, code) : bytes \in Seq(1 .. 255)
  <2> DEFINE Bytes == 1 .. 255
  <2> SUFFICES ASSUME NEW shift \in Bytes, NEW code \in Bytes
               PROVE  \A bytes \in Codes(key, shift, code) : bytes \in Seq(Bytes)
    OBVIOUS
  <2>1. Extended \in Bytes
    BY DEF Extended
  <2> HIDE DEF Bytes
  <2>2. /\ <<code>> \in Seq(Bytes) /\ <<Extended, code>> \in Seq(Bytes)
        /\ <<Extended, shift, Extended, code>> \in Seq(Bytes)
    BY <2>1
  <2>3. Codes(key, shift, code) \subseteq
          {<<code>>, <<Extended, code>>, <<Extended, shift, Extended, code>>}
    BY SMT DEF Codes
  <2> QED
    BY <2>2, <2>3
<1>3. /\ key % \h100 \in 1 .. 255 /\ Break(key % \h100) \in 1 .. 255
      /\ LSHIFT \in 1 .. 255 /\ Break(LSHIFT) \in 1 .. 255
  BY CodesAreBytes DEF LSHIFT, Break
<1>4. PICK bytes \in Seq(1 .. 255) : Send(bytes)
  <2>1. CASE Press(key)
    BY <1>2, <1>3, <2>1 DEF Press
  <2>2. CASE Release(key)
    BY <1>2, <1>3, <2>2 DEF Release
  <2> QED
    BY <2>1, <2>2
<1>5. wire' \in Seq(1 .. 255) /\ Len(wire') <= WireLength
  BY <1>1, <1>4 DEF Send
<1>6. held' \subseteq Shifts /\ UNCHANGED <<consoleVars, kbFlag, lastScancode>>
  BY <1>1 DEF Press, Release
<1> QED
  BY <1>5, <1>6 DEF IInv, TypeOK, ConsoleTypeOK, CursorBounded, consoleVars

(* and the handler's. *)
LEMMA HandlerStep ==
    ASSUME IInv, irq01_handler
    PROVE  IInv'
<1> DEFINE scancode == Head(wire)
<1>1. /\ screen \in Screens /\ Bounded(screen)
      /\ wire \in Seq(1 .. 255) /\ wire # <<>> /\ Len(wire) <= WireLength
      /\ kbFlag \subseteq Shifts
  BY DEF IInv, TypeOK, ConsoleTypeOK, CursorBounded, Bounded, irq01_handler
<1>2. scancode \in 1 .. 255 /\ wire' \in Seq(1 .. 255) /\ Len(wire') <= WireLength
  <2>1. Head(wire) \in 1 .. 255 /\ Tail(wire) \in Seq(1 .. 255) /\ Len(Tail(wire)) = Len(wire) - 1
    BY <1>1, TailIsSeq
  <2>2. wire' = Tail(wire)
    BY DEF irq01_handler
  <2> QED
    BY <1>1, <2>1, <2>2, KeyboardAssumption
<1>3. lastScancode' = scancode
  BY DEF irq01_handler, kbHandler
<1> HIDE DEF scancode
<1>4. screen' \in Screens /\ Bounded(screen')
  <2>1. scancode \in 0 .. 255
    BY <1>2
  <2>2. \/ screen' = kbHandler0xe0(screen, scancode)
        \/ screen' = stdKbHandler(screen, scancode)
    BY DEF irq01_handler, kbHandler, scancode
  <2> QED
    BY <1>1, <2>1, <2>2, Handler0xe0Bounded, StdHandlerBounded
<1>5. kbFlag' \subseteq Shifts
  BY <1>1 DEF irq01_handler, kbHandler, NewFlag
<1>6. UNCHANGED <<printing, str, index, printed, held>>
  BY DEF irq01_handler
<1> QED
  BY <1>2, <1>3, <1>4, <1>5, <1>6
  DEF IInv, TypeOK, ConsoleTypeOK, CursorBounded, Bounded, Screens

------------------------------------------------------------------------------

LEMMA Inductive == Spec => []IInv
<1> DEFINE all == <<consoleVars, keyboardVars>>
<1>1. Init => IInv
  BY Initially
<1>2. IInv /\ [Next]_all => IInv'
  <2> SUFFICES ASSUME IInv, [Next]_all PROVE IInv'
    OBVIOUS
  <2>1. CASE UNCHANGED all
    BY <2>1 DEF IInv, TypeOK, ConsoleTypeOK, CursorBounded, consoleVars, keyboardVars
  <2>2. CASE Next
    BY <2>2, ConsoleStep, KeyStep, HandlerStep DEF Next
  <2> QED
    BY <2>1, <2>2
<1> QED
  BY <1>1, <1>2, PTL DEF Spec

(* Every variable keeps its type: the flags are those of the shifts, and    *)
(* what the keyboard has to send are bytes.                                 *)
THEOREM TypeCorrect == Spec => []TypeOK
<1>1. IInv => TypeOK
  BY DEF IInv
<1> QED
  BY <1>1, Inductive, PTL

(* The cursor stays within three rows below the screen and never comes      *)
(* before it, whatever is printed and typed in whatever order, on a screen  *)
(* of any size, until the kernel hangs.                                     *)
THEOREM CursorSafe == Spec => []CursorBounded
<1>1. IInv => CursorBounded
  BY DEF IInv, TypeOK, ConsoleTypeOK
<1> QED
  BY <1>1, Inductive, PTL

------------------------------------------------------------------------------
(* No shift gets stuck.  The argument is about the bytes that wait, w, after *)
(* the one that was handled last: every make code of a shift that the       *)
(* handler will see has its break code behind it, unless the shift is still *)
(* held, and no extended key is cut after its prefix.                       *)

PlainAt(last, w, i) == (IF i = 1 THEN last ELSE w[i - 1]) # Extended

BreakAfter(last, w, i, shift) ==
    \E j \in 1 .. Len(w) : j > i /\ PlainAt(last, w, j) /\ w[j] = Break(shift)

EndsWhole(last, w) == (IF w = <<>> THEN last ELSE w[Len(w)]) # Extended

FlagsReleased(last, w, flag, h) ==
    \A shift \in flag : shift \in h \/ BreakAfter(last, w, 0, shift)

MakesReleased(last, w, h) ==
    \A i \in 1 .. Len(w), shift \in Shifts :
        PlainAt(last, w, i) /\ w[i] = shift => shift \in h \/ BreakAfter(last, w, i, shift)

Released(last, w, flag, h) ==
    EndsWhole(last, w) /\ FlagsReleased(last, w, flag, h) /\ MakesReleased(last, w, h)

(* The codes of the shifts and the prefix are all different. *)
LEMMA CodesDiffer ==
    /\ Shifts = {42, 54} /\ Extended = 224
    /\ Break(42) = 170 /\ Break(54) = 182
    /\ LSHIFT = 42 /\ RSHIFT = 54
  BY DEF Shifts, LSHIFT, RSHIFT, Break, Extended

(* The handler takes the first byte. *)
LEMMA TakeFirst ==
    ASSUME NEW w \in Seq(1 .. 255), w # <<>>, NEW last \in 0 .. 255,
           NEW flag \in SUBSET Shifts, NEW new \in SUBSET Shifts, NEW h,
           Released(last, w, flag, h),
           last = Extended => new = flag,
           last # Extended /\ w[1] \in Shifts => new = flag \cup {w[1]},
           last # Extended /\ w[1] \in {170, 182} => new = {},
           last # Extended /\ w[1] \notin Shifts \cup {170, 182} => new = flag
    PROVE  Released(w[1], Tail(w), new, h)
<1> DEFINE t == Tail(w)
           n == Len(w)
<1>1. /\ n \in Nat \ {0} /\ t \in Seq(1 .. 255) /\ Len(t) = n - 1
      /\ \A i \in 1 .. n - 1 : t[i] = w[i + 1]
      /\ \A i \in 1 .. n : w[i] \in 1 .. 255
      /\ t = <<>> <=> n = 1
  <2>1. n \in Nat \ {0} /\ t \in Seq(1 .. 255) /\ Len(t) = n - 1
    BY HeadTailProperties, EmptySeq, LenProperties
  <2>2. \A i \in 1 .. n - 1 : t[i] = w[i + 1]
    BY <2>1, HeadTailProperties
  <2>3. \A i \in 1 .. n : w[i] \in 1 .. 255
    BY LenProperties
  <2>4. t = <<>> <=> Len(t) = 0
    BY <2>1, EmptySeq
  <2> QED
    BY <2>1, <2>2, <2>3, <2>4
<1> HIDE DEF t, n
<1>2. \A i \in 1 .. n - 1 : PlainAt(w[1], t, i) <=> PlainAt(last, w, i + 1)
  BY <1>1 DEF PlainAt
<1>3. \A i \in 1 .. n, shift \in Shifts :
        BreakAfter(last, w, i, shift) => BreakAfter(w[1], t, i - 1, shift)
  <2> SUFFICES ASSUME NEW i \in 1 .. n, NEW shift \in Shifts, BreakAfter(last, w, i, shift)
               PROVE  BreakAfter(w[1], t, i - 1, shift)
    OBVIOUS
  <2>1. PICK j \in 1 .. n : j > i /\ PlainAt(last, w, j) /\ w[j] = Break(shift)
    BY DEF BreakAfter, n
  <2>2. j - 1 \in 1 .. n - 1 /\ j - 1 > i - 1
    BY <1>1, <2>1
  <2>3. PlainAt(w[1], t, j - 1) /\ t[j - 1] = Break(shift)
    <3>1. PICK k \in 1 .. n - 1 : k = j - 1 /\ k + 1 = j
      BY <1>1, <2>1, <2>2
    <3> QED
      BY <1>1, <1>2, <2>1, <3>1
  <2> QED
    BY <1>1, <2>2, <2>3 DEF BreakAfter
<1>4. EndsWhole(w[1], t)
  BY <1>1 DEF Released, EndsWhole, n
<1>5. FlagsReleased(w[1], t, new, h)
  <2> SUFFICES ASSUME NEW shift \in new, shift \notin h
               PROVE  BreakAfter(w[1], t, 0, shift)
    BY DEF FlagsReleased
  <2>1. shift \in Shifts
    OBVIOUS
  <2>2. CASE last # Extended /\ w[1] = shift
    <3>1. PlainAt(last, w, 1) /\ 1 \in 1 .. n
      BY <1>1, <2>2 DEF PlainAt
    <3>2. BreakAfter(last, w, 1, shift)
      BY <2>1, <2>2, <3>1 DEF Released, MakesReleased, n
    <3> QED
      BY <1>3, <2>1, <3>1, <3>2
  <2>3. CASE ~ (last # Extended /\ w[1] = shift)
    <3>1. shift \in flag /\ (last = Extended \/ w[1] # Break(shift))
      BY <2>1, <2>3, CodesDiffer
    <3>2. PICK j \in 1 .. n : PlainAt(last, w, j) /\ w[j] = Break(shift)
      BY <3>1 DEF Released, FlagsReleased, BreakAfter, n
    <3>3. j # 1
      BY <3>1, <3>2 DEF PlainAt
    <3>4. BreakAfter(last, w, 1, shift)
      BY <1>1, <3>2, <3>3 DEF BreakAfter, n
    <3> QED
      BY <1>1, <1>3, <2>1, <3>4
  <2> QED
    BY <2>2, <2>3
<1>6. MakesReleased(w[1], t, h)
  <2> SUFFICES ASSUME NEW i \in 1 .. n - 1, NEW shift \in Shifts,
                      PlainAt(w[1], t, i), t[i] = shift, shift \notin h
               PROVE  BreakAfter(w[1], t, i, shift)
    BY <1>1 DEF MakesReleased
  <2>1. i + 1 \in 1 .. n /\ PlainAt(last, w, i + 1) /\ w[i + 1] = shift
    BY <1>1, <1>2
  <2>2. BreakAfter(last, w, i + 1, shift)
    BY <2>1 DEF Released, MakesReleased, n
  <2> QED
    BY <1>1, <1>3, <2>1, <2>2
<1> QED
  BY <1>4, <1>5, <1>6 DEF Released, t

(* The keyboard sends the bytes b, and h2 is held from then on: of the      *)
(* shifts, b makes only those that are held, and breaks those that are not  *)
(* held any more.                                                           *)
LEMMA SendMore ==
    ASSUME NEW w \in Seq(1 .. 255), NEW b \in Seq(1 .. 255), b # <<>>,
           NEW last \in 0 .. 255, NEW flag \in SUBSET Shifts, NEW h, NEW h2,
           Released(last, w, flag, h),
           b[Len(b)] # Extended,
           \A k \in 1 .. Len(b) : PlainAt(0, b, k) /\ b[k] \in Shifts => b[k] \in h2,
           \A shift \in Shifts \ h2 : shift \in h =>
               \E k \in 1 .. Len(b) : PlainAt(0, b, k) /\ b[k] = Break(shift)
    PROVE  Released(last, w \o b, flag, h2)
<1> DEFINE n == Len(w)
           m == Len(b)
           c == w \o b
<1>1. /\ n \in Nat /\ m \in Nat \ {0} /\ Len(c) = n + m /\ c \in Seq(1 .. 255)
      /\ \A i \in 1 .. n : c[i] = w[i]
      /\ \A k \in 1 .. m : c[n + k] = b[k]
  <2>1. n \in Nat /\ m \in Nat \ {0}
    BY EmptySeq, LenProperties
  <2>2. c \in Seq(1 .. 255) /\ Len(c) = n + m
    OBVIOUS
  <2>3. \A i \in 1 .. n : c[i] = w[i]
    BY <2>1
  <2>4. \A k \in 1 .. m : c[n + k] = b[k]
    BY <2>1
  <2> QED
    BY <2>1, <2>2, <2>3, <2>4
<1>2. w = <<>> <=> n = 0
  BY EmptySeq
<1>3. c # <<>>
  BY <1>1, EmptySeq
<1> HIDE DEF n, m, c
<1>4. \A i \in 1 .. n : PlainAt(last, c, i) <=> PlainAt(last, w, i)
  BY <1>1 DEF PlainAt
<1>5. \A k \in 1 .. m : PlainAt(last, c, n + k) <=> PlainAt(0, b, k)
  <2> TAKE k \in 1 .. m
  <2>1. CASE k = 1 /\ n = 0
    BY <1>1, <1>2, <2>1, CodesDiffer DEF PlainAt, Released, EndsWhole
  <2>2. CASE k = 1 /\ n # 0
    <3>1. c[n + 1 - 1] = w[n] /\ w[n] # Extended
      BY <1>1, <1>2, <2>2 DEF Released, EndsWhole, n
    <3> QED
      BY <1>1, <2>2, <3>1, CodesDiffer DEF PlainAt
  <2>3. CASE k # 1
    <3>1. k - 1 \in 1 .. m /\ n + k - 1 = n + (k - 1) /\ n + k # 1
      BY <1>1, <2>3
    <3>2. c[n + k - 1] = b[k - 1]
      BY <1>1, <3>1
    <3>3. PlainAt(last, c, n + k) <=> c[n + k - 1] # Extended
      BY <1>1, <3>1 DEF PlainAt
    <3>4. PlainAt(0, b, k) <=> b[k - 1] # Extended
      BY <2>3 DEF PlainAt
    <3> QED
      BY <3>2, <3>3, <3>4
  <2> QED
    BY <2>1, <2>2, <2>3
<1>6. \A i \in 0 .. n, shift \in Shifts : BreakAfter(last, w, i, shift) => BreakAfter(last, c, i, shift)
  BY <1>1, <1>4 DEF BreakAfter, n
<1>7. \A i \in 0 .. n, shift \in Shifts \ h2 : shift \in h => BreakAfter(last, c, i, shift)
  <2> SUFFICES ASSUME NEW i \in 0 .. n, NEW shift \in Shifts \ h2, shift \in h
               PROVE  BreakAfter(last, c, i, shift)
    OBVIOUS
  <2>1. PICK k \in 1 .. m : PlainAt(0, b, k) /\ b[k] = Break(shift)
    BY DEF m
  <2>2. n + k \in 1 .. Len(c) /\ n + k > i
    BY <1>1
  <2>3. PlainAt(last, c, n + k) /\ c[n + k] = Break(shift)
    BY <1>1, <1>5, <2>1
  <2> QED
    BY <2>2, <2>3 DEF BreakAfter
<1>8. EndsWhole(last, c)
  BY <1>1, <1>3 DEF EndsWhole, m
<1>9. FlagsReleased(last, c, flag, h2)
  <2> SUFFICES ASSUME NEW shift \in flag, shift \notin h2
               PROVE  BreakAfter(last, c, 0, shift)
    BY DEF FlagsReleased
  <2>1. shift \in h \/ BreakAfter(last, w, 0, shift)
    BY DEF Released, FlagsReleased
  <2> QED
    BY <1>1, <1>6, <1>7, <2>1
<1>10. MakesReleased(last, c, h2)
  <2> SUFFICES ASSUME NEW i \in 1 .. n + m, NEW shift \in Shifts,
                      PlainAt(last, c, i), c[i] = shift, shift \notin h2
               PROVE  BreakAfter(last, c, i, shift)
    BY <1>1 DEF MakesReleased
  <2>1. CASE i \in 1 .. n
    <3>1. shift \in h \/ BreakAfter(last, w, i, shift)
      BY <1>1, <1>4, <2>1 DEF Released, MakesReleased, n
    <3> QED
      BY <1>6, <1>7, <2>1, <3>1
  <2>2. CASE i \notin 1 .. n
    <3>1. PICK k \in 1 .. m : i = n + k
      BY <1>1, <2>2
    <3>2. PlainAt(0, b, k)
      BY <1>5, <3>1
    <3>3. b[k] = shift
      BY <1>1, <3>1
    <3>4. \A j \in 1 .. m : PlainAt(0, b, j) /\ b[j] \in Shifts => b[j] \in h2
      BY DEF m
    <3>5. FALSE
      BY <3>2, <3>3, <3>4
    <3> QED
      BY <3>5
  <2> QED
    BY <2>1, <2>2
<1> QED
  BY <1>8, <1>9, <1>10 DEF Released, c

(* The codes of the keys, those of the shifts, and all of them. *)
KeyScancodes == 1 .. 216
ShiftScancodes == {42, 54, 170, 182}
Scancodes == 1 .. 255

(* What an extended key sends: nothing in it is a shift of its own. *)
LEMMA ExtendedCodes ==
    ASSUME NEW x \in KeyScancodes, NEW s \in ShiftScancodes,
           NEW b, b = <<Extended, x>> \/ b = <<Extended, s, Extended, x>>
    PROVE  /\ b \in Seq(Scancodes) /\ b # <<>> /\ b[Len(b)] # Extended
           /\ \A k \in 1 .. Len(b) : PlainAt(0, b, k) => b[k] \notin Shifts
<1> USE CodesDiffer DEF KeyScancodes, ShiftScancodes, Scancodes
<1>1. CASE b = <<Extended, x>>
  <2>1. Len(b) = 2 /\ b[1] = Extended /\ b[2] = x
    BY <1>1
  <2>2. \A k \in 1 .. Len(b) : k = 1 \/ k = 2
    BY <2>1
  <2>3. b \in Seq(Scancodes) /\ b # <<>>
    BY <1>1
  <2>4. ~ PlainAt(0, b, 2)
    BY <2>1 DEF PlainAt
  <2> QED
    BY <2>1, <2>2, <2>3, <2>4
<1>2. CASE b = <<Extended, s, Extended, x>>
  <2>1. Len(b) = 4 /\ b[1] = Extended /\ b[2] = s /\ b[3] = Extended /\ b[4] = x
    BY <1>2
  <2>2. \A k \in 1 .. Len(b) : k = 1 \/ k = 2 \/ k = 3 \/ k = 4
    BY <2>1
  <2>3. b \in Seq(Scancodes) /\ b # <<>>
    BY <1>2
  <2>4. ~ PlainAt(0, b, 2) /\ ~ PlainAt(0, b, 4)
    BY <2>1 DEF PlainAt
  <2> QED
    BY <2>1, <2>2, <2>3, <2>4
<1> QED
  BY <1>1, <1>2

(* The key that is sent: its code, and whether it is an extended one. *)
LEMMA KeyCodes ==
    ASSUME NEW key \in Keys
    PROVE  /\ key % 256 \in 1 .. 88
           /\ key < 57344 => key = key % 256
           /\ key >= 57344 => key \notin Shifts
<1>1. key \in 1 .. 88 \/ \E code \in 1 .. 88 : key = 57344 + code
  BY KeyboardAssumption
<1>2. CASE key \in 1 .. 88
  BY <1>2, SMT
<1>3. CASE \E code \in 1 .. 88 : key = 57344 + code
  BY <1>3, CodesDiffer, SMT
<1> QED
  BY <1>1, <1>2, <1>3

KInv == Released(lastScancode, wire, kbFlag, held)

(* What is sent keeps to KInv. *)
LEMMA KeySends ==
    ASSUME IInv, KInv, NEW key \in Keys, Press(key) \/ Release(key)
    PROVE  KInv'
<1>1. /\ wire \in Seq(1 .. 255) /\ lastScancode \in 0 .. 255
      /\ kbFlag \in SUBSET Shifts /\ held \subseteq Shifts
  BY DEF IInv, TypeOK
<1>2. UNCHANGED <<kbFlag, lastScancode>>
  BY DEF Press, Release
<1> DEFINE code == key % 256
<1>3. /\ code \in 1 .. 88
      /\ key < 57344 => key = code
      /\ key >= 57344 => key \notin Shifts
  BY KeyCodes
<1>4. /\ Press(key) => \E s \in {42, 170} : \E b \in Codes(key, s, code) : Send(b)
      /\ Release(key) => \E s \in {42, 170} : \E b \in Codes(key, s, code + 128) : Send(b)
  <2>1. Break(code) = code + 128 /\ Break(LSHIFT) = 170 /\ LSHIFT = 42
    BY CodesDiffer DEF Break
  <2>2. /\ Press(key) => \E b \in Codes(key, 42, code) \cup Codes(key, 170, code) : Send(b)
        /\ Release(key) => \E b \in Codes(key, 42, code + 128) \cup Codes(key, 170, code + 128) :
                              Send(b)
    BY <2>1 DEF Press, Release
  <2> HIDE DEF code
  <2> QED
    BY <2>2
<1> HIDE DEF code
<1>5. PICK x \in KeyScancodes, s \in ShiftScancodes : \E b \in Codes(key, s, x) :
        /\ Send(b)
        /\ (x = code /\ Press(key)) \/ (x = code + 128 /\ Release(key))
  <2>1. /\ code \in KeyScancodes /\ code + 128 \in KeyScancodes
        /\ 42 \in ShiftScancodes /\ 170 \in ShiftScancodes
    BY <1>3 DEF KeyScancodes, ShiftScancodes
  <2>2. CASE Press(key)
    <3>1. PICK s \in ShiftScancodes : \E b \in Codes(key, s, code) : Send(b)
      BY <1>4, <2>1, <2>2
    <3> QED
      BY <2>1, <2>2, <3>1
  <2>3. CASE Release(key)
    <3>1. PICK s \in ShiftScancodes : \E b \in Codes(key, s, code + 128) : Send(b)
      BY <1>4, <2>1, <2>3
    <3> QED
      BY <2>1, <2>3, <3>1
  <2> QED
    BY <2>2, <2>3
<1>6. PICK b \in Codes(key, s, x) :
        /\ wire' = wire \o b
        /\ (x = code /\ Press(key)) \/ (x = code + 128 /\ Release(key))
  BY <1>5 DEF Send
<1>7. CASE key >= 57344
  <2>1. b = <<Extended, x>> \/ b = <<Extended, s, Extended, x>>
    <3>1. ~ (key < 57344)
      BY <1>7, KeyboardAssumption
    <3> QED
      BY <3>1, SMT DEF Codes
  <2>2. held' = held
    <3>1. key \notin Shifts
      BY <1>3, <1>7
    <3>2. held \cup ({key} \cap Shifts) = held /\ held \ {key} = held
      BY <1>1, <3>1
    <3> QED
      BY <3>2 DEF Press, Release
  <2>3. /\ b \in Seq(Scancodes) /\ b # <<>> /\ b[Len(b)] # Extended
        /\ \A k \in 1 .. Len(b) : PlainAt(0, b, k) => b[k] \notin Shifts
    BY <2>1, ExtendedCodes
  <2>4. \A k \in 1 .. Len(b) : PlainAt(0, b, k) /\ b[k] \in Shifts => b[k] \in held
    BY <2>3
  <2>5. b \in Seq(1 .. 255) /\ b # <<>> /\ b[Len(b)] # Extended
    BY <2>3 DEF Scancodes
  <2>6. Released(lastScancode, wire \o b, kbFlag, held)
    BY <1>1, <2>4, <2>5, SendMore DEF KInv
  <2> QED
    BY <1>2, <1>6, <2>2, <2>6 DEF KInv
<1>8. CASE key < 57344
  <2>1. b = <<x>>
    BY <1>8, SMT DEF Codes
  <2>2. key = code
    BY <1>3, <1>8
  <2>3. /\ b \in Seq(1 .. 255) /\ b # <<>> /\ Len(b) = 1 /\ b[1] = x
        /\ \A k \in 1 .. Len(b) : k = 1
    BY <2>1 DEF KeyScancodes
  <2>4. PlainAt(0, b, 1) /\ b[Len(b)] # Extended
    <3>1. x # 224
      BY DEF KeyScancodes
    <3> QED
      BY <2>3, <3>1, CodesDiffer DEF PlainAt
  <2>5. x \in Shifts => x \in held'
    <3> SUFFICES ASSUME x \in {42, 54} PROVE x \in held'
      BY CodesDiffer
    <3>1. x = code /\ Press(key)
      BY <1>3, <1>6
    <3> QED
      BY <2>2, <3>1, CodesDiffer DEF Press
  <2>6. \A shift \in Shifts \ held' : shift \in held => x = Break(shift)
    BY <1>6, <2>2 DEF Press, Release, Break
  <2>7. \A k \in 1 .. Len(b) : PlainAt(0, b, k) /\ b[k] \in Shifts => b[k] \in held'
    BY <2>3, <2>5
  <2>8. \A shift \in Shifts \ held' : shift \in held =>
            \E k \in 1 .. Len(b) : PlainAt(0, b, k) /\ b[k] = Break(shift)
    BY <2>3, <2>4, <2>6
  <2>9. Released(lastScancode, wire \o b, kbFlag, held')
    BY <1>1, <2>3, <2>4, <2>7, <2>8, SendMore DEF KInv
  <2> QED
    BY <1>2, <1>6, <2>9 DEF KInv
<1> QED
  <2>1. key \in Int
    BY KeyboardAssumption
  <2> QED
    BY <1>7, <1>8, <2>1

(* So does what the handler takes. *)
LEMMA HandlerTakes ==
    ASSUME IInv, KInv, irq01_handler
    PROVE  KInv'
<1>1. /\ wire \in Seq(1 .. 255) /\ wire # <<>> /\ lastScancode \in 0 .. 255
      /\ kbFlag \in SUBSET Shifts
  BY DEF IInv, TypeOK, irq01_handler
<1>2. /\ wire' = Tail(wire) /\ lastScancode' = wire[1] /\ held' = held
      /\ lastScancode = Extended => kbFlag' = kbFlag
      /\ lastScancode # Extended => kbFlag' = NewFlag(wire[1])
  <2>1. Head(wire) = wire[1]
    BY <1>1
  <2> QED
    BY <2>1 DEF irq01_handler, kbHandler
<1>3. /\ wire[1] \in Shifts => NewFlag(wire[1]) = kbFlag \cup {wire[1]}
      /\ wire[1] \in {170, 182} => NewFlag(wire[1]) = {}
      /\ wire[1] \notin Shifts \cup {170, 182} => NewFlag(wire[1]) = kbFlag
  BY CodesDiffer DEF NewFlag
<1>4. kbFlag' \in SUBSET Shifts
  BY <1>1 DEF irq01_handler, kbHandler, NewFlag
<1>5. Released(wire[1], Tail(wire), kbFlag', held)
  BY <1>1, <1>2, <1>3, <1>4, TakeFirst DEF KInv
<1> QED
  BY <1>2, <1>5 DEF KInv

(* No shift gets stuck, whatever keys the user has and types and however    *)
(* many codes wait: a shift the handler takes for held is held, or its      *)
(* release is on the way.                                                   *)
THEOREM NoStuck == Spec => []NoStuckShift
<1> DEFINE all == <<consoleVars, keyboardVars>>
<1>1. Init => KInv
  BY CodesDiffer DEF Init, KInv, Released, EndsWhole, FlagsReleased, MakesReleased
<1>2. IInv /\ KInv /\ [Next]_all => KInv'
  <2> SUFFICES ASSUME IInv, KInv, [Next]_all PROVE KInv'
    OBVIOUS
  <2>1. CASE UNCHANGED keyboardVars
    BY <2>1 DEF KInv, keyboardVars
  <2>2. CASE Next
    BY <2>1, <2>2, KeySends, HandlerTakes DEF Next
  <2> QED
    BY <2>1, <2>2
<1>3. IInv /\ KInv => NoStuckShift
  <2> SUFFICES ASSUME IInv, KInv, NEW shift \in kbFlag, shift \notin held
               PROVE  \E i \in DOMAIN wire : Plain(i) /\ wire[i] = Break(shift)
    BY DEF NoStuckShift
  <2>1. BreakAfter(lastScancode, wire, 0, shift)
    BY DEF KInv, Released, FlagsReleased
  <2>2. PICK j \in 1 .. Len(wire) : PlainAt(lastScancode, wire, j) /\ wire[j] = Break(shift)
    BY <2>1 DEF BreakAfter
  <2>3. Plain(j)
    BY <2>2 DEF PlainAt, Plain
  <2>4. wire \in Seq(1 .. 255)
    BY DEF IInv, TypeOK
  <2> QED
    BY <2>2, <2>3, <2>4
<1> QED
  BY <1>1, <1>2, <1>3, Inductive, PTL DEF Spec

------------------------------------------------------------------------------
(* The text on the screen.  The kernel prints one line at a time, as its    *)
(* own messages are, and the keys that are typed print nothing: with the    *)
(* line ends of kern.c:95 or with Return the properties below are false.    *)

(* n characters and tabs, and then the end of the line or nothing *)
Line(text, n) ==
    /\ \A k \in 1 .. n : text[k] \in {"x", "tab"}
    /\ \/ Len(text) = n
       \/ Len(text) = n + 1 /\ text[n + 1] = "nl"
       \/ Len(text) = n + 2 /\ text[n + 1] = "nl" /\ text[n + 2] = "cr"
       \/ Len(text) = n + 2 /\ text[n + 1] = "cr" /\ text[n + 2] = "nl"

HasCharacter(text, n) == \E k \in 1 .. n : text[k] = "x"

OneLineTexts == \A text \in Texts : \E n \in 0 .. Len(text) : Line(text, n)

(* The codes that print, erase or move the cursor, with a prefix or without *)
ActsOnScreen ==
    scanCodeLookupTable \cup {\h0e, \h1c, \h35} \cup (\h47 .. \h51)

QuietKeys == \A key \in Keys : key % \h100 \notin ActsOnScreen

(* What TextInOrder says, of any cells *)
Ordered(cells, n) ==
    /\ \A p \in Cells : cells[p] <= n
    /\ \A p, q \in Cells :
         cells[p] # Blank /\ cells[q] # Blank /\ p < q => cells[p] < cells[q]
    /\ \A p \in Cells :
         cells[p] # Blank => \A c \in cells[p] .. n : \E q \in Cells : cells[q] = c

(* Everything on the screen is before pos *)
Before(cells, pos) == \A p \in Cells : cells[p] # Blank => p < pos

(* Between two strings: below the screen the cursor is one row too far, as  *)
(* the scroll that was for it has moved the text alone.                     *)
AtRest(s) ==
    /\ s.cursor <= Size + Width
    /\ Before(s.cells, IF s.cursor < Size THEN s.cursor ELSE s.cursor - Width)

(* In a string, before its first character *)
Begun ==
    /\ AtRest(screen) /\ screen.cursor <= index
    /\ \E n \in 1 .. Len(str) :
         /\ Line(str, n) /\ HasCharacter(str, n)
         /\ n <= Width
         /\ screen.cursor < Size => index + n <= Size

(* after it: what is left of the row has room for what is left of the text, *)
Within ==
    /\ Before(screen.cells, index)
    /\ \E n \in 0 .. Len(str) : Line(str, n) /\ index + n <= Size

(* and in the end of the line *)
Ending ==
    /\ index <= Size + Width
    /\ \/ str = <<>> /\ Before(screen.cells, index)
       \/ str = <<"cr">> /\ Before(screen.cells, index - Width)
       \/ str = <<"nl">> /\ Before(screen.cells, index + Width) /\ index <= Size

(* Scrolling keeps the text in order, and the cursor after it *)
TextInv ==
    /\ ~ screen.hung
    /\ Ordered(screen.cells, printed)
    /\ IF printing THEN Begun \/ Within \/ Ending ELSE AtRest(screen)

QuietWire ==
    /\ lastScancode \notin ActsOnScreen
    /\ \A k \in DOMAIN wire : wire[k] \notin ActsOnScreen

(* A scroll moves the text up in order and drops its first row *)
LEMMA MoveUpKeepsText ==
    ASSUME NEW cells \in [Cells -> Nat], NEW n \in Nat, NEW pos \in Int,
           Ordered(cells, n), Before(cells, pos)
    PROVE  /\ MoveUp(cells) \in [Cells -> Nat]
           /\ Ordered(MoveUp(cells), n)
           /\ Before(MoveUp(cells), pos - Width)
<1> DEFINE up == MoveUp(cells)
<1>1. Cells = 0 .. Size - 1 /\ Size \in Nat /\ Width \in Nat \ {0}
  BY ScreenSize DEF Cells
<1>2. \A p \in Cells : up[p] = IF p + Width < Size THEN cells[p + Width] ELSE Blank
  BY DEF MoveUp
<1>3. up \in [Cells -> Nat]
  BY <1>1 DEF MoveUp
<1>4. \A p \in Cells : up[p] # Blank => p + Width \in Cells /\ up[p] = cells[p + Width]
  BY <1>1, <1>2
<1>5. \A p \in Cells : up[p] <= n
  BY <1>1, <1>2 DEF Ordered
<1>6. ASSUME NEW p \in Cells, NEW q \in Cells, up[p] # Blank, up[q] # Blank, p < q
      PROVE  up[p] < up[q]
  <2>1. p + Width < q + Width
    BY <1>1, <1>6
  <2> QED
    BY <1>4, <1>6, <2>1 DEF Ordered
<1>7. ASSUME NEW p \in Cells, up[p] # Blank, NEW c \in up[p] .. n
      PROVE  \E q \in Cells : up[q] = c
  <2>1. p + Width \in Cells /\ up[p] = cells[p + Width]
    BY <1>4, <1>7
  <2>2. PICK q \in Cells : cells[q] = c
    BY <1>7, <2>1 DEF Ordered
  <2>3. c # Blank /\ cells[p + Width] <= c
    BY <1>3, <1>7, <2>1
  <2>4. ~ (q < p + Width)
    BY <1>7, <2>1, <2>2, <2>3 DEF Ordered
  <2>5. q - Width \in Cells /\ (q - Width) + Width = q
    BY <1>1, <2>1, <2>4
  <2>6. up[q - Width] = c
    BY <1>1, <1>2, <2>2, <2>5
  <2> QED
    BY <2>5, <2>6
<1>8. \A p \in Cells : up[p] # Blank => p < pos - Width
  BY <1>1, <1>4 DEF Before
<1> HIDE DEF up
<1>9. Ordered(up, n) /\ Before(up, pos - Width)
  BY <1>5, <1>6, <1>7, <1>8 DEF Ordered, Before
<1> QED
  BY <1>3, <1>9 DEF up

(* The next character goes behind the text *)
LEMMA StoreKeepsText ==
    ASSUME NEW cells \in [Cells -> Nat], NEW n \in Nat, NEW pos \in Cells,
           Ordered(cells, n), Before(cells, pos)
    PROVE  /\ Ordered([cells EXCEPT ![pos] = n + 1], n + 1)
           /\ Before([cells EXCEPT ![pos] = n + 1], pos + 1)
<1> DEFINE new == [cells EXCEPT ![pos] = n + 1]
<1>1. Cells \subseteq Nat
  BY ScreenSize DEF Cells
<1>2. \A p \in Cells : new[p] = IF p = pos THEN n + 1 ELSE cells[p]
  OBVIOUS
<1>3. \A p \in Cells : cells[p] <= n /\ cells[p] \in Nat
  BY DEF Ordered
<1>4. \A p \in Cells : new[p] <= n + 1
  BY <1>2, <1>3
<1>5. ASSUME NEW p \in Cells, NEW q \in Cells, new[p] # Blank, new[q] # Blank, p < q
      PROVE  new[p] < new[q]
  <2>1. p # pos
    BY <1>1, <1>2, <1>5 DEF Before
  <2>2. CASE q = pos
    BY <1>2, <1>3, <2>1, <2>2
  <2>3. CASE q # pos
    BY <1>2, <1>5, <2>1, <2>3 DEF Ordered
  <2> QED
    BY <2>2, <2>3
<1>6. ASSUME NEW p \in Cells, new[p] # Blank, NEW c \in new[p] .. n + 1
      PROVE  \E q \in Cells : new[q] = c
  <2>1. CASE c = n + 1
    BY <1>2, <2>1
  <2>2. CASE c # n + 1
    <3>1. p # pos /\ new[p] = cells[p] /\ c \in cells[p] .. n
      BY <1>2, <1>3, <1>6, <2>2
    <3>2. PICK q \in Cells : cells[q] = c
      BY <1>6, <3>1 DEF Ordered
    <3>3. q # pos
      <4>1. c # Blank
        BY <1>3, <1>6, <3>1
      <4> QED
        BY <1>1, <3>2, <4>1 DEF Before
    <3> QED
      BY <1>2, <3>2, <3>3
  <2> QED
    BY <2>1, <2>2
<1>7. \A p \in Cells : new[p] # Blank => p < pos + 1
  BY <1>1, <1>2 DEF Before
<1> HIDE DEF new
<1>8. Ordered(new, n + 1) /\ Before(new, pos + 1)
  BY <1>4, <1>5, <1>6, <1>7 DEF Ordered, Before
<1> QED
  BY <1>8 DEF new

(* scrollUp, two rows up at most: it comes to its end *)
LEMMA ScrollUpKeepsText ==
    ASSUME NEW s \in Screens, NEW n \in Nat, NEW pos \in Int, ~ s.hung,
           s.cursor <= Size + Width, Ordered(s.cells, n), Before(s.cells, pos)
    PROVE  LET t == scrollUp(s) IN
           /\ t \in Screens /\ ~ t.hung
           /\ Ordered(t.cells, n) /\ Before(t.cells, pos - Width)
           /\ t.cursor = IF s.cursor < 2 * Width THEN 0 ELSE s.cursor - 2 * Width
<1> DEFINE to == s.cursor - 2 * Width
<1>1. s.cursor \in Nat /\ Size \in Nat /\ Width \in Nat \ {0} /\ s.cells \in [Cells -> Nat]
  BY ScreenSize DEF Screens
<1>2. to \in Int /\ ~ (to >= Size) /\ (to < 0 <=> s.cursor < 2 * Width)
  BY <1>1
<1>3. scrollUp(s) = [s EXCEPT !.cells = MoveUp(s.cells), !.cursor = IF to < 0 THEN 0 ELSE to]
  BY <1>2 DEF scrollUp
<1>4. /\ MoveUp(s.cells) \in [Cells -> Nat]
      /\ Ordered(MoveUp(s.cells), n) /\ Before(MoveUp(s.cells), pos - Width)
  BY <1>1, MoveUpKeepsText
<1>5. scrollUp(s) \in Screens
  BY ScrollUp
<1>6. scrollUp(s).cells = MoveUp(s.cells) /\ scrollUp(s).hung = s.hung
  BY <1>3 DEF Screens
<1>7. scrollUp(s).cursor = IF to < 0 THEN 0 ELSE to
  BY <1>3 DEF Screens
<1> QED
  BY <1>2, <1>4, <1>5, <1>6, <1>7

(* The end of a string, and of printCharC, on the row below at most *)
LEMMA SetCursorKeepsText ==
    ASSUME NEW s \in Screens, NEW n \in Nat, NEW pos \in Nat, ~ s.hung,
           s.cursor <= pos, pos <= Size + Width,
           Ordered(s.cells, n), Before(s.cells, pos)
    PROVE  LET t == setCursorPosition(s, pos) IN
           ~ t.hung /\ Ordered(t.cells, n) /\ AtRest(t)
<1>1. s.cursor \in Nat /\ Size \in Nat /\ Width \in Nat \ {0}
  BY ScreenSize DEF Screens
<1>2. CASE pos < Size
  <2>1. setCursorPosition(s, pos) = [s EXCEPT !.cursor = pos]
    BY <1>1, <1>2 DEF setCursorPosition
  <2> DEFINE t == [s EXCEPT !.cursor = pos]
  <2>2. t.hung = s.hung /\ t.cells = s.cells /\ t.cursor = pos
    BY DEF Screens
  <2> HIDE DEF t
  <2>3. AtRest(t)
    BY <1>1, <1>2, <2>2 DEF AtRest
  <2> QED
    BY <2>1, <2>2, <2>3 DEF t
<1>3. CASE pos >= Size
  <2> DEFINE u == scrollUp(s)
             t == [u EXCEPT !.cursor = pos]
  <2>1. setCursorPosition(s, pos) = t
    BY <1>1, <1>3 DEF setCursorPosition
  <2>2. /\ u \in Screens /\ ~ u.hung
        /\ Ordered(u.cells, n) /\ Before(u.cells, pos - Width)
    <3>1. s.cursor <= Size + Width
      BY <1>1
    <3> QED
      BY <3>1, ScrollUpKeepsText
  <2> HIDE DEF u
  <2>3. t.hung = u.hung /\ t.cells = u.cells /\ t.cursor = pos
    BY <2>2 DEF Screens
  <2> HIDE DEF t
  <2>4. AtRest(t)
    BY <1>1, <1>3, <2>2, <2>3 DEF AtRest
  <2> QED
    BY <2>1, <2>2, <2>3, <2>4
<1> QED
  BY <1>1, <1>2, <1>3

------------------------------------------------------------------------------
(* The kernel's steps *)

(* A line is characters and tabs, and then what ends it *)
LEMMA LineParts ==
    ASSUME NEW text \in Seq(Controls \cup {"x"}), NEW n \in 0 .. Len(text), Line(text, n),
           NEW k \in 1 .. Len(text)
    PROVE  IF k <= n THEN text[k] \in {"x", "tab"} ELSE text[k] \in {"nl", "cr"}
<1>1. n \in Nat /\ Len(text) \in Nat /\ k \in Nat /\ 1 <= k /\ k <= Len(text)
  OBVIOUS
<1>2. CASE k <= n
  BY <1>1, <1>2 DEF Line
<1>3. CASE ~ (k <= n)
  <2>1. \/ k = n + 1 /\ text[n + 1] \in {"nl", "cr"}
        \/ k = n + 2 /\ text[n + 2] \in {"nl", "cr"}
    BY <1>1, <1>3 DEF Line
  <2> QED
    BY <1>3, <2>1
<1> QED
  BY <1>2, <1>3

(* What Fits counts are the characters and tabs of a line *)
LEMMA LineCount ==
    ASSUME NEW text \in Seq(Controls \cup {"x"}), NEW n \in 0 .. Len(text), Line(text, n)
    PROVE  Cardinality({k \in DOMAIN text : IsChar(text[k])}) = n
<1>1. n \in Nat /\ n <= Len(text) /\ DOMAIN text = 1 .. Len(text)
  OBVIOUS
<1>2. ASSUME NEW k \in 1 .. Len(text)
      PROVE  IsChar(text[k]) <=> k <= n
  BY <1>1, LineParts DEF IsChar
<1>3. {k \in DOMAIN text : IsChar(text[k])} = 1 .. n
  BY <1>1, <1>2
<1>4. Cardinality(1 .. n) = n
  <2>1. 1 \in Int /\ n \in Int /\ (IF 1 > n THEN 0 ELSE n - 1 + 1) = n
    OBVIOUS
  <2> QED
    BY <2>1, FS_Interval
<1> QED
  BY <1>3, <1>4

(* A cell's row ends on the screen *)
LEMMA RowEnds ==
    ASSUME NEW pos \in Nat, pos < Size
    PROVE  pos - (pos % Width) + Width <= Size
<1> DEFINE row == pos \div Width
<1>1. Width \in Nat \ {0} /\ Height \in Nat /\ Size = Width * Height
  BY ConsoleAssumption DEF Size
<1>2. row \in Nat /\ pos % Width \in Nat /\ pos = Width * row + (pos % Width)
  BY <1>1
<1> HIDE DEF row
<1>3. row < Height
  <2>1. CASE row >= Height
    <3>1. Width * row >= Width * Height
      BY <1>1, <1>2, <2>1
    <3> QED
      BY <1>1, <1>2, <3>1
  <2> QED
    BY <1>1, <1>2, <2>1
<1>4. Width * (row + 1) <= Width * Height
  BY <1>1, <1>2, <1>3
<1>5. Width * (row + 1) = Width * row + Width
  BY <1>1, <1>2
<1> QED
  BY <1>1, <1>2, <1>4, <1>5

(* The rest of a line, one character or tab later *)
LEMMA RestOfLine ==
    ASSUME NEW text \in Seq(Controls \cup {"x"}), NEW n \in 0 .. Len(text), Line(text, n),
           text # <<>>
    PROVE  /\ Head(text) \in {"x", "tab"} =>
                n >= 1 /\ n - 1 \in 0 .. Len(Tail(text)) /\ Line(Tail(text), n - 1)
           /\ Head(text) = "tab" /\ HasCharacter(text, n) =>
                n - 1 >= 1 /\ HasCharacter(Tail(text), n - 1)
           /\ Head(text) = "nl" => n = 0 /\ Tail(text) \in {<<>>, <<"cr">>}
           /\ Head(text) = "cr" => n = 0 /\ Tail(text) = <<"nl">>
<1>1. /\ Len(text) \in Nat \ {0} /\ n \in Nat /\ n <= Len(text)
      /\ Head(text) = text[1]
      /\ Len(Tail(text)) = Len(text) - 1
      /\ \A k \in 1 .. Len(text) - 1 : Tail(text)[k] = text[k + 1]
      /\ Tail(text) \in Seq(Controls \cup {"x"})
  OBVIOUS
<1> DEFINE rest == Tail(text)
<1> HIDE DEF rest
<1>2. /\ rest \in Seq(Controls \cup {"x"}) /\ Len(rest) = Len(text) - 1
      /\ \A k \in 1 .. Len(rest) : rest[k] = text[k + 1]
  BY <1>1 DEF rest
<1>3. n = 0 => Head(text) \in {"nl", "cr"}
  BY <1>1, LineParts
<1>4. n # 0 => Head(text) \in {"x", "tab"}
  BY <1>1, LineParts
<1>5. ASSUME n # 0
      PROVE  n - 1 \in 0 .. Len(rest) /\ Line(rest, n - 1)
  <2>1. \A k \in 1 .. n - 1 : rest[k] = text[k + 1] /\ k + 1 \in 1 .. n
    BY <1>1, <1>2, <1>5
  <2>2. \A k \in 1 .. n - 1 : rest[k] \in {"x", "tab"}
    BY <2>1 DEF Line
  <2>3. /\ Len(text) >= n + 1 => rest[n] = text[n + 1]
        /\ Len(text) >= n + 2 => rest[n + 1] = text[n + 2]
    BY <1>1, <1>2, <1>5
  <2>4. (n - 1) + 1 = n /\ (n - 1) + 2 = n + 1 /\ n - 1 \in 0 .. Len(rest)
    BY <1>1, <1>2, <1>5
  <2>5. \/ Len(rest) = n - 1
        \/ Len(rest) = n /\ rest[n] = "nl"
        \/ Len(rest) = n + 1 /\ rest[n] = "nl" /\ rest[n + 1] = "cr"
        \/ Len(rest) = n + 1 /\ rest[n] = "cr" /\ rest[n + 1] = "nl"
    <3>1. CASE Len(text) = n
      BY <1>1, <1>2, <3>1
    <3>2. CASE Len(text) = n + 1 /\ text[n + 1] = "nl"
      BY <1>1, <1>2, <2>3, <3>2
    <3>3. CASE Len(text) = n + 2 /\ text[n + 1] = "nl" /\ text[n + 2] = "cr"
      BY <1>1, <1>2, <2>3, <3>3
    <3>4. CASE Len(text) = n + 2 /\ text[n + 1] = "cr" /\ text[n + 2] = "nl"
      BY <1>1, <1>2, <2>3, <3>4
    <3> QED
      BY <3>1, <3>2, <3>3, <3>4 DEF Line
  <2> QED
    BY <2>2, <2>4, <2>5 DEF Line
<1>6. ASSUME Head(text) = "tab", HasCharacter(text, n)
      PROVE  n - 1 >= 1 /\ HasCharacter(rest, n - 1)
  <2>1. PICK k \in 1 .. n : text[k] = "x"
    BY <1>6 DEF HasCharacter
  <2>2. k # 1 /\ k - 1 \in 1 .. n - 1 /\ k - 1 \in 1 .. Len(rest) /\ (k - 1) + 1 = k
    BY <1>1, <1>2, <1>6, <2>1
  <2>3. rest[k - 1] = "x"
    BY <1>2, <2>1, <2>2
  <2> QED
    BY <1>1, <2>2, <2>3 DEF HasCharacter
<1>7. ASSUME n = 0, Head(text) = "nl"
      PROVE  rest \in {<<>>, <<"cr">>}
  <2>1. \/ Len(rest) = 0
        \/ Len(rest) = 1 /\ rest[1] = "cr"
    BY <1>1, <1>2, <1>7 DEF Line
  <2>2. Len(rest) = 0 => rest = <<>>
    BY <1>2
  <2>3. Len(rest) = 1 /\ rest[1] = "cr" => rest = <<"cr">>
    BY <1>2
  <2> QED
    BY <2>1, <2>2, <2>3
<1>8. ASSUME n = 0, Head(text) = "cr"
      PROVE  rest = <<"nl">>
  <2>1. Len(rest) = 1 /\ rest[1] = "nl"
    BY <1>1, <1>2, <1>8 DEF Line
  <2> QED
    BY <1>2, <2>1
<1>9. Head(text) \in {"x", "tab"} => n >= 1
  BY <1>1, <1>3
<1> QED
  BY <1>3, <1>4, <1>5, <1>6, <1>7, <1>8, <1>9 DEF rest

(* The state of the console, as the steps use it *)
LEMMA ConsoleState ==
    ASSUME IInv
    PROVE  /\ screen \in Screens /\ screen.cursor \in Nat /\ screen.cells \in [Cells -> Nat]
           /\ str \in Seq(Controls \cup {"x"}) /\ index \in Nat /\ printed \in Nat
           /\ Size \in Nat /\ Width \in Nat \ {0} /\ 2 * Width <= Size
<1>1. Width * Height >= Width * 2 /\ Width * 2 = 2 * Width
  BY ConsoleAssumption
<1> QED
  BY <1>1, ScreenSize, ConsoleAssumption
  DEF IInv, TypeOK, ConsoleTypeOK, Screens, Size

LEMMA StringBegins ==
    ASSUME IInv, TextInv, OneLineTexts, NEW text \in Texts, Fits(text), printStrC(text)
    PROVE  TextInv'
<1>1. /\ ~ printing /\ printing' = TRUE /\ str' = text /\ index' = screen.cursor
      /\ screen' = screen /\ printed' = printed
  BY DEF printStrC
<1>2. text \in Seq(Controls \cup {"x"})
  BY ConsoleAssumption
<1>3. PICK n \in 0 .. Len(text) : Line(text, n)
  BY DEF OneLineTexts
<1>4. (screen.cursor % Width) + n <= Width
  BY <1>2, <1>3, LineCount DEF Fits
<1>5. n \in Nat /\ screen.cursor % Width \in Nat
  BY <1>2, ConsoleState
<1>6. screen.cursor < Size => screen.cursor + n <= Size
  <2>1. SUFFICES ASSUME screen.cursor < Size PROVE screen.cursor + n <= Size
    OBVIOUS
  <2>2. screen.cursor - (screen.cursor % Width) + Width <= Size
    BY <2>1, RowEnds, ConsoleState
  <2> QED
    BY <1>4, <1>5, <2>2, ConsoleState
<1>7. n <= Width /\ screen.cursor <= index'
  BY <1>1, <1>4, <1>5, ConsoleState
<1>8. AtRest(screen)
  BY <1>1 DEF TextInv
<1>9. CASE screen.cursor \in Cells
  <2>1. screen.cursor < Size
    BY <1>9, ConsoleState DEF Cells
  <2>2. Before(screen.cells, index')
    BY <1>1, <1>8, <2>1 DEF AtRest
  <2>3. Within'
    BY <1>1, <1>3, <1>6, <2>1, <2>2 DEF Within
  <2> QED
    BY <1>1, <2>3 DEF TextInv
<1>10. CASE screen.cursor \notin Cells
  <2>1. PICK k \in 1 .. Len(text) : text[k] = "x"
    BY <1>2, <1>10 DEF Fits
  <2>2. k \in 1 .. n /\ n \in 1 .. Len(text)
    BY <1>2, <1>3, <1>5, <2>1, LineParts
  <2>3. HasCharacter(text, n)
    BY <2>1, <2>2 DEF HasCharacter
  <2>4. Begun'
    BY <1>1, <1>3, <1>6, <1>7, <1>8, <2>2, <2>3 DEF Begun
  <2> QED
    BY <1>1, <2>4 DEF TextInv
<1> QED
  BY <1>9, <1>10

(* A control character moves the index only *)
LEMMA ControlKeepsText ==
    ASSUME IInv, TextInv, printStrC_control
    PROVE  TextInv'
<1>1. /\ str # <<>> /\ Head(str) \in Controls /\ str' = Tail(str)
      /\ screen' = screen /\ printing = TRUE /\ printing' = printing /\ printed' = printed
      /\ Head(str) = "tab" => index' = index + 1
      /\ Head(str) = "nl" => index' = index + Width
      /\ Head(str) = "cr" => index' = index - (index % Width)
  <2>1. printing = TRUE
    BY DEF IInv, TypeOK, ConsoleTypeOK, printStrC_control
  <2> QED
    BY <2>1 DEF printStrC_control, TABSIZE
<1>2. index % Width \in 0 .. Width - 1 /\ index - (index % Width) \in Nat
  BY Remainder, ConsoleState
<1>3. CASE Begun
  <2>1. PICK n \in 1 .. Len(str) : /\ Line(str, n) /\ HasCharacter(str, n) /\ n <= Width
                                   /\ screen.cursor < Size => index + n <= Size
    BY <1>3 DEF Begun
  <2>2. n \in 0 .. Len(str) /\ n \in Nat /\ n # 0
    BY ConsoleState
  <2>3. Head(str) = "tab"
    BY <1>1, <2>1, <2>2, RestOfLine, ConsoleState
  <2>4. /\ n - 1 \in 0 .. Len(str') /\ Line(str', n - 1)
        /\ n - 1 >= 1 /\ HasCharacter(str', n - 1)
    BY <1>1, <2>1, <2>2, <2>3, RestOfLine, ConsoleState
  <2>5. n - 1 \in 1 .. Len(str')
    BY <2>2, <2>4
  <2>6. n - 1 <= Width /\ (screen.cursor < Size => index' + (n - 1) <= Size)
    BY <1>1, <2>1, <2>2, <2>3, ConsoleState
  <2>7. screen.cursor <= index' /\ AtRest(screen)
    BY <1>1, <1>3, <2>3, ConsoleState DEF Begun
  <2>8. Begun'
    BY <1>1, <2>4, <2>5, <2>6, <2>7 DEF Begun
  <2> QED
    BY <1>1, <2>8 DEF TextInv
<1>4. CASE Within
  <2>1. PICK n \in 0 .. Len(str) : Line(str, n) /\ index + n <= Size
    BY <1>4 DEF Within
  <2>2. n \in Nat /\ Before(screen.cells, index)
    BY <1>4, ConsoleState DEF Within
  <2>3. CASE Head(str) = "tab"
    <3>1. n - 1 \in 0 .. Len(str') /\ Line(str', n - 1)
      BY <1>1, <2>1, <2>3, RestOfLine, ConsoleState
    <3>2. index' + (n - 1) <= Size
      BY <1>1, <2>1, <2>2, <2>3, ConsoleState
    <3>3. Before(screen.cells, index')
      BY <1>1, <2>2, <2>3, ConsoleState DEF Before, Cells
    <3>4. Within'
      BY <1>1, <3>1, <3>2, <3>3 DEF Within
    <3> QED
      BY <1>1, <3>4 DEF TextInv
  <2>4. CASE Head(str) = "nl"
    <3>1. n = 0 /\ str' \in {<<>>, <<"cr">>}
      BY <1>1, <2>1, <2>4, RestOfLine, ConsoleState
    <3>2. index' = index + Width /\ index' <= Size + Width /\ index' - Width = index
      BY <1>1, <2>1, <2>2, <2>4, <3>1, ConsoleState
    <3>3. Before(screen.cells, index') /\ Before(screen.cells, index' - Width)
      BY <2>2, <3>2, ConsoleState DEF Before, Cells
    <3>4. Ending'
      BY <1>1, <3>1, <3>2, <3>3 DEF Ending
    <3> QED
      BY <1>1, <3>4 DEF TextInv
  <2>5. CASE Head(str) = "cr"
    <3>1. n = 0 /\ str' = <<"nl">>
      BY <1>1, <2>1, <2>5, RestOfLine, ConsoleState
    <3>2. index' \in Nat /\ index' <= Size /\ index <= index' + Width
      BY <1>1, <1>2, <2>1, <2>2, <2>5, <3>1, ConsoleState
    <3>3. Before(screen.cells, index' + Width)
      BY <2>2, <3>2, ConsoleState DEF Before, Cells
    <3>4. index' <= Size + Width
      BY <3>2, ConsoleState
    <3>5. Ending'
      BY <1>1, <3>1, <3>2, <3>3, <3>4 DEF Ending
    <3> QED
      BY <1>1, <3>5 DEF TextInv
  <2> QED
    BY <1>1, <2>3, <2>4, <2>5
<1>5. CASE Ending
  <2>1. CASE str = <<"cr">>
    <3>1. Before(screen.cells, index - Width) /\ index <= Size + Width
      BY <1>5, <2>1 DEF Ending
    <3>2. Head(str) = "cr" /\ str' = <<>>
      BY <1>1, <2>1
    <3>3. index' \in Nat /\ index - Width <= index' /\ index' <= Size + Width
      BY <1>1, <1>2, <3>1, <3>2, ConsoleState
    <3>4. Before(screen.cells, index')
      BY <3>1, <3>3, ConsoleState DEF Before, Cells
    <3>5. Ending'
      BY <1>1, <3>2, <3>3, <3>4 DEF Ending
    <3> QED
      BY <1>1, <3>5 DEF TextInv
  <2>2. CASE str = <<"nl">>
    <3>1. Before(screen.cells, index + Width) /\ index <= Size
      BY <1>5, <2>2 DEF Ending
    <3>2. Head(str) = "nl" /\ str' = <<>>
      BY <1>1, <2>2
    <3>3. index' = index + Width /\ index' <= Size + Width
      BY <1>1, <3>1, <3>2, ConsoleState
    <3>4. Ending'
      BY <1>1, <3>1, <3>2, <3>3 DEF Ending
    <3> QED
      BY <1>1, <3>4 DEF TextInv
  <2> QED
    BY <1>1, <1>5, <2>1, <2>2 DEF Ending
<1> QED
  BY <1>1, <1>3, <1>4, <1>5 DEF TextInv

(* What Store does to a screen with room at pos *)
LEMMA StoreOnScreen ==
    ASSUME NEW s \in Screens, NEW n \in Nat, NEW pos \in Cells, ~ s.hung,
           Ordered(s.cells, n), Before(s.cells, pos)
    PROVE  LET t == Store(s, pos, n + 1) IN
           /\ t \in Screens /\ ~ t.hung /\ t.cursor = s.cursor
           /\ Ordered(t.cells, n + 1) /\ Before(t.cells, pos + 1)
<1>1. Store(s, pos, n + 1) = [s EXCEPT !.cells[pos] = n + 1]
  BY DEF Store
<1>2. pos \in Nat /\ n + 1 \in Nat /\ s.cells \in [Cells -> Nat]
  BY ScreenSize DEF Cells, Screens
<1>3. Store(s, pos, n + 1) \in Screens /\ Store(s, pos, n + 1).cursor = s.cursor
  BY <1>2, StoreIsScreen
<1>4. /\ Store(s, pos, n + 1).cells = [s.cells EXCEPT ![pos] = n + 1]
      /\ Store(s, pos, n + 1).hung = s.hung
  BY <1>1 DEF Screens
<1>5. /\ Ordered([s.cells EXCEPT ![pos] = n + 1], n + 1)
      /\ Before([s.cells EXCEPT ![pos] = n + 1], pos + 1)
  BY <1>2, StoreKeepsText
<1> QED
  BY <1>3, <1>4, <1>5

(* A character scrolls what is below the screen and is stored behind the text *)
LEMMA CharKeepsText ==
    ASSUME IInv, TextInv, printStrC_char
    PROVE  TextInv'
<1>1. /\ str # <<>> /\ Head(str) \notin Controls /\ str' = Tail(str)
      /\ printing = TRUE /\ printing' = printing /\ printed' = printed + 1
      /\ screen' = Store(MakeRoom(screen), RoomAt(screen), printed + 1)
      /\ index' = RoomAt(screen) + 1
  <2>1. printing = TRUE
    BY DEF IInv, TypeOK, ConsoleTypeOK, printStrC_char
  <2> QED
    BY <2>1 DEF printStrC_char
<1>2. Head(str) = "x"
  BY <1>1, ConsoleState
<1>3. ~ screen.hung /\ Ordered(screen.cells, printed)
  BY DEF TextInv
<1>4. \E n \in 0 .. Len(str) :
        /\ Line(str, n)
        /\ MakeRoom(screen) \in Screens /\ ~ MakeRoom(screen).hung
        /\ Ordered(MakeRoom(screen).cells, printed)
        /\ Before(MakeRoom(screen).cells, RoomAt(screen))
        /\ RoomAt(screen) \in Nat /\ RoomAt(screen) + n <= Size
  <2>1. CASE Begun /\ index >= Size
    <3>1. PICK n \in 1 .. Len(str) : /\ Line(str, n) /\ n <= Width
                                     /\ screen.cursor < Size => index + n <= Size
      BY <2>1 DEF Begun
    <3>2. n \in 0 .. Len(str) /\ n \in Nat /\ n >= 1
      BY ConsoleState
    <3>3. screen.cursor >= Size /\ screen.cursor <= Size + Width
      BY <2>1, <3>1, <3>2, ConsoleState DEF Begun, AtRest
    <3>4. Before(screen.cells, screen.cursor - Width) /\ screen.cursor - Width \in Int
      BY <2>1, <3>3, ConsoleState DEF Begun, AtRest
    <3>5. /\ scrollUp(screen) \in Screens /\ ~ scrollUp(screen).hung
          /\ Ordered(scrollUp(screen).cells, printed)
          /\ Before(scrollUp(screen).cells, (screen.cursor - Width) - Width)
          /\ scrollUp(screen).cursor = IF screen.cursor < 2 * Width THEN 0
                                       ELSE screen.cursor - 2 * Width
      BY <1>3, <3>3, <3>4, ScrollUpKeepsText, ConsoleState
    <3>6. /\ scrollUp(screen).cursor = screen.cursor - 2 * Width
          /\ (screen.cursor - Width) - Width = screen.cursor - 2 * Width
          /\ screen.cursor - 2 * Width \in Nat
          /\ (screen.cursor - 2 * Width) + n <= Size
      BY <3>1, <3>2, <3>3, <3>5, ConsoleState
    <3>7. MakeRoom(screen) = scrollUp(screen) /\ RoomAt(screen) = scrollUp(screen).cursor
      BY <2>1 DEF MakeRoom, RoomAt
    <3> QED
      BY <3>1, <3>2, <3>5, <3>6, <3>7
  <2>2. CASE Begun /\ index < Size
    <3>1. PICK n \in 1 .. Len(str) : /\ Line(str, n)
                                     /\ screen.cursor < Size => index + n <= Size
      BY <2>2 DEF Begun
    <3>2. n \in 0 .. Len(str) /\ screen.cursor < Size /\ screen.cursor <= index
      BY <2>2, ConsoleState DEF Begun
    <3>3. Before(screen.cells, screen.cursor)
      BY <2>2, <3>2 DEF Begun, AtRest
    <3>4. Before(screen.cells, index)
      BY <3>2, <3>3, ConsoleState DEF Before, Cells
    <3>5. MakeRoom(screen) = screen /\ RoomAt(screen) = index
      BY <2>2, ConsoleState DEF MakeRoom, RoomAt
    <3> QED
      BY <1>3, <3>1, <3>2, <3>4, <3>5, ConsoleState
  <2>3. CASE Within
    <3>1. PICK n \in 0 .. Len(str) : Line(str, n) /\ index + n <= Size
      BY <2>3 DEF Within
    <3>2. n >= 1
      BY <1>1, <1>2, <3>1, RestOfLine, ConsoleState
    <3>3. n \in Nat /\ index < Size
      BY <3>1, <3>2, ConsoleState
    <3>4. MakeRoom(screen) = screen /\ RoomAt(screen) = index
      BY <3>3, ConsoleState DEF MakeRoom, RoomAt
    <3> QED
      BY <1>3, <2>3, <3>1, <3>4, ConsoleState DEF Within
  <2>4. CASE Ending
    BY <1>1, <1>2, <2>4 DEF Ending
  <2> QED
    BY <1>1, <2>1, <2>2, <2>3, <2>4, ConsoleState DEF TextInv
<1>5. PICK n \in 0 .. Len(str) :
        /\ Line(str, n)
        /\ MakeRoom(screen) \in Screens /\ ~ MakeRoom(screen).hung
        /\ Ordered(MakeRoom(screen).cells, printed)
        /\ Before(MakeRoom(screen).cells, RoomAt(screen))
        /\ RoomAt(screen) \in Nat /\ RoomAt(screen) + n <= Size
  BY <1>4
<1> DEFINE room == MakeRoom(screen)
           at == RoomAt(screen)
<1> HIDE DEF room, at
<1>6. n \in Nat /\ n >= 1 /\ n - 1 \in 0 .. Len(str') /\ Line(str', n - 1)
  BY <1>1, <1>2, <1>5, RestOfLine, ConsoleState
<1>7. at \in Cells /\ room \in Screens
  BY <1>5, <1>6, ConsoleState DEF Cells, at, room
<1>8. /\ ~ screen'.hung /\ Ordered(screen'.cells, printed')
      /\ Before(screen'.cells, index')
  <2>1. ~ room.hung /\ Ordered(room.cells, printed) /\ Before(room.cells, at)
    BY <1>5 DEF room, at
  <2>2. LET t == Store(room, at, printed + 1) IN
        ~ t.hung /\ Ordered(t.cells, printed + 1) /\ Before(t.cells, at + 1)
    BY <1>7, <2>1, StoreOnScreen, ConsoleState
  <2>3. screen' = Store(room, at, printed + 1) /\ index' = at + 1
    BY <1>1 DEF room, at
  <2> QED
    BY <1>1, <2>2, <2>3
<1>9. index' + (n - 1) <= Size
  <2>1. at \in Nat /\ at + n <= Size /\ index' = at + 1
    BY <1>1, <1>5 DEF at
  <2> QED
    BY <1>6, <2>1, ConsoleState
<1>10. Within'
  BY <1>6, <1>8, <1>9 DEF Within
<1> QED
  BY <1>1, <1>8, <1>10 DEF TextInv

LEMMA EndKeepsText ==
    ASSUME IInv, TextInv, printStrC_end
    PROVE  TextInv'
<1> DEFINE t == [screen EXCEPT !.cursor = index]
<1>1. /\ str = <<>> /\ printing = TRUE /\ printing' = FALSE /\ printed' = printed
      /\ screen' = setCursorPosition(t, index)
  BY DEF IInv, TypeOK, ConsoleTypeOK, printStrC_end
<1>2. t \in Screens /\ t.hung = screen.hung /\ t.cells = screen.cells /\ t.cursor = index
  BY ConsoleState DEF Screens
<1> HIDE DEF t
<1>3. ~ t.hung /\ Ordered(t.cells, printed)
  BY <1>2 DEF TextInv
<1>4. Before(t.cells, index) /\ index <= Size + Width
  <2>1. ~ Begun
    BY <1>1 DEF Begun
  <2>2. CASE Within
    <3>1. PICK n \in 0 .. Len(str) : index + n <= Size
      BY <2>2 DEF Within
    <3>2. n = 0
      BY <1>1
    <3>3. index <= Size
      BY <3>1, <3>2, ConsoleState
    <3> QED
      BY <1>2, <2>2, <3>3, ConsoleState DEF Within
  <2>3. CASE Ending
    BY <1>1, <1>2, <2>3 DEF Ending
  <2> QED
    BY <1>1, <2>1, <2>2, <2>3 DEF TextInv
<1>5. t.cursor <= index
  BY <1>2, ConsoleState
<1>6. /\ ~ setCursorPosition(t, index).hung
      /\ Ordered(setCursorPosition(t, index).cells, printed)
      /\ AtRest(setCursorPosition(t, index))
  BY <1>2, <1>3, <1>4, <1>5, SetCursorKeepsText, ConsoleState
<1> QED
  BY <1>1, <1>6 DEF TextInv

LEMMA PrintCharKeepsText ==
    ASSUME IInv, TextInv, printChar
    PROVE  TextInv'
<1> DEFINE t == Store(screen, screen.cursor, printed + 1)
<1>1. /\ printing = FALSE /\ printing' = FALSE /\ printed' = printed + 1
      /\ screen.cursor \in Cells
      /\ screen' = setCursorPosition(t, screen.cursor + 1)
  BY DEF IInv, TypeOK, ConsoleTypeOK, printChar, printCharC
<1>2. ~ screen.hung /\ Ordered(screen.cells, printed) /\ AtRest(screen)
  BY <1>1 DEF TextInv
<1>3. screen.cursor < Size
  BY <1>1, ConsoleState DEF Cells
<1>4. Before(screen.cells, screen.cursor)
  BY <1>2, <1>3 DEF AtRest
<1>5. /\ t \in Screens /\ ~ t.hung /\ t.cursor = screen.cursor
      /\ Ordered(t.cells, printed + 1) /\ Before(t.cells, screen.cursor + 1)
  BY <1>1, <1>2, <1>4, StoreOnScreen, ConsoleState
<1> HIDE DEF t
<1>6. /\ screen.cursor + 1 \in Nat /\ t.cursor <= screen.cursor + 1
      /\ screen.cursor + 1 <= Size + Width /\ printed + 1 \in Nat
  BY <1>3, <1>5, ConsoleState
<1>7. /\ ~ setCursorPosition(t, screen.cursor + 1).hung
      /\ Ordered(setCursorPosition(t, screen.cursor + 1).cells, printed + 1)
      /\ AtRest(setCursorPosition(t, screen.cursor + 1))
  BY <1>5, <1>6, SetCursorKeepsText
<1> QED
  BY <1>1, <1>7 DEF TextInv

------------------------------------------------------------------------------
(* The keyboard, when nothing that is typed acts on the screen *)

LEMMA QuietCodes ==
    /\ ActsOnScreen \subseteq 2 .. \h51
    /\ \A c \in Nat : c > \h51 => c \notin ActsOnScreen
    /\ {0, LSHIFT, Break(LSHIFT), Extended} \cap ActsOnScreen = {}
<1>1. ActsOnScreen \subseteq 2 .. \h51 /\ \h2a \notin ActsOnScreen
  BY DEF ActsOnScreen, scanCodeLookupTable
<1> QED
  BY <1>1 DEF LSHIFT, Break, Extended

LEMMA HandlersAreQuiet ==
    ASSUME NEW s, NEW code \in Nat, code \notin ActsOnScreen
    PROVE  kbHandler0xe0(s, code) = s /\ stdKbHandler(s, code) = s
<1>1. /\ code \notin scanCodeLookupTable
      /\ code \notin {\h0e, \h1c, \h35, \h47, \h48, \h49, \h4b, \h4d, \h4f, \h50, \h51}
  BY DEF ActsOnScreen
<1>2. kbHandler0xe0(s, code) = s
  BY <1>1 DEF kbHandler0xe0
<1>3. stdKbHandler(s, code) = s
  BY <1>1 DEF stdKbHandler
<1> QED
  BY <1>2, <1>3

LEMMA KeysAreQuiet ==
    ASSUME IInv, QuietKeys, QuietWire, NEW key \in Keys, Press(key) \/ Release(key)
    PROVE  QuietWire'
<1> DEFINE Quiet == 1 .. 255 \ ActsOnScreen
<1>1. key % \h100 \in 1 .. \h58 /\ Break(key % \h100) \in \h81 .. \hd8
  BY CodesAreBytes
<1>2. key % \h100 \notin ActsOnScreen
  BY DEF QuietKeys
<1>3. LSHIFT \in 1 .. 255 /\ Break(LSHIFT) \in 1 .. 255 /\ Extended \in 1 .. 255
  BY DEF LSHIFT, Break, Extended
<1>4. /\ key % \h100 \in Quiet /\ Break(key % \h100) \in Quiet
      /\ LSHIFT \in Quiet /\ Break(LSHIFT) \in Quiet /\ Extended \in Quiet
  BY <1>1, <1>2, <1>3, QuietCodes
<1> HIDE DEF Quiet
<1>5. \A shift, code \in Quiet :
        \A bytes \in Codes(key, shift, code) : bytes \in Seq(Quiet)
  <2> SUFFICES ASSUME NEW shift \in Quiet, NEW code \in Quiet
               PROVE  \A bytes \in Codes(key, shift, code) : bytes \in Seq(Quiet)
    OBVIOUS
  <2>1. /\ <<code>> \in Seq(Quiet) /\ <<Extended, code>> \in Seq(Quiet)
        /\ <<Extended, shift, Extended, code>> \in Seq(Quiet)
    BY <1>4
  <2>2. Codes(key, shift, code) \subseteq
          {<<code>>, <<Extended, code>>, <<Extended, shift, Extended, code>>}
    BY SMT DEF Codes
  <2> QED
    BY <2>1, <2>2
<1>6. PICK bytes \in Seq(Quiet) : wire' = wire \o bytes /\ lastScancode' = lastScancode
  <2>1. CASE Press(key)
    BY <1>4, <1>5, <2>1 DEF Press, Send
  <2>2. CASE Release(key)
    BY <1>4, <1>5, <2>2 DEF Release, Send
  <2> QED
    BY <2>1, <2>2
<1>7. wire \in Seq(1 .. 255)
  BY DEF IInv, TypeOK
<1>8. ASSUME NEW k \in DOMAIN wire'
      PROVE  wire'[k] \notin ActsOnScreen
  <2>1. CASE k \in DOMAIN wire
    <3>1. wire'[k] = wire[k]
      BY <1>6, <1>7, <2>1
    <3> QED
      BY <2>1, <3>1 DEF QuietWire
  <2>2. CASE k \notin DOMAIN wire
    <3>1. k - Len(wire) \in 1 .. Len(bytes) /\ wire'[k] = bytes[k - Len(wire)]
      BY <1>6, <1>7, <1>8, <2>2
    <3>2. wire'[k] \in Quiet
      BY <3>1
    <3> QED
      BY <3>2 DEF Quiet
  <2> QED
    BY <2>1, <2>2
<1> QED
  BY <1>6, <1>8 DEF QuietWire

LEMMA HandlerIsQuiet ==
    ASSUME IInv, QuietWire, irq01_handler
    PROVE  QuietWire' /\ UNCHANGED consoleVars
<1>1. wire \in Seq(1 .. 255) /\ wire # <<>>
  BY DEF IInv, TypeOK, irq01_handler
<1>2. Head(wire) \in Nat /\ Head(wire) \notin ActsOnScreen
  <2>1. 1 \in DOMAIN wire /\ Head(wire) = wire[1] /\ wire[1] \in 1 .. 255
    BY <1>1
  <2> QED
    BY <2>1 DEF QuietWire
<1>3. screen' = screen
  BY <1>2, HandlersAreQuiet DEF irq01_handler, kbHandler
<1>4. lastScancode' = Head(wire) /\ wire' = Tail(wire)
  BY DEF irq01_handler, kbHandler
<1>5. \A k \in DOMAIN Tail(wire) : k + 1 \in DOMAIN wire /\ Tail(wire)[k] = wire[k + 1]
  BY <1>1
<1>6. QuietWire'
  BY <1>2, <1>4, <1>5 DEF QuietWire
<1> QED
  BY <1>3, <1>6 DEF irq01_handler, consoleVars

------------------------------------------------------------------------------

LEMMA TextInductive ==
    ASSUME OneLineTexts, QuietKeys
    PROVE  Spec => [](TextInv /\ QuietWire)
<1> DEFINE all == <<consoleVars, keyboardVars>>
<1>1. Init => TextInv /\ QuietWire
  <2> SUFFICES ASSUME Init PROVE TextInv /\ QuietWire
    OBVIOUS
  <2>1. /\ ~ screen.hung /\ screen.cursor = 0 /\ ~ printing /\ printed = 0
        /\ \A p \in Cells : screen.cells[p] = Blank
    BY ScreenSize DEF Init, ConsoleInit, clearScreen, posFromCoords
  <2>2. Ordered(screen.cells, printed) /\ AtRest(screen)
    BY <2>1, ScreenSize DEF Ordered, AtRest, Before
  <2>3. lastScancode = 0 /\ wire = <<>>
    BY DEF Init
  <2> QED
    BY <2>1, <2>2, <2>3, QuietCodes DEF TextInv, QuietWire
<1>2. IInv /\ TextInv /\ QuietWire /\ [Next]_all => (TextInv /\ QuietWire)'
  <2> SUFFICES ASSUME IInv, TextInv, QuietWire, [Next]_all
               PROVE  TextInv' /\ QuietWire'
    OBVIOUS
  <2>1. UNCHANGED consoleVars => TextInv'
    BY DEF consoleVars, TextInv, Begun, Within, Ending
  <2>2. UNCHANGED keyboardVars => QuietWire'
    BY DEF keyboardVars, QuietWire
  <2>3. CASE UNCHANGED all
    BY <2>1, <2>2, <2>3
  <2>4. ASSUME NEW key \in Keys, Press(key) \/ Release(key)
        PROVE  TextInv' /\ QuietWire'
    BY <2>1, <2>4, KeysAreQuiet DEF Press, Release
  <2>5. CASE irq01_handler
    BY <2>1, <2>5, HandlerIsQuiet
  <2>6. CASE ConsoleNext /\ UNCHANGED keyboardVars
    BY <2>2, <2>6, StringBegins, ControlKeepsText, CharKeepsText, EndKeepsText,
       PrintCharKeepsText
    DEF ConsoleNext
  <2> QED
    BY <2>3, <2>4, <2>5, <2>6 DEF Next
<1> QED
  BY <1>1, <1>2, Inductive, PTL DEF Spec

(* As long as the kernel prints a line at a time and nothing is typed that  *)
(* acts on the screen, the last characters printed are on the screen, all   *)
(* of them and in order, on a screen of any size and however much is        *)
(* printed.  Of kern.c:95, which has a line end inside a text, and of keys  *)
(* that echo or move the cursor this says nothing.                          *)
THEOREM TextStaysInOrder ==
    ASSUME OneLineTexts, QuietKeys
    PROVE  Spec => []TextInOrder
<1>1. IInv /\ TextInv => TextInOrder
  <2> SUFFICES ASSUME IInv, TextInv PROVE TextInOrder
    OBVIOUS
  <2> DEFINE cells == screen.cells
             shown == {p \in Cells : cells[p] # Blank}
  <2>1. cells \in [Cells -> Nat] /\ Cells \subseteq Nat
    BY ConsoleState DEF Cells
  <2>2. Ordered(cells, printed)
    BY DEF TextInv
  <2>3. TextInOrder =
          \A p \in shown :
            /\ \A q \in shown : p < q => cells[p] < cells[q]
            /\ {cells[q] : q \in {q \in shown : q >= p}} = cells[p] .. printed
    BY DEF TextInOrder
  <2> HIDE DEF cells
  <2>4. ASSUME NEW p \in shown
        PROVE  {cells[q] : q \in {q \in shown : q >= p}} = cells[p] .. printed
    <3>1. ASSUME NEW q \in shown, q >= p
          PROVE  cells[q] \in cells[p] .. printed
      <4>1. cells[q] \in Nat /\ cells[p] \in Nat /\ cells[q] <= printed
        BY <2>1, <2>2 DEF Ordered
      <4>2. cells[p] <= cells[q]
        <5>1. CASE q = p
          BY <4>1, <5>1
        <5>2. CASE p < q
          BY <2>2, <4>1, <5>2 DEF Ordered
        <5> QED
          BY <2>1, <3>1, <5>1, <5>2
      <4> QED
        BY <4>1, <4>2, ConsoleState
    <3>2. ASSUME NEW c \in cells[p] .. printed
          PROVE  \E q \in shown : q >= p /\ cells[q] = c
      <4>1. PICK q \in Cells : cells[q] = c
        BY <2>2 DEF Ordered
      <4>2. c # Blank /\ cells[p] <= c
        BY <2>1
      <4>3. ~ (q < p)
        BY <2>1, <2>2, <4>1, <4>2 DEF Ordered
      <4> QED
        BY <2>1, <4>1, <4>2, <4>3
    <3> QED
      BY <3>1, <3>2
  <2>5. \A p, q \in shown : p < q => cells[p] < cells[q]
    BY <2>2 DEF Ordered
  <2> QED
    BY <2>3, <2>4, <2>5
<1> QED
  BY <1>1, Inductive, TextInductive, PTL
===============================================================================
