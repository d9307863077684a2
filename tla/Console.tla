------------------------------- MODULE Console -------------------------------
(***************************************************************************)
(* The text console of src/textprint.c: the cells of the screen, the       *)
(* cursor, and the kernel printing strings with printStrC, one character   *)
(* at a time, and characters with printCharC.                              *)
(*                                                                         *)
(* The screen has Width columns and Height rows.  A cell holds Blank or    *)
(* the number of the character that was printed there, counting from 1.    *)
(* Texts is what the kernel prints: in most of its messages line ends come  *)
(* last, in one of kern.c:95 there is one inside.  It prints what fits in   *)
(* the row the cursor is in, line ends by themselves only at the end of a   *)
(* line that is on the screen, and kprintf's single characters only on the  *)
(* screen too (below it printCharC scrolls for each and none is seen).      *)
(* Colours and the port writes that move the blinking cursor are left out. *)
(***************************************************************************)
EXTENDS Integers, Sequences, FiniteSets

CONSTANTS
    Width, Height,
    Texts,          \* what the kernel prints: sequences of Controls and "x"
    MaxPrinted      \* bound: the characters the kernel prints

Controls == {"tab", "nl", "cr"}
TABSIZE == 1        \* the only use of a tab is to skip some columns
Blank == 0
IsChar(c) == c \notin {"nl", "cr"}
Size == Width * Height
Cells == 0 .. Size - 1

ASSUME ConsoleAssumption ==
    /\ Width \in Nat \ {0} /\ Height \in Nat \ {0, 1}
    /\ Texts \subseteq Seq(Controls \cup {"x"})
    /\ MaxPrinted \in Nat

VARIABLES
    screen,         \* [cells, cursor, hung]: VGA memory, cursorPosition, and
                    \* has scrollUp called itself until the stack was full?
    printing,       \* is printStrC running?
    str, index,     \* its arguments and local variables
    printed         \* how many characters the kernel has printed

consoleVars == <<screen, printing, str, index, printed>>

------------------------------------------------------------------------------
(* Functions of textprint.c, from screen to screen *)

posFromCoords(x, y) == y * Width + x

Hang(s) == [s EXCEPT !.hung = TRUE]

MoveUp(cells) == [p \in Cells |-> IF p + Width < Size THEN cells[p + Width] ELSE Blank]

(* scrollUp ends with a call of setCursorPosition, two rows up.  When that  *)
(* is still below the screen, setCursorPosition calls scrollUp again before *)
(* it has changed the cursor, which is why there is no end to it.           *)
scrollUp(s) ==
    LET pos == s.cursor - 2 * Width
    IN  IF pos >= Size
        THEN Hang(s)
        ELSE [s EXCEPT !.cells = MoveUp(@), !.cursor = IF pos < 0 THEN 0 ELSE pos]

(* Mutant: the cursor keeps the row scrollUp gave it *)
setCursorPosition_LineUp(s, pos) ==
    IF pos >= Size THEN scrollUp(s)
                   ELSE [s EXCEPT !.cursor = IF pos < 0 THEN 0 ELSE pos]

(* Mutant: nothing stops the cursor at the top *)
setCursorPosition_Unclamped(s, pos) ==
    IF pos >= Size THEN [scrollUp(s) EXCEPT !.cursor = pos]
                   ELSE [s EXCEPT !.cursor = pos]

(* Mutant: it does not scroll *)
setCursorPosition_NoScroll(s, pos) == [s EXCEPT !.cursor = IF pos < 0 THEN 0 ELSE pos]

(* The cursor moves to pos after the scroll, be pos on the screen or not *)
setCursorPosition(s, pos) ==
    [(IF pos >= Size THEN scrollUp(s) ELSE s) EXCEPT !.cursor = IF pos < 0 THEN 0 ELSE pos]

(* What is stored below the last row is not seen *)
Store(s, pos, c) == IF pos \in Cells THEN [s EXCEPT !.cells[pos] = c] ELSE s

printCharC(s, c) == setCursorPosition(Store(s, s.cursor, c), s.cursor + 1)

(* The inner loop of printStrC: scrolls until its index is on the screen,   *)
(* which it takes from the cursor, where the string began.                  *)
MakeRoom(s) == IF index >= Size THEN scrollUp(s) ELSE s
RoomAt(s) == IF index >= Size THEN scrollUp(s).cursor ELSE index

(* printStrC when nothing interrupts it: the line end the keyboard prints *)
NewLine(s) ==
    LET pos == s.cursor + Width
        start == pos - (pos % Width)
    IN  setCursorPosition([s EXCEPT !.cursor = start], start)

clearScreen == [p \in Cells |-> Blank]

------------------------------------------------------------------------------

ConsoleInit ==
    /\ screen = [cells |-> clearScreen, cursor |-> posFromCoords(0, 0), hung |-> FALSE]
    /\ printing = FALSE /\ str = <<>> /\ index = 0
    /\ printed = 0

printStrC(text) ==
    /\ ~ screen.hung /\ ~ printing
    /\ printing' = TRUE /\ str' = text /\ index' = screen.cursor
    /\ UNCHANGED <<screen, printed>>

printStrC_control ==
    /\ ~ screen.hung /\ printing /\ str # <<>>
    /\ Head(str) \in Controls
    /\ index' = CASE Head(str) = "tab" -> index + TABSIZE
                  [] Head(str) = "nl" -> index + Width
                  [] Head(str) = "cr" -> index - (index % Width)
    /\ str' = Tail(str)
    /\ UNCHANGED <<screen, printing, printed>>

printStrC_char ==
    /\ ~ screen.hung /\ printing /\ str # <<>>
    /\ Head(str) \notin Controls
    /\ printed < MaxPrinted
    /\ printed' = printed + 1
    /\ screen' = Store(MakeRoom(screen), RoomAt(screen), printed')
    /\ index' = RoomAt(screen) + 1
    /\ str' = Tail(str)
    /\ UNCHANGED printing

printStrC_end ==
    /\ ~ screen.hung /\ printing /\ str = <<>>
    /\ screen' = setCursorPosition([screen EXCEPT !.cursor = index], index)
    /\ printing' = FALSE
    /\ UNCHANGED <<str, index, printed>>

printChar ==
    /\ ~ screen.hung /\ ~ printing
    /\ screen.cursor \in Cells
    /\ printed < MaxPrinted
    /\ printed' = printed + 1
    /\ screen' = printCharC(screen, printed')
    /\ UNCHANGED <<printing, str, index>>

(* Does the text fit in what is left of its row, and does it come to the    *)
(* screen before its line ends?                                             *)
Fits(text) ==
    /\ (screen.cursor % Width) + Cardinality({i \in DOMAIN text : IsChar(text[i])}) <= Width
    /\ screen.cursor \in Cells \/ \E i \in DOMAIN text : text[i] = "x"

ConsoleNext ==
    \/ \E text \in Texts : Fits(text) /\ printStrC(text)
    \/ printChar
    \/ printStrC_control
    \/ printStrC_char
    \/ printStrC_end

ConsoleSpec == ConsoleInit /\ [][ConsoleNext]_consoleVars

------------------------------------------------------------------------------
(* Properties *)

(* The cursor, which printCharC stores at without a test, is never before   *)
(* the screen's memory and always within three rows below the screen.       *)
CursorBounded == ~ screen.hung => screen.cursor \in 0 .. Size + 3 * Width - 1

ConsoleTypeOK ==
    /\ screen.cells \in [Cells -> Nat]
    /\ screen.hung \in BOOLEAN
    /\ CursorBounded
    /\ printing \in BOOLEAN
    /\ str \in Seq(Controls \cup {"x"})
    /\ index \in Nat
    /\ printed \in 0 .. MaxPrinted

(* The screen shows the last characters printed, all of them, in the order  *)
(* they were printed in: nothing is lost but at the top, by scrolling.  This *)
(* takes setCursorPosition and the loop of printStrC to agree on the row    *)
(* after one or two scrolls.  It is said of texts that have line ends only  *)
(* at their end, and while no key that is typed acts on the screen: a line  *)
(* end inside a text, as kern.c:95 has one, may scroll what follows it away *)
(* (Keyboard_scroll.cfg), and a key that echoes prints over the text.       *)
TextInOrder ==
    LET shown == {p \in Cells : screen.cells[p] # Blank}
    IN  \A p \in shown :
          /\ \A q \in shown : p < q => screen.cells[p] < screen.cells[q]
          /\ {screen.cells[q] : q \in {q \in shown : q >= p}} = screen.cells[p] .. printed

(* "should be signed to handle scrollUp limits", textprint.c:3: scrolling   *)
(* always comes to an end.  False of the code: Return, Down or two rows of  *)
(* typed characters when the cursor is below the screen make scrollUp and   *)
(* setCursorPosition call each other for ever (Keyboard_return.cfg).        *)
NeverHangs == ~ screen.hung
===============================================================================
