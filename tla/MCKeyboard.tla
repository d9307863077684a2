------------------------------ MODULE MCKeyboard ------------------------------
(***************************************************************************)
(* Keyboard, and the Console it prints on, on small screens.               *)
(***************************************************************************)
EXTENDS Keyboard

(* What the kernel prints: nothing, a whole line, pieces of a line and line *)
(* ends that come last in a string or are all of it, as kern.c:121, and a   *)
(* line end inside, as kern.c:95                                            *)
NoText == {}
Line == {<<"x", "nl", "cr">>}
OneLine ==
    {<<"x">>, <<"x", "x", "nl", "cr">>, <<"tab", "x", "cr", "nl">>, <<"nl", "cr">>}
TwoLines == OneLine \cup {<<"x", "nl", "cr", "x", "nl", "cr">>}

NoKeys == {}

(* Delete, which does nothing on the screen, may come with left shifts of   *)
(* its own                                                                  *)
ShiftsAndDelete == {LSHIFT, RSHIFT, \he053}
RightAndDelete == {RSHIFT, \he053}

(* The keys that write or move the cursor, the line ends among them *)
Moving == {\h1e, \h0e, \he035, \he048, \he04d, \he050}
Jumping == {\h1e, \h1c, \he01c, \he047, \he049, \he04b, \he04f, \he051}
AllMoving == Moving \cup Jumping
Return == {\h1c}
===============================================================================
