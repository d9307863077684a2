----------------------------- MODULE MCInterrupts -----------------------------
(***************************************************************************)
(* A small instance of Interrupts: the timer and the keyboard, the mouse,  *)
(* and a line of each controller that has no handler.                      *)
(***************************************************************************)
EXTENDS Interrupts

SomeLines == {0, 1, 3, 12, 14}
TimerAndKeyboard == {0, 1}
Described == {0, 1, 4, 8, 12}
NoLogToTrace == {NONE, DEBUG, TRACE}
===============================================================================
