----------------------------- MODULE MCExceptions -----------------------------
(***************************************************************************)
(* Exceptions with a program of five instructions.                         *)
(***************************************************************************)
EXTENDS Exceptions, TLC

Instruction(length, does) == [length |-> length, does |-> does]

(* The store is followed by an instruction that may have a breakpoint *)
Loop ==
    (0 :> Instruction(1, "plain")) @@ (1 :> Instruction(3, "store"))
        @@ (4 :> Instruction(1, "plain")) @@ (5 :> Instruction(3, "movdr"))
        @@ (8 :> Instruction(2, "div"))

TwoSlots == {0, 3}
Exec == {"exec"}
ExecAndStore == {"exec", "store"}
===============================================================================
