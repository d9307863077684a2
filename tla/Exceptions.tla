------------------------------ MODULE Exceptions ------------------------------
(***************************************************************************)
(* The exceptions that return to the program they stopped: exc00_handler   *)
(* and exc01_handler of src/interrupts.c, with dr_get and check_flags_impl *)
(* of src/debug_regs.c.                                                    *)
(*                                                                         *)
(* The CPU runs a program over and over.  A fault comes before its         *)
(* instruction, which runs again when the handler returns; a trap comes    *)
(* after it.  The resume flag RF of the frame keeps the breakpoint of the  *)
(* next instruction, once, from faulting again.  DR6 tells what happened;  *)
(* the CPU sets bits of it and clears none.  dr_get reads DR6 and DR7      *)
(* under their old names, which are the same registers, when CR4.DE is     *)
(* clear.                                                                  *)
(***************************************************************************)
EXTENDS Naturals, FiniteSets

CONSTANTS
    Program,        \* from the addresses of instructions to [length, does]
    Slots,          \* the breakpoints, 0 to 3
    Kinds           \* what breakpoints are set on: "exec", "store"

Addresses == DOMAIN Program
Does == {"plain", "store", "movdr", "div"}     \* "div" may divide by zero
Registers == [on : BOOLEAN, kind : Kinds, at : Addresses]
BD == 13            \* the bit of DR6 for an access to a debug register

ASSUME ProgramAssumption ==
    /\ Slots \subseteq 0 .. 3
    /\ Kinds \subseteq {"exec", "store"}
    /\ Addresses \subseteq Nat /\ 0 \in Addresses
    /\ Program \in [Addresses -> [length : Nat \ {0}, does : Does]]

VARIABLES
    rip, rf,        \* of the CPU
    handler,        \* the vector whose handler runs, "none" for none
    frame,          \* what the CPU pushed: rip, rf, and whether it was a fault
    dr, dr6, gd,    \* breakpoints (DR0 to DR3 and DR7), DR6, DR7's GD
    reported,       \* breakpoints reported for the instruction at rip
    rflags          \* the flags that are set, as bit numbers

vars == <<rip, rf, handler, frame, dr, dr6, gd, reported, rflags>>

Does_(a) == Program[a].does

(* The program begins again after its last instruction *)
After(a) == IF a + Program[a].length \in Addresses THEN a + Program[a].length ELSE 0

Matching(kind, a) == {s \in Slots : dr[s].kind = kind /\ dr[s].at = a}
On == {s \in Slots : dr[s].on}

------------------------------------------------------------------------------
(* The CPU *)

Init ==
    /\ rip = 0 /\ rf = FALSE
    /\ handler = "none"
    /\ frame = [rip |-> 0, rf |-> FALSE, fault |-> FALSE]
    /\ dr \in [Slots -> Registers]
    /\ dr6 = {}
    /\ gd \in BOOLEAN
    /\ reported = {}
    /\ rflags \in SUBSET {0, 6, 9}

Raise(vector, where, flag, isFault) ==
    /\ handler' = vector
    /\ frame' = [rip |-> where, rf |-> flag, fault |-> isFault]

Runs == handler = "none" /\ rip \in Addresses
Stops == ~ rf /\ Matching("exec", rip) \cap On # {}

(* Those that are off may or may not be recorded *)
Records(kind, a) ==
    \E off \in SUBSET (Matching(kind, a) \ On) :
        dr6' = dr6 \cup (Matching(kind, a) \cap On) \cup off

Breakpoint ==
    /\ Runs /\ Stops
    /\ Records("exec", rip)
    /\ Raise("exc01", rip, FALSE, TRUE)
    /\ reported' = Matching("exec", rip) \cap On
    /\ UNCHANGED <<rip, rf, dr, gd, rflags>>

GeneralDetect ==
    /\ Runs /\ ~ Stops /\ Does_(rip) = "movdr" /\ gd
    /\ dr6' = dr6 \cup {BD}
    /\ gd' = FALSE
    /\ Raise("exc01", rip, FALSE, TRUE)
    /\ UNCHANGED <<rip, rf, dr, reported, rflags>>

DivideError ==
    /\ Runs /\ ~ Stops /\ Does_(rip) = "div"
    /\ Raise("exc00", rip, TRUE, TRUE)
    /\ UNCHANGED <<rip, rf, dr, dr6, gd, reported, rflags>>

Completes ==
    /\ Runs /\ ~ Stops
    /\ ~ (Does_(rip) = "movdr" /\ gd)
    /\ rip' = After(rip)
    /\ rf' = FALSE
    /\ reported' = {}
    /\ IF Does_(rip) = "store" /\ Matching("store", rip) \cap On # {}
       THEN /\ Records("store", rip)
            /\ Raise("exc01", rip', FALSE, FALSE)
       ELSE UNCHANGED <<handler, frame, dr6>>
    /\ UNCHANGED <<dr, gd, rflags>>

------------------------------------------------------------------------------
(* The handlers *)

iret(where, flag) ==
    /\ rip' = where /\ rf' = flag
    /\ handler' = "none"
    /\ UNCHANGED <<frame, dr, dr6, gd, reported, rflags>>

(* Mutant: the last breakpoint is not looked at *)
isFault_FirstThree ==
    \/ BD \in dr6
    \/ \E s \in Slots \cap dr6 : s < 3 /\ dr[s].on /\ dr[s].kind = "exec"

isFault ==
    \/ BD \in dr6
    \/ \E s \in Slots \cap dr6 : dr[s].on /\ dr[s].kind = "exec"

(* Mutant: it steps over the opcode, as exc00_handler does *)
exc01_handler_Steps == handler = "exc01" /\ iret(frame.rip + 1, frame.rf \/ isFault)

exc01_handler == handler = "exc01" /\ iret(frame.rip, frame.rf \/ isFault)

exc00_handler == handler = "exc00" /\ iret(frame.rip + 1, frame.rf)

------------------------------------------------------------------------------

Next ==
    \/ Breakpoint
    \/ GeneralDetect
    \/ DivideError
    \/ Completes
    \/ exc01_handler
    \/ exc00_handler

(* The CPU does not stop *)
Spec == Init /\ [][Next]_vars /\ WF_vars(Next)

------------------------------------------------------------------------------
(* Flags *)

(* The flags check_flags_impl tests and the bit of the mask it takes for    *)
(* each; those it takes for 17, 18 and 20 are not theirs.                   *)
MaskBit(flag) ==
    CASE flag = 14 -> 13 [] flag = 17 -> 14 [] flag = 18 -> 15 [] flag = 20 -> 21
      [] OTHER -> flag

Tested == {0, 2, 4, 6, 7, 8, 9, 10, 11, 14, 17, 18, 20}

(* Each flag is a field one bit wide, and of what the mask holds of it      *)
(* shifted to its place, `&` keeps bit 0.                                   *)
check_flags_impl(flags, mask) ==
    \E flag \in Tested : flag \in flags /\ MaskBit(flag) \in mask /\ MaskBit(flag) = 0

------------------------------------------------------------------------------
(* Properties *)

(* "sets ResumeFlag to avoid reentrance", interrupts.c:54: the program gets *)
(* past every instruction, however many breakpoints stop at it.             *)
Progress == \A a \in Addresses : rip = a ~> rip # a

(* No breakpoint is missed: when an instruction runs, those that are set on *)
(* it have been reported.  "fault if (Bn = 1 and (Gn or Ln = 1) and R/Wn =  *)
(* 0) or (BD = 1)", interrupts.c:41, decides what RF is set for.            *)
NoneMissed ==
    [][Completes => Matching("exec", rip) \cap On \subseteq reported]_vars

(* "DIV or IDIV opcode size is 1", interrupts.c:30: after the handler the   *)
(* CPU goes on with an instruction.                                         *)
AtInstruction == handler = "none" => rip \in Addresses

(* "Function to check if any flags are set based on a mask",                *)
(* debug_regs.c:224, for masks of one flag.                                 *)
FlagsFound ==
    \A flag \in Tested \ {14, 17, 18, 20} :
        check_flags_impl(rflags, {flag}) <=> flag \in rflags
===============================================================================
