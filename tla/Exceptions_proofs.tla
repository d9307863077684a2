-------------------------- MODULE Exceptions_proofs --------------------------
(***************************************************************************)
(* Proofs about Exceptions with breakpoints on instructions, for every     *)
(* program and every set of breakpoints.                                   *)
(***************************************************************************)
EXTENDS Exceptions, TLAPS

(* What Exceptions_stale.cfg shows to be needed: no breakpoint is on data *)
OnInstructions == Kinds = {"exec"}

(* A division is longer than its opcode, and no instruction begins in it *)
LongDivisions == \A a \in Addresses : Does_(a) = "div" => a + 1 \notin Addresses

Set(a) == Matching("exec", a) \cap On

(* RF only lets an instruction run whose breakpoints have been reported.    *)
(* While a handler runs its frame is still that of the instruction that was *)
(* stopped.                                                                 *)
ReportedFirst ==
    /\ handler = "none" /\ rf /\ rip \in Addresses => Set(rip) \subseteq reported
    /\ handler = "exc01" =>
         frame.rip = rip /\ rip \in Addresses /\ Set(rip) \subseteq reported
    /\ handler = "exc00" => frame.rip = rip /\ rip \in Addresses /\ Does_(rip) = "div"

DebugInv ==
    /\ handler \in {"none", "exc00", "exc01"}
    /\ dr \in [Slots -> Registers]
    /\ ReportedFirst

------------------------------------------------------------------------------

(* An instruction that is not stopped has no breakpoint but reported ones. *)
LEMMA NotStopped ==
    ASSUME DebugInv, Runs, ~ Stops
    PROVE  Set(rip) \subseteq reported
BY DEF DebugInv, ReportedFirst, Runs, Stops, Set

(* No breakpoint is on a store. *)
LEMMA NoneOnStores ==
    ASSUME OnInstructions, DebugInv, NEW a
    PROVE  Matching("store", a) = {}
BY DEF OnInstructions, DebugInv, Registers, Matching

(* DebugInv is kept by every step. *)
LEMMA DebugStep ==
    ASSUME OnInstructions, LongDivisions, DebugInv, [Next]_vars
    PROVE  DebugInv'
<1>1. CASE Breakpoint
  <2>1. handler' = "exc01" /\ frame'.rip = rip /\ rip' = rip /\ rip \in Addresses /\ dr' = dr
    BY <1>1 DEF Breakpoint, Raise, Runs
  <2>2. reported' = Set(rip)
    BY <1>1 DEF Breakpoint, Set
  <2>3. Set(rip)' = Set(rip)
    BY <2>1 DEF Set, Matching, On
  <2> QED
    BY <2>1, <2>2, <2>3 DEF DebugInv, ReportedFirst
<1>2. CASE GeneralDetect
  <2>1. /\ handler' = "exc01" /\ frame'.rip = rip /\ rip' = rip /\ rip \in Addresses /\ dr' = dr
        /\ reported' = reported
    BY <1>2 DEF GeneralDetect, Raise, Runs
  <2>2. Set(rip)' = Set(rip) /\ Set(rip) \subseteq reported
    BY <1>2, <2>1, NotStopped DEF GeneralDetect, Set, Matching, On
  <2> QED
    BY <2>1, <2>2 DEF DebugInv, ReportedFirst
<1>3. CASE DivideError
  BY <1>3 DEF DivideError, Raise, Runs, DebugInv, ReportedFirst
<1>4. CASE Completes
  BY <1>4, NoneOnStores DEF Completes, Runs, DebugInv, ReportedFirst
<1>5. CASE exc01_handler
  <2>1. handler' = "none" /\ rip' = rip /\ reported' = reported /\ dr' = dr
    BY <1>5 DEF exc01_handler, iret, DebugInv, ReportedFirst
  <2>2. Set(rip)' = Set(rip) /\ Set(rip) \subseteq reported
    BY <1>5, <2>1 DEF exc01_handler, DebugInv, ReportedFirst, Set, Matching, On
  <2> QED
    BY <2>1, <2>2 DEF DebugInv, ReportedFirst
<1>6. CASE exc00_handler
  <2>1. handler' = "none" /\ rip' = rip + 1 /\ rip' \notin Addresses /\ dr' = dr
    BY <1>6 DEF exc00_handler, iret, DebugInv, ReportedFirst, LongDivisions
  <2> QED
    BY <2>1 DEF DebugInv, ReportedFirst
<1>7. CASE UNCHANGED vars
  BY <1>7 DEF vars, DebugInv, ReportedFirst, Set, Matching, On
<1> QED
  BY <1>1, <1>2, <1>3, <1>4, <1>5, <1>6, <1>7 DEF Next

(* No breakpoint on an instruction is missed, in any program, although the  *)
(* handler never clears DR6 and takes what is left in it for the cause: RF, *)
(* which it sets by that, only ever keeps reported breakpoints from         *)
(* stopping the instruction again.                                          *)
THEOREM NoneIsMissed ==
    ASSUME OnInstructions, LongDivisions
    PROVE  Spec => NoneMissed
<1>1. Init => DebugInv
  BY DEF Init, DebugInv, ReportedFirst
<1>2. DebugInv /\ [Next]_vars => DebugInv'
  BY DebugStep
<1>3. DebugInv /\ [Next]_vars => [Completes => Matching("exec", rip) \cap On \subseteq reported]_vars
  BY NotStopped DEF Completes, Set
<1> QED
  BY <1>1, <1>2, <1>3, PTL DEF Spec, NoneMissed
===============================================================================
