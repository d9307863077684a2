------------------------------ MODULE Conversion ------------------------------
(***************************************************************************)
(* The number conversions of src/textprint.c, which all return strOutput,  *)
(* and their caller, which prints what they return while the timer's and   *)
(* the keyboard's handlers may log (src/interrupts.c, src/klog.c).  The    *)
(* log converts a line number: in strOutput too.                           *)
(*                                                                         *)
(* A character is a digit's value, MINUS or NUL.  A conversion is a state  *)
(* [is, value, i]: the value that is left and the index of the loop.       *)
(* double2str, whose digits come from rounded floating-point products, is  *)
(* not modelled.                                                           *)
(***************************************************************************)
EXTENDS Integers, Sequences

CONSTANTS
    Ints,           \* the values int2str is called with
    Words,          \* those hex2str and bin2str are called with, of Bytes bytes
    Bytes,
    Digits,         \* the digits bin2str is asked for
    Levels,         \* the log levels the kernel may have set
    LogLine         \* the line number the handlers log

MINUS == 16
NUL == 17
TRACE == 5
NONE == 6
NegBit == 1         \* what isNeg adds to an index

Positions == 0 .. 127       \* u8 strOutput[128]

(* What is left of n after so many divisions by the base *)
Quotients(n, base) ==
    LET q[k \in Positions] == IF k = 0 THEN n ELSE q[k - 1] \div base
    IN  q

Abs(value) == IF value < 0 THEN - value ELSE value

(* An int is a s64 whose negation is one too (the least one has none and is *)
(* not printed right), so it has up to 19 digits; a word has two            *)
(* hexadecimal digits for each of its bytes.                                *)
ASSUME ConversionAssumption ==
    /\ Ints \subseteq Int
    /\ \A v \in Ints : Quotients(Abs(v), 2)[63] = 0 /\ Quotients(Abs(v), 10)[19] = 0
    /\ Bytes \in {1, 2, 4, 8}
    /\ Words \subseteq Nat
    /\ \A v \in Words : Quotients(v, 16)[2 * Bytes] = 0
    /\ Digits \subseteq 1 .. 64
    /\ Levels \subseteq 0 .. NONE
    /\ LogLine \in Nat

VARIABLES
    strOutput,      \* what is in the buffer, up to the last index stored
    below,          \* has a conversion stored before the buffer's beginning?
    curLvl,
    asked,          \* what is to be printed: [is, value, size]
    left, i,        \* the conversion's value and index
    isNeg, size,    \* int2str's sign and its number of digits but one
    pc,             \* "idle", "int2str", "hex2str", "bin2str", "printStr" or "printed"
    out             \* what printStr has printed

vars == <<strOutput, below, curLvl, asked, left, i, isNeg, size, pc, out>>
loop == <<left, i, isNeg, size>>

------------------------------------------------------------------------------

(* The number of digits after the first *)
MoreDigits(n) ==
    CHOOSE k \in Positions :
        Quotients(n, 10)[k] < 10 /\ \A j \in 0 .. k - 1 : Quotients(n, 10)[j] >= 10

Stored(buffer, index, c) ==
    IF index >= 0 THEN [buffer EXCEPT ![index] = c] ELSE buffer

Init ==
    /\ strOutput = [p \in Positions |-> NUL]
    /\ below = FALSE
    /\ curLvl \in Levels
    /\ asked = [is |-> "nothing", value |-> 0, size |-> 0]
    /\ left = 0 /\ i = 0 /\ isNeg = 0 /\ size = 0
    /\ pc = "idle"
    /\ out = <<>>

Ask(is, value, digits) ==
    /\ pc = "idle"
    /\ asked' = [is |-> is, value |-> value, size |-> digits]
    /\ pc' = is
    /\ out' = <<>>
    /\ UNCHANGED <<below, curLvl>>

int2str(value) ==
    /\ Ask("int2str", value, 0)
    /\ isNeg' = IF value < 0 THEN NegBit ELSE 0
    /\ left' = Abs(value) /\ i' = 0
    /\ size' = MoreDigits(Abs(value))
    /\ strOutput' = IF value < 0 THEN Stored(strOutput, 0, MINUS) ELSE strOutput

(* Mutant: the sign is not counted *)
int2str_digit_NoSign ==
    /\ pc = "int2str" /\ left >= 10
    /\ strOutput' = Stored(strOutput, size - i, left % 10)
    /\ left' = left \div 10 /\ i' = i + 1
    /\ UNCHANGED <<below, curLvl, asked, isNeg, size, pc, out>>

int2str_digit ==
    /\ pc = "int2str" /\ left >= 10
    /\ strOutput' = Stored(strOutput, size + isNeg - i, left % 10)
    /\ left' = left \div 10 /\ i' = i + 1
    /\ UNCHANGED <<below, curLvl, asked, isNeg, size, pc, out>>

Return == pc' = "printStr" /\ i' = 0 /\ UNCHANGED <<below, curLvl, asked, left, isNeg, size, out>>

int2str_last ==
    /\ pc = "int2str" /\ left < 10
    /\ strOutput' = Stored(Stored(strOutput, isNeg, left), size + 1 + isNeg, NUL)
    /\ Return

(* hex2strq, hex2strd, hex2strw and hex2strb differ in Bytes.  The loop     *)
(* goes on after the last byte of the value: to what lies after it, and     *)
(* stores that before the beginning of the buffer.                          *)
hex2str(value) ==
    /\ Ask("hex2str", value, 2 * Bytes - 1)
    /\ left' = value /\ i' = 0 /\ size' = 2 * Bytes - 1
    /\ UNCHANGED <<strOutput, isNeg>>

hex2str_byte ==
    /\ pc = "hex2str" /\ i < size
    /\ \E beyond \in {0, 255} :
         LET byte == IF i < Bytes THEN left % 256 ELSE beyond
         IN  strOutput' = Stored(Stored(strOutput, size - (2 * i + 1), byte \div 16),
                                 size - 2 * i, byte % 16)
    /\ below' = (below \/ size - (2 * i + 1) < 0)
    /\ left' = left \div 256 /\ i' = i + 1
    /\ UNCHANGED <<curLvl, asked, isNeg, size, pc, out>>

hex2str_last ==
    /\ pc = "hex2str" /\ i = size
    /\ strOutput' = Stored(strOutput, size + 1, NUL)
    /\ Return

bin2str(value, digits) ==
    /\ Ask("bin2str", value, digits)
    /\ left' = value /\ i' = digits
    /\ strOutput' = Stored(strOutput, digits, NUL)
    /\ UNCHANGED <<isNeg, size>>

bin2str_digit ==
    /\ pc = "bin2str" /\ i > 0
    /\ strOutput' = Stored(strOutput, i - 1, left % 2)
    /\ left' = left \div 2 /\ i' = i - 1
    /\ UNCHANGED <<below, curLvl, asked, isNeg, size, pc, out>>

bin2str_last == pc = "bin2str" /\ i = 0 /\ UNCHANGED strOutput /\ Return

(* The caller prints the string, character by character *)
printStr ==
    /\ pc = "printStr"
    /\ IF strOutput[i] = NUL
       THEN pc' = "printed" /\ UNCHANGED <<out, i>>
       ELSE out' = Append(out, strOutput[i]) /\ i' = i + 1 /\ UNCHANGED pc
    /\ UNCHANGED <<strOutput, below, curLvl, asked, left, isNeg, size>>

Done == pc = "printed" /\ pc' = "idle" /\ UNCHANGED <<strOutput, below, curLvl, asked, loop, out>>

Logs(lvl) == curLvl # NONE /\ lvl <= curLvl

Decimal(n) ==
    [p \in 1 .. MoreDigits(n) + 1 |-> Quotients(n, 10)[MoreDigits(n) + 1 - p] % 10]

(* klog in a handler, which runs to its end: int2str(line) if it logs *)
irq_klog ==
    /\ pc \notin {"idle", "printed"}
    /\ strOutput' =
         IF ~ Logs(TRACE) THEN strOutput
         ELSE [p \in Positions |->
                 IF p < Len(Decimal(LogLine)) THEN Decimal(LogLine)[p + 1]
                 ELSE IF p = Len(Decimal(LogLine)) THEN NUL ELSE strOutput[p]]
    /\ UNCHANGED <<below, curLvl, asked, loop, pc, out>>

Next ==
    \/ \E v \in Ints : int2str(v)
    \/ int2str_digit
    \/ int2str_last
    \/ \E v \in Words : hex2str(v)
    \/ hex2str_byte
    \/ hex2str_last
    \/ \E v \in Words, n \in Digits : bin2str(v, n)
    \/ bin2str_digit
    \/ bin2str_last
    \/ printStr
    \/ Done
    \/ irq_klog

Spec == Init /\ [][Next]_vars

------------------------------------------------------------------------------
(* Properties *)

(* The value a sequence of digits stands for *)
ValueOf(digits, base) ==
    LET v[n \in 0 .. Len(digits)] == IF n = 0 THEN 0 ELSE v[n - 1] * base + digits[n]
    IN  v[Len(digits)]

Power(base, exponent) ==
    LET p[n \in 0 .. exponent] == IF n = 0 THEN 1 ELSE p[n - 1] * base
    IN  p[exponent]

IsDecimal(s, n) ==
    /\ s # <<>>
    /\ \A p \in DOMAIN s : s[p] \in 0 .. 9
    /\ Len(s) > 1 => s[1] # 0
    /\ ValueOf(s, 10) = n

(* What is printed is the number that was converted, although the buffer is *)
(* the handlers' too: below the level TRACE they keep their hands off it.   *)
PrintedRight ==
    pc = "printed" =>
        CASE asked.is = "int2str" /\ asked.value >= 0 -> IsDecimal(out, asked.value)
          [] asked.is = "int2str" /\ asked.value < 0 ->
                out # <<>> /\ Head(out) = MINUS /\ IsDecimal(Tail(out), - asked.value)
          [] asked.is = "hex2str" ->
                Len(out) = 2 * Bytes /\ ValueOf(out, 16) = asked.value
          [] asked.is = "bin2str" ->
                Len(out) = asked.size /\ ValueOf(out, 2) = asked.value % Power(2, asked.size)

(* "extern u8 strOutput[128]", textprint.h:27: the conversions store in it. *)
StoresInBuffer == ~ below
===============================================================================
