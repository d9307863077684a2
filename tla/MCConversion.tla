----------------------------- MODULE MCConversion -----------------------------
(***************************************************************************)
(* Conversion: numbers of one to four digits and words of two bytes.       *)
(***************************************************************************)
EXTENDS Conversion

SomeInts == {-1000, -999, -10, -9, -1, 0, 1, 9, 10, 99, 100, 101, 1234}
SomeWords == {0, 1, 15, 16, 4095, 40961, 65535}
SomeDigits == {1, 4, 16}
UpToDebug == {4, NONE}
===============================================================================
