--------------------------- MODULE Conversion_proofs ---------------------------
(***************************************************************************)
(* Proofs about Conversion: what is printed is the number that was         *)
(* converted, for every number and every word, as long as no handler logs. *)
(***************************************************************************)
EXTENDS Conversion, SequenceTheorems, WellFoundedInduction, TLAPS

USE DEF Positions, MINUS, NUL, TRACE, NONE, NegBit

Bases == {2, 10, 16}

------------------------------------------------------------------------------
(* What the recursive functions are: each exists because the least index up *)
(* to which it does not exist would be one after an index up to which it    *)
(* does.                                                                    *)

(* A set of naturals has a least element *)
LEMMA Least ==
    ASSUME NEW S, S \subseteq Nat, S # {}
    PROVE  \E n \in S : \A k \in Nat : k < n => k \notin S
<1>1. PICK n \in S : \A k \in S : ~ (<<k, n>> \in OpToRel(<, Nat))
  BY NatLessThanWellFounded, WFMin
<1>2. \A k \in S : ~ (k < n)
  BY <1>1 DEF OpToRel
<1> QED
  BY <1>2

Divides(q, n, base, top) ==
    q = [k \in 0 .. top |-> IF k = 0 THEN n ELSE q[k - 1] \div base]

LEMMA SomeDivides ==
    ASSUME NEW n, NEW base, NEW top \in Nat
    PROVE  \E q : Divides(q, n, base, top)
<1> DEFINE S == {k \in Nat : ~ \E q : Divides(q, n, base, k)}
<1>1. SUFFICES ASSUME S # {} PROVE FALSE
  OBVIOUS
<1>2. PICK k \in S : \A j \in Nat : j < k => j \notin S
  BY <1>1, Least
<1>3. CASE k = 0
  <2> DEFINE q == [j \in 0 .. 0 |-> n]
  <2>1. q = [j \in 0 .. 0 |-> IF j = 0 THEN n ELSE q[j - 1] \div base]
    OBVIOUS
  <2>2. Divides(q, n, base, 0)
    BY <2>1 DEF Divides
  <2> QED
    BY <1>3, <2>2
<1>4. CASE k # 0
  <2>1. k - 1 \in Nat /\ k - 1 < k
    BY <1>4
  <2>2. PICK q : Divides(q, n, base, k - 1)
    BY <1>2, <2>1
  <2> DEFINE r == [j \in 0 .. k |-> IF j = k THEN q[k - 1] \div base ELSE q[j]]
  <2>3. \A j \in 0 .. k - 1 : q[j] = IF j = 0 THEN n ELSE q[j - 1] \div base
    BY <2>2 DEF Divides
  <2>4. \A j \in 0 .. k : r[j] = IF j = 0 THEN n ELSE r[j - 1] \div base
    BY <2>1, <2>3
  <2>5. r = [j \in 0 .. k |-> IF j = 0 THEN n ELSE r[j - 1] \div base]
    BY <2>4
  <2>6. Divides(r, n, base, k)
    BY <2>5 DEF Divides
  <2> QED
    BY <2>6
<1> QED
  BY <1>3, <1>4

LEMMA QuotientsAre ==
    ASSUME NEW n \in Nat, NEW base \in Bases
    PROVE  /\ Quotients(n, base)[0] = n
           /\ \A k \in 1 .. 127 : Quotients(n, base)[k] = Quotients(n, base)[k - 1] \div base
           /\ \A k \in 0 .. 127 : Quotients(n, base)[k] \in Nat
<1> DEFINE q == Quotients(n, base)
<1>1. \E f : Divides(f, n, base, 127)
  BY SomeDivides
<1>2. q = CHOOSE f : f = [k \in 0 .. 127 |-> IF k = 0 THEN n ELSE f[k - 1] \div base]
  BY DEF Quotients
<1>3. q = [k \in 0 .. 127 |-> IF k = 0 THEN n ELSE q[k - 1] \div base]
  BY <1>1, <1>2 DEF Divides
<1> HIDE DEF q
<1>4. \A k \in 0 .. 127 : q[k] = IF k = 0 THEN n ELSE q[k - 1] \div base
  BY <1>3
<1>5. q[0] = n /\ \A k \in 1 .. 127 : q[k] = q[k - 1] \div base
  BY <1>4
<1>6. \A k \in 0 .. 127 : q[k] \in Nat
  <2> DEFINE S == {k \in 0 .. 127 : q[k] \notin Nat}
  <2>0. S \subseteq Nat
    OBVIOUS
  <2>1. SUFFICES ASSUME S # {} PROVE FALSE
    OBVIOUS
  <2> HIDE DEF S
  <2>2. PICK k \in S : \A j \in Nat : j < k => j \notin S
    BY <2>0, <2>1, Least
  <2> USE DEF S
  <2>3. k # 0 /\ k \in 1 .. 127
    BY <1>5, <2>2
  <2>4. q[k - 1] \in Nat
    BY <2>2, <2>3
  <2>5. base = 2 \/ base = 10 \/ base = 16
    BY DEF Bases
  <2>6. q[k - 1] \div base \in Nat
    BY <2>4, <2>5
  <2> QED
    BY <1>5, <2>2, <2>3, <2>6
<1> QED
  BY <1>5, <1>6 DEF q

Sums(v, digits, base, top) ==
    v = [k \in 0 .. top |-> IF k = 0 THEN 0 ELSE v[k - 1] * base + digits[k]]

LEMMA SomeSums ==
    ASSUME NEW digits, NEW base, NEW top \in Nat
    PROVE  \E v : Sums(v, digits, base, top)
<1> DEFINE S == {k \in Nat : ~ \E v : Sums(v, digits, base, k)}
<1>1. SUFFICES ASSUME S # {} PROVE FALSE
  OBVIOUS
<1>2. PICK k \in S : \A j \in Nat : j < k => j \notin S
  BY <1>1, Least
<1>3. CASE k = 0
  <2> DEFINE v == [j \in 0 .. 0 |-> 0]
  <2>1. v = [j \in 0 .. 0 |-> IF j = 0 THEN 0 ELSE v[j - 1] * base + digits[j]]
    OBVIOUS
  <2>2. Sums(v, digits, base, 0)
    BY <2>1 DEF Sums
  <2> QED
    BY <1>3, <2>2
<1>4. CASE k # 0
  <2>1. k - 1 \in Nat /\ k - 1 < k
    BY <1>4
  <2>2. PICK v : Sums(v, digits, base, k - 1)
    BY <1>2, <2>1
  <2> DEFINE r == [j \in 0 .. k |-> IF j = k THEN v[k - 1] * base + digits[k] ELSE v[j]]
  <2>3. \A j \in 0 .. k - 1 : v[j] = IF j = 0 THEN 0 ELSE v[j - 1] * base + digits[j]
    BY <2>2 DEF Sums
  <2>4. \A j \in 0 .. k : r[j] = IF j = 0 THEN 0 ELSE r[j - 1] * base + digits[j]
    BY <2>1, <2>3
  <2>5. r = [j \in 0 .. k |-> IF j = 0 THEN 0 ELSE r[j - 1] * base + digits[j]]
    BY <2>4
  <2>6. Sums(r, digits, base, k)
    BY <2>5 DEF Sums
  <2> QED
    BY <2>6
<1> QED
  BY <1>3, <1>4

Powers(p, base, top) == p = [k \in 0 .. top |-> IF k = 0 THEN 1 ELSE p[k - 1] * base]

LEMMA SomePowers ==
    ASSUME NEW base, NEW top \in Nat
    PROVE  \E p : Powers(p, base, top)
<1> DEFINE S == {k \in Nat : ~ \E p : Powers(p, base, k)}
<1>1. SUFFICES ASSUME S # {} PROVE FALSE
  OBVIOUS
<1>2. PICK k \in S : \A j \in Nat : j < k => j \notin S
  BY <1>1, Least
<1>3. CASE k = 0
  <2> DEFINE p == [j \in 0 .. 0 |-> 1]
  <2>1. p = [j \in 0 .. 0 |-> IF j = 0 THEN 1 ELSE p[j - 1] * base]
    OBVIOUS
  <2>2. Powers(p, base, 0)
    BY <2>1 DEF Powers
  <2> QED
    BY <1>3, <2>2
<1>4. CASE k # 0
  <2>1. k - 1 \in Nat /\ k - 1 < k
    BY <1>4
  <2>2. PICK p : Powers(p, base, k - 1)
    BY <1>2, <2>1
  <2> DEFINE r == [j \in 0 .. k |-> IF j = k THEN p[k - 1] * base ELSE p[j]]
  <2>3. \A j \in 0 .. k - 1 : p[j] = IF j = 0 THEN 1 ELSE p[j - 1] * base
    BY <2>2 DEF Powers
  <2>4. \A j \in 0 .. k : r[j] = IF j = 0 THEN 1 ELSE r[j - 1] * base
    BY <2>1, <2>3
  <2>5. r = [j \in 0 .. k |-> IF j = 0 THEN 1 ELSE r[j - 1] * base]
    BY <2>4
  <2>6. Powers(r, base, k)
    BY <2>5 DEF Powers
  <2> QED
    BY <2>6
<1> QED
  BY <1>3, <1>4

------------------------------------------------------------------------------
(* Numbers and their digits *)

(* A quotient and a remainder are the only ones *)
LEMMA RemainderIs ==
    ASSUME NEW a \in Nat, NEW b \in Nat \ {0}, NEW q \in Nat, NEW r \in Nat,
           a = q * b + r, r < b
    PROVE  a % b = r
<1> DEFINE k == a \div b
<1>1. k \in Nat /\ a % b \in 0 .. b - 1 /\ a = b * k + (a % b)
  OBVIOUS
<1> HIDE DEF k
<1>2. ~ (k < q)
  <2>1. SUFFICES ASSUME k < q PROVE FALSE
    OBVIOUS
  <2>2. q - k - 1 \in Nat /\ q = k + 1 + (q - k - 1)
    BY <1>1, <2>1
  <2>3. (q - k - 1) * b \in Nat
    BY <2>2
  <2>4. q * b = k * b + b + (q - k - 1) * b
    BY <1>1, <2>2
  <2>5. b * k = k * b
    BY <1>1
  <2> QED
    BY <1>1, <2>3, <2>4, <2>5
<1>3. ~ (q < k)
  <2>1. SUFFICES ASSUME q < k PROVE FALSE
    OBVIOUS
  <2>2. k - q - 1 \in Nat /\ k = q + 1 + (k - q - 1)
    BY <1>1, <2>1
  <2>3. (k - q - 1) * b \in Nat
    BY <2>2
  <2>4. k * b = q * b + b + (k - q - 1) * b
    BY <1>1, <2>2
  <2>5. b * k = k * b
    BY <1>1
  <2> QED
    BY <1>1, <2>3, <2>4, <2>5
<1>4. k = q /\ b * k = q * b
  BY <1>1, <1>2, <1>3
<1> QED
  BY <1>1, <1>4

(* The digits of n, from the last on, are the remainders of its quotients *)
AreDigits(digits, n, base, count) ==
    /\ digits \in Seq(Nat) /\ Len(digits) = count
    /\ \A k \in 1 .. count : digits[k] = Quotients(n, base)[count - k] % base

(* so they stand for n, but for what is left of it after as many divisions *)
LEMMA DigitsValue ==
    ASSUME NEW n \in Nat, NEW base \in Bases, NEW count \in 1 .. 64, NEW digits,
           AreDigits(digits, n, base, count)
    PROVE  /\ n = Quotients(n, base)[count] * Power(base, count) + ValueOf(digits, base)
           /\ Power(base, count) \in Nat \ {0} /\ ValueOf(digits, base) \in Nat
           /\ ValueOf(digits, base) < Power(base, count)
<1> DEFINE q == Quotients(n, base)
           rest == q[count]
<1>1. /\ q[0] = n /\ \A k \in 1 .. 127 : q[k] = q[k - 1] \div base
      /\ \A k \in 0 .. 127 : q[k] \in Nat
  BY QuotientsAre
<1>2. \A k \in 1 .. count : digits[k] = q[count - k] % base
  BY DEF AreDigits
<1> DEFINE v == CHOOSE f : f = [k \in 0 .. count |->
                                  IF k = 0 THEN 0 ELSE f[k - 1] * base + digits[k]]
           p == CHOOSE f : f = [k \in 0 .. count |-> IF k = 0 THEN 1 ELSE f[k - 1] * base]
<1>3. ValueOf(digits, base) = v[count]
  BY DEF ValueOf, AreDigits
<1>4. Power(base, count) = p[count]
  BY DEF Power
<1>5. \A k \in 0 .. count : v[k] = IF k = 0 THEN 0 ELSE v[k - 1] * base + digits[k]
  <2>1. \E f : Sums(f, digits, base, count)
    BY SomeSums
  <2>2. v = [k \in 0 .. count |-> IF k = 0 THEN 0 ELSE v[k - 1] * base + digits[k]]
    BY <2>1 DEF Sums
  <2> HIDE DEF v
  <2> QED
    BY <2>2
<1>6. \A k \in 0 .. count : p[k] = IF k = 0 THEN 1 ELSE p[k - 1] * base
  <2>1. \E f : Powers(f, base, count)
    BY SomePowers
  <2>2. p = [k \in 0 .. count |-> IF k = 0 THEN 1 ELSE p[k - 1] * base]
    BY <2>1 DEF Powers
  <2> HIDE DEF p
  <2> QED
    BY <2>2
<1> HIDE DEF q, v, p
<1> DEFINE Good(k) == /\ v[k] \in Nat /\ p[k] \in Nat \ {0} /\ v[k] < p[k]
                      /\ q[count - k] = rest * p[k] + v[k]
           S == {k \in 0 .. count : ~ Good(k)}
<1>7. S = {}
  <2>0. S \subseteq Nat
    OBVIOUS
  <2>1. SUFFICES ASSUME S # {} PROVE FALSE
    OBVIOUS
  <2> HIDE DEF S
  <2>2. PICK k \in S : \A j \in Nat : j < k => j \notin S
    BY <2>0, <2>1, Least
  <2> USE DEF S
  <2>3. rest \in Nat /\ k \in 0 .. count
    BY <1>1
  <2>4. CASE k = 0
    <3>1. v[0] = 0 /\ p[0] = 1 /\ count - 0 = count
      BY <1>5, <1>6
    <3>2. rest * 1 + 0 = rest
      BY <2>3
    <3>3. Good(0)
      BY <3>1, <3>2
    <3> QED
      BY <2>4, <3>3
  <2>5. CASE k # 0
    <3>1. k - 1 \in 0 .. count /\ k - 1 < k /\ k \in 1 .. count
      BY <2>3, <2>5
    <3>2. Good(k - 1)
      BY <2>2, <3>1
    <3> DEFINE a == v[k - 1]
               b == p[k - 1]
               c == q[count - k]
               d == digits[k]
    <3>3. /\ v[k] = a * base + d /\ p[k] = b * base
          /\ a \in Nat /\ b \in Nat \ {0} /\ a < b
      BY <1>5, <1>6, <3>1, <3>2
    <3>4. count - k \in 0 .. 127 /\ count - (k - 1) = (count - k) + 1
          /\ (count - k) + 1 \in 1 .. 127
      BY <3>1
    <3>5. c \in Nat /\ d = c % base /\ q[count - (k - 1)] = c \div base
      BY <1>1, <1>2, <3>1, <3>4
    <3>6. c \div base = rest * b + a
      BY <3>2, <3>5
    <3> HIDE DEF a, b, c, d, rest
    <3>7. base = 2 \/ base = 10 \/ base = 16
      BY DEF Bases
    <3>8. c = (c \div base) * base + d /\ d \in 0 .. base - 1
      BY <3>5, <3>7
    <3>9. v[k] \in Nat /\ p[k] \in Nat \ {0} /\ v[k] < p[k]
      BY <3>3, <3>7, <3>8
    <3>10. c = rest * p[k] + v[k]
      <4>1. rest * b \in Nat
        BY <2>3, <3>3
      <4>2. (rest * b + a) * base = (rest * b) * base + a * base
        BY <3>3, <3>7, <4>1
      <4>3. (rest * b) * base = rest * (b * base)
        BY <2>3, <3>3, <3>7
      <4>4. c = (rest * b) * base + a * base + d
        BY <3>6, <3>8, <4>2
      <4> DEFINE x == rest * (b * base)
                 y == a * base
      <4>5. x \in Nat /\ y \in Nat /\ d \in Nat
        BY <2>3, <3>3, <3>7, <3>8
      <4>6. c = x + y + d
        BY <4>3, <4>4
      <4>7. rest * p[k] = x /\ v[k] = y + d
        BY <3>3
      <4> HIDE DEF x, y
      <4>8. c = x + (y + d)
        BY <4>5, <4>6
      <4> QED
        BY <4>7, <4>8
    <3>11. Good(k)
      BY <3>9, <3>10 DEF c
    <3> QED
      BY <3>11
  <2> QED
    BY <2>4, <2>5
<1>8. Good(count)
  BY <1>7
<1>9. count - count = 0
  OBVIOUS
<1> QED
  BY <1>1, <1>3, <1>4, <1>8, <1>9 DEF q

(* The digits of int2str and hex2str are all there are, and no zero leads *)
LEMMA FirstDigit ==
    ASSUME NEW n \in Nat, Quotients(n, 10)[19] = 0
    PROVE  LET q == Quotients(n, 10) IN
           /\ MoreDigits(n) \in 0 .. 19
           /\ q[MoreDigits(n)] < 10
           /\ \A j \in 0 .. MoreDigits(n) - 1 : q[j] >= 10
<1> DEFINE q == Quotients(n, 10)
           S == {k \in Nat : k <= 19 /\ q[k] < 10}
<1> HIDE DEF q
<1>1. 19 \in S
  BY DEF q
<1>2. PICK k \in S : \A j \in Nat : j < k => j \notin S
  <2>1. S \subseteq Nat /\ S # {}
    BY <1>1
  <2> HIDE DEF S
  <2> QED
    BY <2>1, Least
<1>3. \A j \in 0 .. 127 : q[j] \in Nat
  BY QuotientsAre DEF q, Bases
<1>4. k \in 0 .. 19 /\ q[k] < 10 /\ \A j \in 0 .. k - 1 : q[j] >= 10
  BY <1>2, <1>3
<1>5. \E m \in 0 .. 127 : q[m] < 10 /\ \A j \in 0 .. m - 1 : q[j] >= 10
  BY <1>4
<1>6. MoreDigits(n) = CHOOSE m \in 0 .. 127 : q[m] < 10 /\ \A j \in 0 .. m - 1 : q[j] >= 10
  BY DEF MoreDigits, q
<1> DEFINE m == MoreDigits(n)
<1> HIDE DEF m
<1>7. m \in 0 .. 127 /\ q[m] < 10 /\ \A j \in 0 .. m - 1 : q[j] >= 10
  BY <1>5, <1>6 DEF m
<1>8. m <= k
  <2>1. ~ (k \in 0 .. m - 1)
    BY <1>3, <1>4, <1>7
  <2> QED
    BY <1>4, <1>7, <2>1
<1> QED
  BY <1>4, <1>7, <1>8 DEF m, q

------------------------------------------------------------------------------
(* The invariant: the digits stored so far are the last ones of the number  *)
(* that was asked for, and what the conversion has left is what they leave  *)
(* of it.                                                                   *)

Negative == IF asked.value < 0 THEN 1 ELSE 0
Base == IF asked.is = "int2str" THEN 10 ELSE IF asked.is = "hex2str" THEN 16 ELSE 2
Count == IF asked.is = "int2str" THEN MoreDigits(Abs(asked.value)) + 1
         ELSE IF asked.is = "hex2str" THEN 2 * Bytes ELSE asked.size
Left(k) == Quotients(Abs(asked.value), Base)[k]

Asked ==
    /\ asked.is = "int2str" => asked.value \in Ints
    /\ asked.is # "int2str" => asked.value \in Words
    /\ asked.is \notin {"int2str", "hex2str"} => asked.size \in Digits

HasLast(buffer, k) ==
    /\ \A j \in 0 .. k - 1 : buffer[Negative + Count - 1 - j] = Left(j) % Base
    /\ asked.value < 0 => buffer[0] = MINUS

LastDigits(k) == HasLast(strOutput, k)

InInt ==
    /\ asked.is = "int2str"
    /\ size = Count - 1 /\ isNeg = Negative
    /\ i \in 0 .. size /\ left = Left(i) /\ LastDigits(i)

InHex ==
    /\ asked.is = "hex2str"
    /\ size = 2 * Bytes - 1
    /\ i \in 0 .. size /\ left \in Nat
    /\ IF i <= Bytes THEN left = Left(2 * i) /\ LastDigits(2 * i)
                     ELSE LastDigits(2 * Bytes)

InBin ==
    /\ asked.is = "bin2str"
    /\ i \in 0 .. Count /\ left = Left(Count - i) /\ LastDigits(Count - i)
    /\ strOutput[Count] = NUL

InPrint ==
    /\ LastDigits(Count) /\ strOutput[Negative + Count] = NUL
    /\ i \in 0 .. Negative + Count
    /\ out = [k \in 1 .. i |-> strOutput[k - 1]]

CInv ==
    /\ strOutput \in [Positions -> Nat]
    /\ curLvl \in Levels
    /\ pc \in {"idle", "int2str", "hex2str", "bin2str", "printStr", "printed"}
    /\ pc # "idle" => Asked /\ asked.is \in {"int2str", "hex2str", "bin2str"}
    /\ pc \in {"int2str", "hex2str", "bin2str"} => out = <<>>
    /\ pc = "int2str" => InInt
    /\ pc = "hex2str" => InHex
    /\ pc = "bin2str" => InBin
    /\ pc \in {"printStr", "printed"} => InPrint
    /\ pc = "printed" => i = Negative + Count

------------------------------------------------------------------------------
(* The steps *)

Known == Asked /\ asked.is \in {"int2str", "hex2str", "bin2str"}

(* What was asked for has a number of digits, the first of which is not zero *)
(* in a decimal number of more than one.                                     *)
LEMMA AskedFor ==
    ASSUME Known
    PROVE  /\ Abs(asked.value) \in Nat /\ Base \in Bases
           /\ Count \in 1 .. 64 /\ Negative \in {0, 1} /\ 0 \in 0 .. Negative + Count
           /\ asked.value \in Int /\ (asked.value < 0 <=> Negative = 1)
           /\ asked.is # "int2str" => Negative = 0
           /\ Left(0) = Abs(asked.value)
           /\ \A k \in 1 .. 127 : Left(k) = Left(k - 1) \div Base
           /\ \A k \in 0 .. 127 : Left(k) \in Nat /\ Left(k) % Base \in 0 .. Base - 1
           /\ asked.is = "int2str" =>
                Left(Count - 1) < 10 /\ \A j \in 0 .. Count - 2 : Left(j) >= 10
<1>0. /\ Ints \subseteq Int /\ Words \subseteq Nat /\ Digits \subseteq 1 .. 64
      /\ Bytes \in {1, 2, 4, 8}
  BY ConversionAssumption
<1>1. Abs(asked.value) \in Nat /\ asked.value \in Int
  <2>1. asked.value \in Int
    <3>1. asked.value \in Ints \/ asked.value \in Words
      BY DEF Known, Asked
    <3>2. \A n \in Nat : n \in Int
      OBVIOUS
    <3> HIDE DEF Known
    <3> QED
      BY <1>0, <3>1, <3>2, Zenon
  <2> QED
    BY <2>1 DEF Abs
<1>2. Base \in Bases
  BY DEF Base, Bases
<1>3. Negative \in {0, 1} /\ (asked.value < 0 <=> Negative = 1)
  BY DEF Negative
<1>4. asked.is # "int2str" => Negative = 0
  <2>1. asked.is # "int2str" => asked.value \in Nat
    BY <1>0 DEF Known, Asked
  <2> QED
    BY <2>1 DEF Negative
<1>5. /\ Left(0) = Abs(asked.value)
      /\ \A k \in 1 .. 127 : Left(k) = Left(k - 1) \div Base
      /\ \A k \in 0 .. 127 : Left(k) \in Nat
  BY <1>1, <1>2, QuotientsAre DEF Left
<1>6. \A k \in 0 .. 127 : Left(k) % Base \in 0 .. Base - 1
  <2>1. Base = 2 \/ Base = 10 \/ Base = 16
    BY <1>2 DEF Bases
  <2> SUFFICES ASSUME NEW k \in 0 .. 127 PROVE Left(k) % Base \in 0 .. Base - 1
    OBVIOUS
  <2>2. Left(k) \in Nat
    BY <1>5
  <2>3. \A n \in Nat : n % 2 \in 0 .. 1 /\ n % 10 \in 0 .. 9 /\ n % 16 \in 0 .. 15
    OBVIOUS
  <2>4. CASE Base = 2
    BY <2>2, <2>3, <2>4
  <2>5. CASE Base = 10
    BY <2>2, <2>3, <2>5
  <2>6. CASE Base = 16
    BY <2>2, <2>3, <2>6
  <2> QED
    BY <2>1, <2>4, <2>5, <2>6
<1>7. CASE asked.is = "int2str"
  <2>1. Quotients(Abs(asked.value), 10)[19] = 0
    BY <1>7, ConversionAssumption DEF Known, Asked
  <2>2. /\ MoreDigits(Abs(asked.value)) \in 0 .. 19
        /\ Quotients(Abs(asked.value), 10)[MoreDigits(Abs(asked.value))] < 10
        /\ \A j \in 0 .. MoreDigits(Abs(asked.value)) - 1 :
              Quotients(Abs(asked.value), 10)[j] >= 10
    BY <1>1, <2>1, FirstDigit
  <2>3. Count = MoreDigits(Abs(asked.value)) + 1 /\ Base = 10
    BY <1>7 DEF Count, Base
  <2>4. /\ Count \in 1 .. 64
        /\ Count - 1 = MoreDigits(Abs(asked.value))
        /\ Count - 2 = MoreDigits(Abs(asked.value)) - 1
    BY <2>2, <2>3
  <2>5. Left(Count - 1) < 10 /\ \A j \in 0 .. Count - 2 : Left(j) >= 10
    BY <2>2, <2>3, <2>4 DEF Left
  <2> QED
    BY <1>1, <1>2, <1>3, <1>4, <1>5, <1>6, <2>4, <2>5
<1>8. CASE asked.is # "int2str"
  <2>1. Count \in 1 .. 64
    <3>1. CASE asked.is = "hex2str"
      <4>1. Count = 2 * Bytes
        BY <3>1 DEF Count
      <4> QED
        BY <1>0, <4>1
    <3>2. CASE asked.is # "hex2str"
      <4>1. Count = asked.size /\ asked.size \in Digits
        BY <1>8, <3>2 DEF Count, Known, Asked
      <4> QED
        BY <1>0, <4>1
    <3> QED
      BY <3>1, <3>2
  <2> QED
    BY <1>1, <1>2, <1>3, <1>4, <1>5, <1>6, <1>8, <2>1
<1> QED
  BY <1>7, <1>8

LEMMA SameAsked ==
    ASSUME asked' = asked
    PROVE  /\ Negative' = Negative /\ Base' = Base /\ Count' = Count
           /\ Known' = Known
           /\ \A k : Left(k)' = Left(k)
           /\ \A k : LastDigits(k)' = HasLast(strOutput', k)
  BY DEF Negative, Base, Count, Known, Asked, Left, LastDigits, HasLast

(* The next digit from the right is stored *)
LEMMA DigitStored ==
    ASSUME Known, NEW buffer \in [Positions -> Nat], NEW k \in 0 .. Count - 1,
           HasLast(buffer, k), NEW p, p = Negative + Count - 1 - k,
           NEW c, c = Left(k) % Base
    PROVE  /\ p \in Positions /\ c \in Nat
           /\ [buffer EXCEPT ![p] = c] \in [Positions -> Nat]
           /\ HasLast([buffer EXCEPT ![p] = c], k + 1)
           /\ p # Negative + Count
<1> DEFINE new == [buffer EXCEPT ![p] = c]
<1>1. /\ Count \in 1 .. 64 /\ Negative \in {0, 1}
      /\ asked.value < 0 => Negative = 1
      /\ Left(k) % Base \in Nat
  <2>1. k \in 0 .. 127 /\ Base - 1 \in Nat
    BY AskedFor DEF Bases
  <2> QED
    BY <2>1, AskedFor
<1>2. p \in Positions /\ c \in Nat /\ p # Negative + Count /\ (Negative = 1 => p # 0)
  BY <1>1
<1>3. new \in [Positions -> Nat] /\ new[p] = c /\ \A q \in Positions : q # p => new[q] = buffer[q]
  BY <1>2
<1> HIDE DEF new
<1>4. ASSUME NEW j \in 0 .. k
      PROVE  new[Negative + Count - 1 - j] = Left(j) % Base
  <2>1. CASE j = k
    BY <1>3, <2>1
  <2>2. CASE j # k
    <3>1. /\ Negative + Count - 1 - j \in Positions /\ Negative + Count - 1 - j # p
          /\ j \in 0 .. k - 1
      BY <1>1, <2>2
    <3> QED
      BY <1>3, <3>1 DEF HasLast
  <2> QED
    BY <2>1, <2>2
<1>5. asked.value < 0 => new[0] = MINUS
  <2>1. asked.value < 0 => 0 # p /\ buffer[0] = MINUS
    BY <1>1, <1>2 DEF HasLast
  <2> QED
    BY <1>3, <2>1
<1>6. (k + 1) - 1 = k
  OBVIOUS
<1>7. HasLast(new, k + 1)
  BY <1>4, <1>5, <1>6 DEF HasLast
<1> QED
  BY <1>2, <1>3, <1>7 DEF new

(* The end of the string is *)
LEMMA EndStored ==
    ASSUME Known, NEW buffer \in [Positions -> Nat], HasLast(buffer, Count)
    PROVE  LET new == [buffer EXCEPT ![Negative + Count] = NUL] IN
           /\ new \in [Positions -> Nat] /\ HasLast(new, Count)
           /\ new[Negative + Count] = NUL
<1> DEFINE new == [buffer EXCEPT ![Negative + Count] = NUL]
<1>1. Count \in 1 .. 64 /\ Negative \in {0, 1}
  BY AskedFor
<1>2. Negative + Count \in Positions /\ Negative + Count # 0
  BY <1>1
<1>3. /\ new \in [Positions -> Nat] /\ new[Negative + Count] = NUL
      /\ \A q \in Positions : q # Negative + Count => new[q] = buffer[q]
  BY <1>2
<1> HIDE DEF new
<1>4. ASSUME NEW j \in 0 .. Count - 1
      PROVE  new[Negative + Count - 1 - j] = Left(j) % Base
  <2>1. Negative + Count - 1 - j \in Positions /\ Negative + Count - 1 - j # Negative + Count
    BY <1>1
  <2> QED
    BY <1>3, <2>1 DEF HasLast
<1>5. asked.value < 0 => new[0] = MINUS
  BY <1>2, <1>3 DEF HasLast
<1>6. HasLast(new, Count)
  BY <1>4, <1>5 DEF HasLast
<1> QED
  BY <1>3, <1>6 DEF new

(* printStr begins at the first character of the string *)
LEMMA BeginPrint ==
    ASSUME CInv, Known, asked' = asked, pc' = "printStr", i' = 0,
           curLvl' = curLvl, out = <<>>, out' = out,
           strOutput' \in [Positions -> Nat], HasLast(strOutput', Count),
           strOutput'[Negative + Count] = NUL
    PROVE  CInv'
<1>1. <<>> = [k \in 1 .. 0 |-> strOutput'[k - 1]]
  OBVIOUS
<1>2. LastDigits(Count)' /\ Count' = Count /\ Negative' = Negative /\ Known'
  BY SameAsked
<1>3. i' \in 0 .. Negative' + Count'
  <2>1. 0 \in 0 .. Negative + Count
    BY AskedFor
  <2>2. i' = 0
    OBVIOUS
  <2> QED
    BY <1>2, <2>1, <2>2, Zenon
<1>4. InPrint'
  <2>1. out' = [k \in 1 .. i' |-> strOutput'[k - 1]]
    BY <1>1
  <2> QED
    BY <1>2, <1>3, <2>1 DEF InPrint
<1> QED
  BY <1>2, <1>4 DEF CInv, Known

LEMMA BeginInt ==
    ASSUME CInv, NEW v \in Ints, int2str(v)
    PROVE  CInv'
<1>1. /\ pc' = "int2str" /\ out' = <<>> /\ curLvl' = curLvl
      /\ asked' = [is |-> "int2str", value |-> v, size |-> 0]
      /\ isNeg' = IF v < 0 THEN 1 ELSE 0
      /\ left' = Abs(v) /\ i' = 0 /\ size' = MoreDigits(Abs(v))
      /\ strOutput' = IF v < 0 THEN Stored(strOutput, 0, MINUS) ELSE strOutput
  BY DEF int2str, Ask
<1>2. /\ asked'.is = "int2str" /\ asked'.value = v
      /\ Known'
  BY <1>1 DEF Known, Asked
<1>3. Abs(v) \in Nat /\ Quotients(Abs(v), 10)[19] = 0 /\ v \in Int
  BY ConversionAssumption DEF Abs
<1>4. MoreDigits(Abs(v)) \in 0 .. 19
  BY <1>3, FirstDigit
<1>5. Count' = MoreDigits(Abs(v)) + 1 /\ Negative' = isNeg' /\ Base' = 10
  BY <1>1, <1>2 DEF Count, Negative, Base
<1>6. Left(0)' = Abs(v)
  <2>1. Quotients(Abs(v), 10)[0] = Abs(v)
    BY <1>3, QuotientsAre DEF Bases
  <2> QED
    BY <1>2, <1>5, <2>1 DEF Left
<1>7. strOutput' \in [Positions -> Nat] /\ (v < 0 => strOutput'[0] = MINUS)
  <2>1. strOutput \in [Positions -> Nat] /\ 0 \in Positions /\ MINUS \in Nat
    BY DEF CInv
  <2>2. v < 0 => strOutput' = [strOutput EXCEPT ![0] = MINUS]
    BY <1>1 DEF Stored
  <2> QED
    BY <1>1, <2>1, <2>2
<1>8. LastDigits(0)'
  BY <1>2, <1>7 DEF LastDigits, HasLast
<1>9. InInt'
  BY <1>1, <1>2, <1>4, <1>5, <1>6, <1>8 DEF InInt
<1> QED
  BY <1>1, <1>2, <1>7, <1>9 DEF CInv, Known

LEMMA BeginHex ==
    ASSUME CInv, NEW v \in Words, hex2str(v)
    PROVE  CInv'
<1>1. /\ pc' = "hex2str" /\ out' = <<>> /\ curLvl' = curLvl
      /\ asked' = [is |-> "hex2str", value |-> v, size |-> 2 * Bytes - 1]
      /\ left' = v /\ i' = 0 /\ size' = 2 * Bytes - 1
      /\ strOutput' = strOutput
  BY DEF hex2str, Ask
<1>2. asked'.is = "hex2str" /\ asked'.value = v /\ Known'
  BY <1>1 DEF Known, Asked
<1>3. v \in Nat /\ Bytes \in {1, 2, 4, 8}
  BY ConversionAssumption
<1>4. ~ (v < 0) /\ Abs(v) = v
  BY <1>3 DEF Abs
<1>5. Base' = 16
  BY <1>2 DEF Base
<1>6. Left(0)' = v
  <2>1. Quotients(v, 16)[0] = v
    BY <1>3, QuotientsAre DEF Bases
  <2> QED
    BY <1>2, <1>4, <1>5, <2>1 DEF Left
<1>7. LastDigits(0)'
  BY <1>2, <1>4 DEF LastDigits, HasLast
<1>8. InHex'
  BY <1>1, <1>2, <1>3, <1>6, <1>7 DEF InHex
<1> QED
  BY <1>1, <1>2, <1>8 DEF CInv, Known

LEMMA BeginBin ==
    ASSUME CInv, NEW v \in Words, NEW n \in Digits, bin2str(v, n)
    PROVE  CInv'
<1>1. /\ pc' = "bin2str" /\ out' = <<>> /\ curLvl' = curLvl
      /\ asked' = [is |-> "bin2str", value |-> v, size |-> n]
      /\ left' = v /\ i' = n
      /\ strOutput' = Stored(strOutput, n, NUL)
  BY DEF bin2str, Ask
<1>2. asked'.is = "bin2str" /\ asked'.value = v /\ asked'.size = n /\ Known'
  BY <1>1 DEF Known, Asked
<1>3. v \in Nat /\ n \in 1 .. 64
  BY ConversionAssumption
<1>4. ~ (v < 0) /\ Abs(v) = v /\ n - n = 0
  BY <1>3 DEF Abs
<1>5. Base' = 2 /\ Count' = n
  BY <1>2 DEF Base, Count
<1>6. Left(0)' = v
  <2>1. Quotients(v, 2)[0] = v
    BY <1>3, QuotientsAre DEF Bases
  <2> QED
    BY <1>2, <1>4, <1>5, <2>1 DEF Left
<1>7. LastDigits(0)'
  BY <1>2, <1>4 DEF LastDigits, HasLast
<1>8. strOutput' \in [Positions -> Nat] /\ strOutput'[n] = NUL
  <2>1. strOutput \in [Positions -> Nat] /\ n \in Positions /\ NUL \in Nat
    BY <1>3 DEF CInv
  <2>2. strOutput' = [strOutput EXCEPT ![n] = NUL]
    BY <1>1, <1>3 DEF Stored
  <2> QED
    BY <2>1, <2>2
<1>9. InBin'
  BY <1>1, <1>2, <1>3, <1>4, <1>5, <1>6, <1>7, <1>8 DEF InBin
<1> QED
  BY <1>1, <1>2, <1>8, <1>9 DEF CInv, Known

LEMMA IntDigit ==
    ASSUME CInv, int2str_digit
    PROVE  CInv'
<1>1. /\ pc = "int2str" /\ pc' = pc /\ left >= 10
      /\ strOutput' = Stored(strOutput, size + isNeg - i, left % 10)
      /\ left' = left \div 10 /\ i' = i + 1
      /\ UNCHANGED <<curLvl, asked, isNeg, size, out>>
  BY DEF int2str_digit
<1>2. Known /\ InInt /\ strOutput \in [Positions -> Nat]
  BY <1>1 DEF CInv, Known
<1>3. /\ asked.is = "int2str" /\ Base = 10 /\ size = Count - 1 /\ isNeg = Negative
      /\ i \in 0 .. size /\ left = Left(i) /\ HasLast(strOutput, i)
  BY <1>2 DEF InInt, Base, LastDigits
<1>4. /\ Count \in 1 .. 64 /\ Left(Count - 1) < 10 /\ Negative \in {0, 1}
      /\ \A k \in 1 .. 127 : Left(k) = Left(k - 1) \div Base
      /\ \A k \in 0 .. 127 : Left(k) \in Nat
  BY <1>2, <1>3, AskedFor
<1>5. i # size /\ i + 1 \in 0 .. size /\ i \in 0 .. Count - 1
  BY <1>1, <1>3, <1>4
<1>6. Left(i + 1) = left \div 10
  <2>1. i + 1 \in 1 .. 127 /\ (i + 1) - 1 = i
    BY <1>3, <1>4
  <2> QED
    BY <1>3, <1>4, <2>1
<1> DEFINE p == Negative + Count - 1 - i
<1>7. p = size + isNeg - i /\ p >= 0
  BY <1>3, <1>4
<1>8. strOutput' = [strOutput EXCEPT ![p] = Left(i) % Base]
  BY <1>1, <1>3, <1>7 DEF Stored
<1> HIDE DEF p
<1>9. strOutput' \in [Positions -> Nat] /\ HasLast(strOutput', i + 1)
  BY <1>2, <1>3, <1>5, <1>8, DigitStored DEF p
<1>10. InInt'
  BY <1>1, <1>3, <1>5, <1>6, <1>9, SameAsked DEF InInt
<1> QED
  BY <1>1, <1>2, <1>9, <1>10, SameAsked DEF CInv, Known

LEMMA IntLast ==
    ASSUME CInv, int2str_last
    PROVE  CInv'
<1>1. /\ pc = "int2str" /\ pc' = "printStr" /\ left < 10 /\ i' = 0
      /\ strOutput' = Stored(Stored(strOutput, isNeg, left), size + 1 + isNeg, NUL)
      /\ UNCHANGED <<curLvl, asked, out>>
  BY DEF int2str_last, Return
<1>2. Known /\ InInt /\ strOutput \in [Positions -> Nat] /\ out = <<>>
  BY <1>1 DEF CInv, Known
<1>3. /\ asked.is = "int2str" /\ Base = 10 /\ size = Count - 1 /\ isNeg = Negative
      /\ i \in 0 .. size /\ left = Left(i) /\ HasLast(strOutput, i)
  BY <1>2 DEF InInt, Base, LastDigits
<1>4. /\ Count \in 1 .. 64 /\ Negative \in {0, 1}
      /\ \A j \in 0 .. Count - 2 : Left(j) >= 10
      /\ \A k \in 0 .. 127 : Left(k) \in Nat
  BY <1>2, <1>3, AskedFor
<1>5. i = size /\ i \in 0 .. Count - 1 /\ i + 1 = Count
  <2>1. i # size => i \in 0 .. Count - 2
    BY <1>3, <1>4
  <2>2. left \in Nat
    BY <1>3, <1>4
  <2> QED
    BY <1>1, <1>3, <1>4, <2>1, <2>2
<1>6. /\ Left(i) % Base = left /\ Negative + Count - 1 - i = isNeg
      /\ isNeg >= 0 /\ size + 1 + isNeg = Negative + Count /\ size + 1 + isNeg >= 0
  <2>1. left \in 0 .. 9
    BY <1>1, <1>3, <1>4
  <2> QED
    BY <1>3, <1>4, <1>5, <2>1
<1> DEFINE b == [strOutput EXCEPT ![isNeg] = left]
<1>7. strOutput' = [b EXCEPT ![Negative + Count] = NUL]
  BY <1>1, <1>6 DEF Stored
<1> HIDE DEF b
<1>8. b \in [Positions -> Nat] /\ HasLast(b, Count)
  <2>1. isNeg = Negative + Count - 1 - i /\ left = Left(i) % Base
    BY <1>6
  <2>2. b \in [Positions -> Nat] /\ HasLast(b, i + 1)
    BY <1>2, <1>3, <1>5, <2>1, DigitStored DEF b
  <2> QED
    BY <1>5, <2>2
<1>9. /\ strOutput' \in [Positions -> Nat] /\ HasLast(strOutput', Count)
      /\ strOutput'[Negative + Count] = NUL
  BY <1>2, <1>7, <1>8, EndStored
<1> QED
  BY <1>1, <1>2, <1>9, BeginPrint

(* The two hexadecimal digits of a byte *)
LEMMA ByteDigits ==
    ASSUME NEW a \in Nat
    PROVE  /\ (a % 256) \div 16 = (a \div 16) % 16
           /\ (a % 256) % 16 = a % 16
           /\ a \div 256 = (a \div 16) \div 16
OBVIOUS

LEMMA TwoDigitsStored ==
    ASSUME Known, NEW buffer \in [Positions -> Nat], NEW k \in 0 .. Count - 2,
           HasLast(buffer, k), NEW p, p = Negative + Count - 1 - k, NEW q, q = p - 1,
           NEW c, c = Left(k) % Base, NEW d, d = Left(k + 1) % Base
    PROVE  /\ p \in Positions /\ q \in Positions
           /\ [[buffer EXCEPT ![q] = d] EXCEPT ![p] = c] \in [Positions -> Nat]
           /\ HasLast([[buffer EXCEPT ![q] = d] EXCEPT ![p] = c], k + 2)
<1> DEFINE b == [buffer EXCEPT ![p] = c]
<1>1. k \in 0 .. Count - 1 /\ k + 1 \in 0 .. Count - 1 /\ (k + 1) + 1 = k + 2
  BY AskedFor
<1>2. p \in Positions /\ b \in [Positions -> Nat] /\ HasLast(b, k + 1)
  BY <1>1, DigitStored
<1> HIDE DEF b
<1>3. q = Negative + Count - 1 - (k + 1)
  BY <1>1, AskedFor
<1>4. /\ q \in Positions /\ [b EXCEPT ![q] = d] \in [Positions -> Nat]
      /\ HasLast([b EXCEPT ![q] = d], (k + 1) + 1)
  BY <1>1, <1>2, <1>3, DigitStored
<1>5. [b EXCEPT ![q] = d] = [[buffer EXCEPT ![q] = d] EXCEPT ![p] = c]
  <2>1. q # p
    BY <1>2
  <2>2. \A x \in Positions :
          [b EXCEPT ![q] = d][x] = [[buffer EXCEPT ![q] = d] EXCEPT ![p] = c][x]
    BY <1>2, <1>4, <2>1 DEF b
  <2>3. /\ [b EXCEPT ![q] = d] = [x \in Positions |-> [b EXCEPT ![q] = d][x]]
        /\ [[buffer EXCEPT ![q] = d] EXCEPT ![p] = c]
              = [x \in Positions |-> [[buffer EXCEPT ![q] = d] EXCEPT ![p] = c][x]]
    BY DEF b
  <2> QED
    BY <2>2, <2>3
<1> QED
  BY <1>1, <1>2, <1>4, <1>5

LEMMA ByteStored ==
    ASSUME Known, asked.is = "hex2str", NEW buffer \in [Positions -> Nat],
           NEW n \in 0 .. Bytes - 1, HasLast(buffer, 2 * n), NEW a, a = Left(2 * n)
    PROVE  LET new == Stored(Stored(buffer, 2 * Bytes - 1 - (2 * n + 1), (a % 256) \div 16),
                             2 * Bytes - 1 - 2 * n, (a % 256) % 16)
           IN  /\ new \in [Positions -> Nat] /\ HasLast(new, 2 * (n + 1))
               /\ Left(2 * (n + 1)) = a \div 256
<1> DEFINE p == 2 * Bytes - 1 - 2 * n
           q == 2 * Bytes - 1 - (2 * n + 1)
           c == (a % 256) % 16
           d == (a % 256) \div 16
<1>1. Bytes \in 1 .. 8
  BY ConversionAssumption
<1>2. Base = 16 /\ Count = 2 * Bytes /\ Negative = 0
  BY AskedFor DEF Base, Count
<1>3. /\ 2 * n \in 0 .. Count - 2 /\ 2 * n + 2 = 2 * (n + 1)
      /\ 2 * n + 1 \in 1 .. 127 /\ (2 * n + 1) - 1 = 2 * n /\ 2 * n \in 0 .. 127
      /\ 2 * n + 2 \in 1 .. 127 /\ (2 * n + 2) - 1 = 2 * n + 1
  BY <1>1, <1>2
<1>4. /\ p = Negative + Count - 1 - 2 * n /\ p >= 0
      /\ q = p - 1 /\ q >= 0
  BY <1>1, <1>2
<1>5. /\ a \in Nat /\ Left(2 * n + 1) = a \div 16
      /\ Left(2 * n + 2) = (a \div 16) \div 16
  <2>1. /\ \A k \in 1 .. 127 : Left(k) = Left(k - 1) \div Base
        /\ \A k \in 0 .. 127 : Left(k) \in Nat
    BY AskedFor
  <2>2. a \in Nat
    BY <1>3, <2>1
  <2>3. Left(2 * n + 1) = Left((2 * n + 1) - 1) \div Base
    BY <1>3, <2>1
  <2>4. Left(2 * n + 2) = Left((2 * n + 2) - 1) \div Base
    BY <1>3, <2>1
  <2> QED
    BY <1>2, <1>3, <2>2, <2>3, <2>4
<1>6. /\ c = Left(2 * n) % Base /\ d = Left(2 * n + 1) % Base
      /\ Left(2 * n + 2) = a \div 256
  BY <1>2, <1>5, ByteDigits
<1> HIDE DEF p, q, c, d
<1>7. /\ [[buffer EXCEPT ![q] = d] EXCEPT ![p] = c] \in [Positions -> Nat]
      /\ HasLast([[buffer EXCEPT ![q] = d] EXCEPT ![p] = c], 2 * n + 2)
  BY <1>3, <1>4, <1>6, TwoDigitsStored
<1>8. Stored(Stored(buffer, q, d), p, c) = [[buffer EXCEPT ![q] = d] EXCEPT ![p] = c]
  BY <1>4 DEF Stored
<1> QED
  BY <1>3, <1>6, <1>7, <1>8 DEF p, q, c, d

LEMMA HexByte ==
    ASSUME CInv, hex2str_byte
    PROVE  CInv'
<1>1. PICK beyond \in {0, 255} :
        /\ pc = "hex2str" /\ pc' = pc /\ i < size
        /\ strOutput' = LET byte == IF i < Bytes THEN left % 256 ELSE beyond
                        IN  Stored(Stored(strOutput, size - (2 * i + 1), byte \div 16),
                                   size - 2 * i, byte % 16)
        /\ left' = left \div 256 /\ i' = i + 1
        /\ UNCHANGED <<curLvl, asked, isNeg, size, out>>
  BY DEF hex2str_byte
<1>2. Known /\ InHex /\ strOutput \in [Positions -> Nat]
  BY <1>1 DEF CInv, Known
<1>3. /\ asked.is = "hex2str" /\ Base = 16 /\ Count = 2 * Bytes /\ size = 2 * Bytes - 1
      /\ i \in 0 .. size /\ left \in Nat
      /\ i <= Bytes => left = Left(2 * i) /\ HasLast(strOutput, 2 * i)
      /\ i > Bytes => HasLast(strOutput, 2 * Bytes)
  <2>1. /\ asked.is = "hex2str" /\ size = 2 * Bytes - 1 /\ i \in 0 .. size /\ left \in Nat
        /\ i <= Bytes => left = Left(2 * i) /\ HasLast(strOutput, 2 * i)
        /\ ~ (i <= Bytes) => HasLast(strOutput, 2 * Bytes)
    BY <1>2 DEF InHex, LastDigits
  <2>2. Bytes \in {1, 2, 4, 8}
    BY ConversionAssumption
  <2>3. i > Bytes => ~ (i <= Bytes)
    BY <2>1, <2>2
  <2> QED
    BY <2>1, <2>3 DEF Base, Count
<1>4. /\ Negative = 0 /\ Bytes \in 1 .. 8
      /\ \A k \in 1 .. 127 : Left(k) = Left(k - 1) \div Base
      /\ \A k \in 0 .. 127 : Left(k) \in Nat
  <2>1. Bytes \in 1 .. 8
    BY ConversionAssumption
  <2> QED
    BY <1>2, <1>3, <2>1, AskedFor
<1>5. i + 1 \in 0 .. size /\ left \div 256 \in Nat
  BY <1>1, <1>3, <1>4
<1>6. CASE i < Bytes
  <2>1. left = Left(2 * i) /\ HasLast(strOutput, 2 * i) /\ i \in 0 .. Bytes - 1
    BY <1>3, <1>4, <1>6
  <2>2. strOutput' = Stored(Stored(strOutput, 2 * Bytes - 1 - (2 * i + 1), (left % 256) \div 16),
                            2 * Bytes - 1 - 2 * i, (left % 256) % 16)
    BY <1>1, <1>3, <1>6
  <2>3. /\ strOutput' \in [Positions -> Nat] /\ HasLast(strOutput', 2 * (i + 1))
        /\ Left(2 * (i + 1)) = left \div 256
    BY <1>2, <1>3, <2>1, <2>2, ByteStored
  <2>4. InHex'
    <3>1. left' = Left(2 * i)' /\ LastDigits(2 * i)'
      BY <1>1, <2>3, SameAsked
    <3>2. i' <= Bytes /\ i' = i + 1
      BY <1>1, <1>3, <1>4, <1>6
    <3> QED
      BY <1>1, <1>3, <1>5, <3>1, <3>2 DEF InHex
  <2> QED
    BY <1>1, <1>2, <2>3, <2>4, SameAsked DEF CInv, Known
<1>7. CASE ~ (i < Bytes)
  <2>1. ~ (size - (2 * i + 1) >= 0) /\ ~ (size - 2 * i >= 0)
    BY <1>3, <1>4, <1>7
  <2>2. strOutput' = strOutput
    BY <1>1, <2>1 DEF Stored
  <2>3. HasLast(strOutput, 2 * Bytes)
    BY <1>3, <1>4, <1>7
  <2>4. InHex'
    <3>1. LastDigits(2 * Bytes)'
      BY <1>1, <2>2, <2>3, SameAsked
    <3>2. ~ (i' <= Bytes)
      BY <1>1, <1>3, <1>4, <1>7
    <3> QED
      BY <1>1, <1>3, <1>5, <3>1, <3>2 DEF InHex
  <2> QED
    BY <1>1, <1>2, <2>2, <2>4, SameAsked DEF CInv, Known
<1> QED
  BY <1>6, <1>7

LEMMA HexLast ==
    ASSUME CInv, hex2str_last
    PROVE  CInv'
<1>1. /\ pc = "hex2str" /\ i = size /\ pc' = "printStr" /\ i' = 0
      /\ strOutput' = Stored(strOutput, size + 1, NUL)
      /\ UNCHANGED <<curLvl, asked, out>>
  BY DEF hex2str_last, Return
<1>2. Known /\ InHex /\ strOutput \in [Positions -> Nat] /\ out = <<>>
  BY <1>1 DEF CInv, Known
<1>3. Bytes \in 1 .. 8
  BY ConversionAssumption
<1>4. /\ asked.is = "hex2str" /\ Count = 2 * Bytes /\ size = 2 * Bytes - 1
      /\ IF i <= Bytes THEN HasLast(strOutput, 2 * i) ELSE HasLast(strOutput, 2 * Bytes)
  BY <1>2 DEF InHex, Count, LastDigits
<1>5. HasLast(strOutput, Count)
  <2>1. CASE i <= Bytes
    <3>1. i = Bytes
      BY <1>1, <1>3, <1>4, <2>1
    <3> QED
      BY <1>4, <2>1, <3>1
  <2>2. CASE ~ (i <= Bytes)
    BY <1>4, <2>2
  <2> QED
    BY <2>1, <2>2
<1>6. strOutput' = [strOutput EXCEPT ![Negative + Count] = NUL]
  <2>1. Negative = 0
    BY <1>2, <1>4, AskedFor
  <2>2. size + 1 = Negative + Count /\ size + 1 >= 0
    BY <1>3, <1>4, <2>1
  <2> QED
    BY <1>1, <2>2 DEF Stored
<1>7. /\ strOutput' \in [Positions -> Nat] /\ HasLast(strOutput', Count)
      /\ strOutput'[Negative + Count] = NUL
  BY <1>2, <1>5, <1>6, EndStored
<1> QED
  BY <1>1, <1>2, <1>7, BeginPrint

LEMMA BinDigit ==
    ASSUME CInv, bin2str_digit
    PROVE  CInv'
<1>1. /\ pc = "bin2str" /\ pc' = pc /\ i > 0
      /\ strOutput' = Stored(strOutput, i - 1, left % 2)
      /\ left' = left \div 2 /\ i' = i - 1
      /\ UNCHANGED <<curLvl, asked, isNeg, size, out>>
  BY DEF bin2str_digit
<1>2. Known /\ InBin /\ strOutput \in [Positions -> Nat]
  BY <1>1 DEF CInv, Known
<1> DEFINE k == Count - i
<1>3. /\ asked.is = "bin2str" /\ Base = 2
      /\ i \in 0 .. Count /\ left = Left(k) /\ HasLast(strOutput, k)
      /\ strOutput[Count] = NUL
  BY <1>2 DEF InBin, Base, LastDigits
<1>4. /\ Negative = 0 /\ Count \in 1 .. 64
      /\ \A j \in 1 .. 127 : Left(j) = Left(j - 1) \div Base
  BY <1>2, <1>3, AskedFor
<1>5. /\ i - 1 \in 0 .. Count /\ i - 1 >= 0 /\ i - 1 = Negative + Count - 1 - k
      /\ k \in 0 .. Count - 1 /\ k + 1 = Count - (i - 1) /\ k + 1 \in 1 .. 127
      /\ (k + 1) - 1 = k
  BY <1>1, <1>3, <1>4
<1> HIDE DEF k
<1>6. Left(k + 1) = left \div 2
  BY <1>3, <1>4, <1>5
<1> DEFINE p == Negative + Count - 1 - k
           c == Left(k) % Base
<1>7. strOutput' = [strOutput EXCEPT ![p] = c]
  BY <1>1, <1>3, <1>5 DEF Stored
<1> HIDE DEF p, c
<1>8. /\ p \in Positions /\ strOutput' \in [Positions -> Nat]
      /\ HasLast(strOutput', k + 1) /\ p # Negative + Count
  BY <1>2, <1>3, <1>5, <1>7, DigitStored DEF p, c
<1>9. strOutput'[Count] = NUL
  <2>1. Count \in Positions /\ p # Count
    BY <1>4, <1>8
  <2> QED
    BY <1>2, <1>3, <1>7, <1>8, <2>1
<1>10. InBin'
  <2>1. i' \in 0 .. Count /\ k + 1 = Count - i'
    BY <1>1, <1>5
  <2>2. left' = Left(Count - i') /\ HasLast(strOutput', Count - i')
    BY <1>1, <1>6, <1>8, <2>1
  <2>3. Count' = Count /\ left' = Left(Count - i)' /\ LastDigits(Count - i)'
    BY <1>1, <2>2, SameAsked
  <2> QED
    BY <1>1, <1>3, <1>9, <2>1, <2>3 DEF InBin
<1> QED
  BY <1>1, <1>2, <1>8, <1>10, SameAsked DEF CInv, Known

LEMMA BinLast ==
    ASSUME CInv, bin2str_last
    PROVE  CInv'
<1>1. /\ pc = "bin2str" /\ i = 0 /\ pc' = "printStr" /\ i' = 0
      /\ strOutput' = strOutput
      /\ UNCHANGED <<curLvl, asked, out>>
  BY DEF bin2str_last, Return
<1>2. Known /\ InBin /\ strOutput \in [Positions -> Nat] /\ out = <<>>
  BY <1>1 DEF CInv, Known
<1>3. asked.is = "bin2str" /\ HasLast(strOutput, Count - i) /\ strOutput[Count] = NUL
  BY <1>2 DEF InBin, LastDigits
<1>4. Negative = 0 /\ Count \in 1 .. 64
  BY <1>2, <1>3, AskedFor
<1>5. Count - i = Count /\ Negative + Count = Count
  BY <1>1, <1>4
<1> QED
  BY <1>1, <1>2, <1>3, <1>5, BeginPrint

(* A character that is printed comes after those that were *)
LEMMA OneMore ==
    ASSUME NEW buffer \in [Positions -> Nat], NEW n \in Positions
    PROVE  Append([k \in 1 .. n |-> buffer[k - 1]], buffer[n])
              = [k \in 1 .. n + 1 |-> buffer[k - 1]]
<1> DEFINE s == [k \in 1 .. n |-> buffer[k - 1]]
<1>1. \A k \in 1 .. n : buffer[k - 1] \in Nat
  <2>1. \A k \in 1 .. n : k - 1 \in Positions
    OBVIOUS
  <2> QED
    BY <2>1
<1>2. s \in Seq(Nat) /\ Len(s) = n
  BY <1>1
<1>3. \A k \in 1 .. n : s[k] = buffer[k - 1]
  OBVIOUS
<1>4. buffer[n] \in Nat /\ (n + 1) - 1 = n
  OBVIOUS
<1> HIDE DEF s
<1> DEFINE a == Append(s, buffer[n])
<1>5. /\ a \in Seq(Nat) /\ Len(a) = n + 1
      /\ \A k \in 1 .. n : a[k] = s[k]
      /\ a[n + 1] = buffer[n]
  <2> DEFINE e == buffer[n]
  <2>1. e \in Nat /\ s \in Seq(Nat)
    BY <1>2, <1>4
  <2> HIDE DEF e
  <2>2. /\ Append(s, e) \in Seq(Nat) /\ Len(Append(s, e)) = Len(s) + 1
        /\ \A k \in 1 .. Len(s) : Append(s, e)[k] = s[k]
        /\ Append(s, e)[Len(s) + 1] = e
    BY <2>1, AppendProperties
  <2> QED
    BY <1>2, <2>2 DEF e
<1> HIDE DEF a
<1>6. \A k \in 1 .. n + 1 : a[k] = buffer[k - 1]
  <2> SUFFICES ASSUME NEW k \in 1 .. n + 1 PROVE a[k] = buffer[k - 1]
    OBVIOUS
  <2>1. CASE k = n + 1
    BY <1>4, <1>5, <2>1
  <2>2. CASE k # n + 1
    <3>1. k \in 1 .. n
      BY <2>2
    <3> QED
      BY <1>3, <1>5, <3>1
  <2> QED
    BY <2>1, <2>2
<1>7. a = [k \in 1 .. n + 1 |-> a[k]]
  BY <1>5
<1> QED
  BY <1>6, <1>7 DEF a, s

LEMMA PrintStep ==
    ASSUME CInv, printStr
    PROVE  CInv'
<1>1. /\ pc = "printStr"
      /\ \/ strOutput[i] = NUL /\ pc' = "printed" /\ out' = out /\ i' = i
         \/ strOutput[i] # NUL /\ out' = Append(out, strOutput[i]) /\ i' = i + 1 /\ pc' = pc
      /\ UNCHANGED <<strOutput, curLvl, asked>>
  BY DEF printStr
<1>2. Known /\ InPrint /\ strOutput \in [Positions -> Nat]
  BY <1>1 DEF CInv, Known
<1>3. /\ HasLast(strOutput, Count) /\ strOutput[Negative + Count] = NUL
      /\ i \in 0 .. Negative + Count
      /\ out = [k \in 1 .. i |-> strOutput[k - 1]]
  BY <1>2 DEF InPrint, LastDigits
<1>4. /\ Count \in 1 .. 64 /\ Negative \in {0, 1} /\ (asked.value < 0 <=> Negative = 1)
      /\ Base \in Bases
      /\ \A k \in 0 .. 127 : Left(k) % Base \in 0 .. Base - 1
  BY <1>2, AskedFor
<1>4a. /\ Negative \in Nat /\ Negative <= 1 /\ Count \in Nat /\ Count >= 1 /\ Count <= 64
      /\ i \in Nat /\ i <= Negative + Count
  <2>1. Negative \in Nat /\ Negative <= 1 /\ Count \in Nat /\ Count >= 1 /\ Count <= 64
    BY <1>4
  <2>2. i \in 0 .. Negative + Count
    BY <1>3
  <2> QED
    BY <2>1, <2>2
<1>5. LastDigits(Count)' /\ Count' = Count /\ Negative' = Negative /\ Known'
  BY <1>1, <1>2, <1>3, SameAsked
<1>6. CASE strOutput[i] = NUL
  <2>1. ~ (i < Negative)
    <3>1. i < Negative => i = 0 /\ asked.value < 0
      <4>1. i < Negative => i = 0 /\ Negative = 1
        BY <1>4a
      <4> QED
        BY <1>4, <4>1
    <3>2. asked.value < 0 => strOutput[0] = MINUS
      BY <1>3 DEF HasLast
    <3> QED
      BY <1>6, <3>1, <3>2
  <2>2. i = Negative + Count
    <3>1. SUFFICES ASSUME i # Negative + Count PROVE FALSE
      OBVIOUS
    <3> DEFINE j == Negative + Count - 1 - i
    <3>2. j \in 0 .. Count - 1 /\ j \in 0 .. 127 /\ Negative + Count - 1 - j = i
      BY <1>4a, <2>1, <3>1
    <3> HIDE DEF j
    <3>3. strOutput[Negative + Count - 1 - j] = Left(j) % Base
      BY <1>3, <3>2 DEF HasLast
    <3>4. Left(j) % Base \in 0 .. Base - 1
      BY <1>4, <3>2
    <3>5. NUL \in 0 .. Base - 1
      BY <1>6, <3>2, <3>3, <3>4
    <3> QED
      BY <1>4, <3>5 DEF Bases
  <2>3. pc' = "printed" /\ out' = out /\ i' = i
    BY <1>1, <1>6
  <2>4. InPrint' /\ i' = Negative' + Count'
    BY <1>1, <1>3, <1>5, <2>2, <2>3 DEF InPrint
  <2> QED
    BY <1>1, <1>2, <1>5, <2>3, <2>4 DEF CInv, Known
<1>7. CASE strOutput[i] # NUL
  <2>1. i # Negative + Count /\ i \in Positions /\ i + 1 \in 0 .. Negative + Count
    <3>1. i # Negative + Count
      BY <1>3, <1>7
    <3> QED
      BY <1>4a, <3>1
  <2>2. out' = Append(out, strOutput[i]) /\ i' = i + 1 /\ pc' = pc
    BY <1>1, <1>7
  <2>3. out' = [k \in 1 .. i' |-> strOutput'[k - 1]]
    BY <1>1, <1>2, <1>3, <2>1, <2>2, OneMore
  <2>4. InPrint'
    BY <1>1, <1>3, <1>5, <2>1, <2>2, <2>3 DEF InPrint
  <2> QED
    BY <1>1, <1>2, <1>5, <2>2, <2>4 DEF CInv, Known
<1> QED
  BY <1>6, <1>7

------------------------------------------------------------------------------
(* The handlers do not log: a kernel below the level TRACE *)
QuietLevels == \A lvl \in Levels : lvl = NONE \/ lvl < TRACE

LEMMA Handler ==
    ASSUME CInv, QuietLevels, irq_klog
    PROVE  CInv'
<1>1. UNCHANGED <<curLvl, asked, left, i, isNeg, size, pc, out>>
  BY DEF irq_klog, loop
<1>2. ~ Logs(TRACE)
  <2>1. curLvl \in Levels /\ Levels \subseteq 0 .. NONE
    BY ConversionAssumption DEF CInv
  <2> QED
    BY <2>1 DEF QuietLevels, Logs
<1>3. strOutput' = strOutput
  BY <1>2 DEF irq_klog
<1>4. UNCHANGED <<strOutput, curLvl, asked, left, i, isNeg, size, pc, out>>
  BY <1>1, <1>3
<1> QED
  BY <1>4 DEF CInv, Asked, InInt, InHex, InBin, InPrint, LastDigits, HasLast, Negative,
              Base, Count, Left

LEMMA NumbersInv ==
    ASSUME QuietLevels
    PROVE  Spec => []CInv
<1>1. Init => CInv
  BY DEF Init, CInv
<1>2. CInv /\ [Next]_vars => CInv'
  <2> SUFFICES ASSUME CInv, [Next]_vars PROVE CInv'
    OBVIOUS
  <2>1. CASE \E v \in Ints : int2str(v)
    BY <2>1, BeginInt
  <2>2. CASE int2str_digit
    BY <2>2, IntDigit
  <2>3. CASE int2str_last
    BY <2>3, IntLast
  <2>4. CASE \E v \in Words : hex2str(v)
    BY <2>4, BeginHex
  <2>5. CASE hex2str_byte
    BY <2>5, HexByte
  <2>6. CASE hex2str_last
    BY <2>6, HexLast
  <2>7. CASE \E v \in Words, n \in Digits : bin2str(v, n)
    BY <2>7, BeginBin
  <2>8. CASE bin2str_digit
    BY <2>8, BinDigit
  <2>9. CASE bin2str_last
    BY <2>9, BinLast
  <2>10. CASE printStr
    BY <2>10, PrintStep
  <2>11. CASE Done
    <3>1. pc' = "idle" /\ UNCHANGED <<strOutput, curLvl>>
      BY <2>11 DEF Done
    <3> QED
      BY <3>1 DEF CInv
  <2>12. CASE irq_klog
    BY <2>12, Handler
  <2>13. CASE UNCHANGED vars
    <3>1. UNCHANGED <<strOutput, curLvl, asked, left, i, isNeg, size, pc, out>>
      BY <2>13 DEF vars
    <3> QED
      BY <3>1 DEF CInv, Asked, InInt, InHex, InBin, InPrint, LastDigits, HasLast, Negative,
                  Base, Count, Left
  <2> QED
    BY <2>1, <2>2, <2>3, <2>4, <2>5, <2>6, <2>7, <2>8, <2>9, <2>10, <2>11, <2>12, <2>13
       DEF Next
<1> QED
  BY <1>1, <1>2, PTL DEF Spec

------------------------------------------------------------------------------
(* What was printed *)

(* The digits of a decimal number are all of them, and no zero leads *)
LEMMA DecimalDigits ==
    ASSUME Known, asked.is = "int2str", NEW s,
           AreDigits(s, Abs(asked.value), 10, Count)
    PROVE  IsDecimal(s, Abs(asked.value))
<1> DEFINE n == Abs(asked.value)
           q == Quotients(n, 10)
<1>1. /\ n \in Nat /\ Count \in 1 .. 64 /\ Base = 10
      /\ q[Count - 1] < 10 /\ \A j \in 0 .. Count - 2 : q[j] >= 10
  <2>1. Base = 10
    BY DEF Base
  <2> QED
    BY <2>1, AskedFor DEF Left
<1> HIDE DEF n
<1>2. /\ \A k \in 1 .. 127 : q[k] = q[k - 1] \div 10
      /\ \A k \in 0 .. 127 : q[k] \in Nat
  BY <1>1, QuotientsAre DEF Bases
<1> HIDE DEF q
<1>3. /\ s \in Seq(Nat) /\ Len(s) = Count
      /\ \A k \in 1 .. Count : s[k] = q[Count - k] % 10
  BY DEF AreDigits, q, n
<1>4. q[Count] = 0
  <2>1. Count \in 1 .. 127 /\ Count - 1 \in 0 .. 127
    BY <1>1
  <2>2. q[Count] = q[Count - 1] \div 10 /\ q[Count - 1] \in Nat /\ q[Count - 1] < 10
    BY <1>1, <1>2, <2>1
  <2>3. \A a \in Nat : a < 10 => a \div 10 = 0
    OBVIOUS
  <2> QED
    BY <2>2, <2>3
<1>5. ValueOf(s, 10) = n
  <2>1. /\ n = q[Count] * Power(10, Count) + ValueOf(s, 10)
        /\ Power(10, Count) \in Nat /\ ValueOf(s, 10) \in Nat
    BY <1>1, DigitsValue DEF Bases, q, n
  <2> QED
    BY <1>1, <1>4, <2>1
<1>6. \A k \in DOMAIN s : s[k] \in 0 .. 9
  <2> SUFFICES ASSUME NEW k \in 1 .. Count PROVE s[k] \in 0 .. 9
    BY <1>1, <1>3
  <2>1. Count - k \in 0 .. 127
    BY <1>1
  <2>2. q[Count - k] \in Nat /\ s[k] = q[Count - k] % 10
    BY <1>2, <1>3, <2>1
  <2> QED
    BY <2>2
<1>7. Len(s) > 1 => s[1] # 0
  <2> SUFFICES ASSUME Len(s) > 1 PROVE s[1] # 0
    OBVIOUS
  <2>1. /\ Count - 2 \in 0 .. 127 /\ Count - 1 \in 1 .. 127 /\ (Count - 1) - 1 = Count - 2
        /\ Count - 2 \in 0 .. Count - 2 /\ 1 \in 1 .. Count
    BY <1>1, <1>3
  <2>2. q[Count - 2] >= 10 /\ q[Count - 2] \in Nat
    BY <1>1, <1>2, <2>1
  <2>3. q[Count - 1] = q[Count - 2] \div 10
    BY <1>2, <2>1
  <2>4. q[Count - 1] \in 1 .. 9
    <3>1. q[Count - 2] \div 10 \in Nat /\ q[Count - 2] \div 10 >= 1
      BY <2>2
    <3> QED
      BY <1>1, <2>3, <3>1
  <2>5. s[1] = q[Count - 1] % 10
    BY <1>3, <2>1
  <2> QED
    BY <2>4, <2>5
<1>8. s # <<>>
  BY <1>1, <1>3
<1> QED
  BY <1>5, <1>6, <1>7, <1>8 DEF IsDecimal, n

(* What the invariant says of the buffer, printStr has printed *)
LEMMA PrintedDigits ==
    ASSUME CInv, pc = "printed", NEW s, s = [k \in 1 .. Count |-> strOutput[k - 1 + Negative]]
    PROVE  /\ Known
           /\ AreDigits(s, Abs(asked.value), Base, Count)
           /\ asked.value >= 0 => out = s
           /\ asked.value < 0 => out # <<>> /\ Head(out) = MINUS /\ Tail(out) = s
<1>1. Known /\ InPrint /\ strOutput \in [Positions -> Nat] /\ i = Negative + Count
  BY DEF CInv, Known
<1>2. /\ HasLast(strOutput, Count) /\ out = [k \in 1 .. i |-> strOutput[k - 1]]
  BY <1>1 DEF InPrint, LastDigits
<1>3. /\ Count \in 1 .. 64 /\ Negative \in {0, 1} /\ asked.value \in Int
      /\ (asked.value < 0 <=> Negative = 1)
  BY <1>1, AskedFor
<1>3a. Count \in Nat /\ Count >= 1 /\ Count <= 64
  BY <1>3
<1>4. \A k \in 1 .. Count : s[k] = Left(Count - k) % Base
  <2> SUFFICES ASSUME NEW k \in 1 .. Count PROVE s[k] = Left(Count - k) % Base
    OBVIOUS
  <2>1. /\ Count - k \in 0 .. Count - 1
        /\ Negative + Count - 1 - (Count - k) = k - 1 + Negative
    BY <1>3
  <2>2. strOutput[Negative + Count - 1 - (Count - k)] = Left(Count - k) % Base
    BY <1>2, <2>1 DEF HasLast
  <2> QED
    BY <2>1, <2>2
<1>5. s \in Seq(Nat) /\ Len(s) = Count
  <2>1. \A k \in 1 .. Count : k - 1 + Negative \in Positions
    BY <1>3
  <2>2. s \in [1 .. Count -> Nat]
    BY <1>1, <2>1
  <2>3. \A n \in Nat : \A t : t \in [1 .. n -> Nat] => t \in Seq(Nat) /\ Len(t) = n
    OBVIOUS
  <2> QED
    BY <1>3a, <2>2, <2>3, Zenon
<1>6. AreDigits(s, Abs(asked.value), Base, Count)
  BY <1>4, <1>5 DEF AreDigits, Left
<1>7. CASE asked.value >= 0
  <2>1. ~ (asked.value < 0) /\ Negative = 0
    BY <1>3, <1>7
  <2>2. i = Count /\ \A k \in 1 .. Count : k - 1 + Negative = k - 1
    BY <1>1, <1>3a, <2>1
  <2>3. out = s
    BY <1>2, <2>2
  <2> QED
    BY <1>1, <1>6, <2>1, <2>3
<1>8. CASE asked.value < 0
  <2>1. Negative = 1 /\ ~ (asked.value >= 0) /\ i = Count + 1
    <3>1. Negative = 1 /\ ~ (asked.value >= 0)
      BY <1>3, <1>8
    <3> QED
      BY <1>1, <1>3a, <3>1
  <2>2. out \in Seq(Nat) /\ Len(out) = Count + 1
    <3>1. \A k \in 1 .. i : k - 1 \in Positions
      BY <1>3, <2>1
    <3>2. out \in [1 .. i -> Nat]
      BY <1>1, <1>2, <3>1
    <3> QED
      BY <1>3, <2>1, <3>2
  <2>3. out # <<>>
    BY <1>3, <2>2
  <2>4. Head(out) = MINUS
    <3>1. out[1] = strOutput[0]
      BY <1>2, <1>3, <2>1
    <3> QED
      BY <1>2, <1>8, <2>2, <2>3, <3>1 DEF HasLast
  <2>5. Tail(out) = s
    <3>1. Tail(out) \in Seq(Nat) /\ Len(Tail(out)) = Count
      BY <1>3, <2>2, <2>3
    <3>2. \A k \in 1 .. Count : Tail(out)[k] = out[k + 1]
      BY <1>3, <2>2, <2>3
    <3>3. \A k \in 1 .. Count : out[k + 1] = s[k]
      <4>1. \A k \in 1 .. Count : k + 1 \in 1 .. i /\ (k + 1) - 1 = k - 1 + Negative
        BY <1>3, <2>1
      <4> QED
        BY <1>2, <4>1
    <3>4. \A k \in 1 .. Count : Tail(out)[k] = s[k]
      BY <3>2, <3>3
    <3>5. \A t \in Seq(Nat) : Len(t) = Count => t = [k \in 1 .. Count |-> t[k]]
      OBVIOUS
    <3>6. /\ Tail(out) = [k \in 1 .. Count |-> Tail(out)[k]]
          /\ s = [k \in 1 .. Count |-> s[k]]
      BY <1>5, <3>1, <3>5, Zenon
    <3> QED
      BY <3>4, <3>6
  <2> QED
    BY <1>1, <1>6, <2>1, <2>3, <2>4, <2>5
<1> QED
  BY <1>3, <1>7, <1>8

(* What printStr prints is the number that was converted, with no digit too *)
(* many or too few, for every number and every word: of the kernels whose   *)
(* handlers do not log, for the log's line number goes to the same buffer.  *)
THEOREM PrintsRight ==
    ASSUME QuietLevels
    PROVE  Spec => []PrintedRight
<1>1. CInv => PrintedRight
  <2> SUFFICES ASSUME CInv, pc = "printed"
               PROVE  CASE asked.is = "int2str" /\ asked.value >= 0 ->
                             IsDecimal(out, asked.value)
                        [] asked.is = "int2str" /\ asked.value < 0 ->
                             /\ out # <<>> /\ Head(out) = MINUS
                             /\ IsDecimal(Tail(out), - asked.value)
                        [] asked.is = "hex2str" ->
                             Len(out) = 2 * Bytes /\ ValueOf(out, 16) = asked.value
                        [] asked.is = "bin2str" ->
                             /\ Len(out) = asked.size
                             /\ ValueOf(out, 2) = asked.value % Power(2, asked.size)
    BY DEF PrintedRight
  <2> DEFINE s == [k \in 1 .. Count |-> strOutput[k - 1 + Negative]]
  <2>1. /\ Known
        /\ AreDigits(s, Abs(asked.value), Base, Count)
        /\ asked.value >= 0 => out = s
        /\ asked.value < 0 => out # <<>> /\ Head(out) = MINUS /\ Tail(out) = s
    BY PrintedDigits
  <2> HIDE DEF s
  <2>2. /\ asked.value \in Int /\ (asked.is # "int2str" => asked.value >= 0)
        /\ Count \in 1 .. 64 /\ Base \in Bases /\ Abs(asked.value) \in Nat
    <3>1. /\ asked.value \in Int /\ Negative \in {0, 1} /\ (asked.value < 0 <=> Negative = 1)
          /\ (asked.is # "int2str" => Negative = 0)
          /\ Count \in 1 .. 64 /\ Base \in Bases /\ Abs(asked.value) \in Nat
      BY <2>1, AskedFor
    <3> QED
      BY <3>1
  <2>3. CASE asked.is = "int2str"
    <3>1. Base = 10
      BY <2>3 DEF Base
    <3>2. IsDecimal(s, Abs(asked.value))
      BY <2>1, <2>3, <3>1, DecimalDigits
    <3>3. CASE asked.value >= 0
      <4>1. Abs(asked.value) = asked.value /\ out = s /\ ~ (asked.value < 0)
        BY <2>1, <2>2, <3>3 DEF Abs
      <4> QED
        BY <2>3, <3>2, <3>3, <4>1
    <3>4. CASE asked.value < 0
      <4>1. /\ Abs(asked.value) = - asked.value /\ ~ (asked.value >= 0)
            /\ out # <<>> /\ Head(out) = MINUS /\ Tail(out) = s
        BY <2>1, <2>2, <3>4 DEF Abs
      <4>2. out # <<>> /\ Head(out) = MINUS /\ IsDecimal(Tail(out), - asked.value)
        BY <3>2, <4>1
      <4> QED
        BY <2>3, <3>4, <4>1, <4>2
    <3>5. asked.value >= 0 \/ asked.value < 0
      BY <2>2
    <3> QED
      BY <3>3, <3>4, <3>5
  <2>4. CASE asked.is = "hex2str"
    <3>1. Base = 16 /\ Count = 2 * Bytes /\ asked.value >= 0
      BY <2>2, <2>4 DEF Base, Count
    <3>2. /\ Abs(asked.value) = asked.value /\ out = s
          /\ Len(s) = Count /\ Quotients(asked.value, 16)[Count] = 0
      <4>1. asked.value \in Words
        BY <2>1, <2>4 DEF Known, Asked
      <4>2. Quotients(asked.value, 16)[2 * Bytes] = 0
        BY <4>1, ConversionAssumption
      <4>3. Abs(asked.value) = asked.value
        BY <2>2, <3>1 DEF Abs
      <4> QED
        BY <2>1, <3>1, <4>2, <4>3 DEF AreDigits
    <3>3. /\ asked.value = Quotients(asked.value, 16)[Count] * Power(16, Count) + ValueOf(s, 16)
          /\ Power(16, Count) \in Nat /\ ValueOf(s, 16) \in Nat
      <4>1. /\ asked.value \in Nat /\ 16 \in Bases /\ Count \in 1 .. 64
            /\ AreDigits(s, asked.value, 16, Count)
        BY <2>1, <2>2, <3>1, <3>2
      <4>2. \A b \in Bases : AreDigits(s, asked.value, b, Count) =>
              /\ asked.value = Quotients(asked.value, b)[Count] * Power(b, Count) + ValueOf(s, b)
              /\ Power(b, Count) \in Nat \ {0} /\ ValueOf(s, b) \in Nat
              /\ ValueOf(s, b) < Power(b, Count)
        BY <4>1, DigitsValue
      <4> QED
        BY <4>1, <4>2
    <3>4. ValueOf(s, 16) = asked.value
      <4>1. asked.value = 0 * Power(16, Count) + ValueOf(s, 16)
        BY <3>2, <3>3
      <4> QED
        BY <3>3, <4>1
    <3>5. Len(out) = 2 * Bytes /\ ValueOf(out, 16) = asked.value
      BY <3>1, <3>2, <3>4
    <3> QED
      BY <2>4, <3>5
  <2>5. CASE asked.is = "bin2str"
    <3>1. Base = 2 /\ Count = asked.size /\ asked.value >= 0
      BY <2>2, <2>5 DEF Base, Count
    <3>2. Abs(asked.value) = asked.value /\ out = s /\ Len(s) = Count
      <4>1. Abs(asked.value) = asked.value
        BY <2>2, <3>1 DEF Abs
      <4> QED
        BY <2>1, <3>1, <4>1 DEF AreDigits
    <3>3. /\ asked.value = Quotients(asked.value, 2)[Count] * Power(2, Count) + ValueOf(s, 2)
          /\ Power(2, Count) \in Nat \ {0} /\ ValueOf(s, 2) \in Nat
          /\ ValueOf(s, 2) < Power(2, Count)
      <4>1. /\ asked.value \in Nat /\ 2 \in Bases /\ Count \in 1 .. 64
            /\ AreDigits(s, asked.value, 2, Count)
        BY <2>1, <2>2, <3>1, <3>2
      <4>2. \A b \in Bases : AreDigits(s, asked.value, b, Count) =>
              /\ asked.value = Quotients(asked.value, b)[Count] * Power(b, Count) + ValueOf(s, b)
              /\ Power(b, Count) \in Nat \ {0} /\ ValueOf(s, b) \in Nat
              /\ ValueOf(s, b) < Power(b, Count)
        BY <4>1, DigitsValue
      <4> QED
        BY <4>1, <4>2
    <3> DEFINE n == asked.value
               rest == Quotients(n, 2)[Count]
    <3>4. n \in Nat /\ rest \in Nat
      <4>1. n \in Nat
        BY <2>2, <3>1
      <4>2. Count \in 0 .. 127
        BY <2>2
      <4> QED
        BY <4>1, <4>2, QuotientsAre DEF Bases
    <3> HIDE DEF n, rest
    <3>5. n % Power(2, Count) = ValueOf(s, 2)
      <4>1. \A p, v : p \in Nat \ {0} /\ v \in Nat /\ n = rest * p + v /\ v < p
                       => n % p = v
        BY <3>4, RemainderIs
      <4> QED
        BY <3>3, <4>1 DEF n, rest
    <3>6. Len(out) = asked.size /\ ValueOf(out, 2) = asked.value % Power(2, asked.size)
      BY <3>1, <3>2, <3>5 DEF n
    <3> QED
      BY <2>5, <3>6
  <2> QED
    BY <2>1, <2>3, <2>4, <2>5 DEF Known
<1>2. Spec => []CInv
  BY NumbersInv
<1> QED
  BY <1>1, <1>2, PTL
===============================================================================
