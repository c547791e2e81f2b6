-------------------------- MODULE CjsonNumberValue --------------------------
(***************************************************************************)
(* What a numeral is worth: the accumulators that                          *)
(* cjsonParser_Number_ProcessByte keeps beside the automaton of            *)
(* CjsonNumerals, for one number element from its push to its pop.  How    *)
(* the element is reached, and a failing cjsonNumber_Create, are the       *)
(* parser's part (CjsonParser).                                            *)
(*                                                                         *)
(* Integers have Width bits.  A double is exact: mantissa * 10 ^ scale.    *)
(* Rounding is left out; the range in which the code computes with         *)
(* integers is not.                                                        *)
(***************************************************************************)
EXTENDS CjsonNumerals, Sequences

CONSTANTS
  Byte,        \* the bytes fed
  Width,       \* bits of unsigned long and signed long
  MaxNumeral   \* bound: bytes of a numeral

(* The limit of the integer arithmetic leaves room for a digit from 4 bits   *)
(* on; C promises 32.                                                        *)
ASSUME NumberValueAssumption ==
  Byte \subseteq Octet /\ Width \in Nat /\ Width >= 4 /\ MaxNumeral \in Nat

VARIABLES
  number,      \* the element: accumulators and state
  numeral,     \* history: the bytes it has accepted
  result       \* the number it has created, or the byte it has refused

vars == <<number, numeral, result>>

ULONG == 0 .. 2 ^ Width - 1
SLONG == -(2 ^ (Width - 1)) .. 2 ^ (Width - 1) - 1
ULONG_MAX == 2 ^ Width - 1

Pending == [type |-> "Pending"]
Refused == [type |-> "Refused"]

(* cjsonParser_Number_Push.  value is the union currentValue, read as        *)
(* numberType says; dCurrentMultiplier is 10 ^ multiplier.                    *)
NewNumber == [value |-> 0, multiplier |-> 0, dwCurrentExponent |-> 0,
              dwSignBase |-> 1, dwSignExponent |-> 1,
              numberType |-> "UnsignedLong", state |-> "FirstSymbol"]

Worth(b) == b - 48     \* bData - '0'

(* Another digit before the point: integer arithmetic while the value is     *)
(* below the limit, then the same sum as a double.                           *)
BelowLimitInclusive(value) == value <= ULONG_MAX \div 10          \* mutant
BelowLimitSigned(value) == value < (ULONG_MAX \div 2) \div 10     \* mutant
BelowLimit(value) == value < ULONG_MAX \div 10
IntegerDigit(n, b) ==
  IF n.numberType = "UnsignedLong" /\ BelowLimit(n.value)
    THEN [n EXCEPT !.value = (n.value * 10 + Worth(b)) % 2 ^ Width]
    ELSE [n EXCEPT !.value = n.value * 10 + Worth(b), !.numberType = "Double"]

FractionalDigitUnscaled(n, b) == [n EXCEPT !.value = n.value * 10 + Worth(b)] \* mutant
FractionalDigit(n, b) ==
  [n EXCEPT !.value = n.value * 10 + Worth(b), !.multiplier = @ - 1]

(* The digits of an exponent are added up. *)
ExponentDigit(n, b) == [n EXCEPT !.dwCurrentExponent = @ + Worth(b)]

(* The element after a byte that the automaton accepts into state next. *)
Accumulated(n, b, next) ==
  CASE n.state = "FirstSymbol" ->
         IF b = Minus THEN [n EXCEPT !.dwSignBase = -1] ELSE [n EXCEPT !.value = Worth(b)]
    [] n.state = "IntegerDigits" ->
         IF b \in Digit THEN IntegerDigit(n, b) ELSE [n EXCEPT !.numberType = "Double"]
    [] n.state \in {"FractionalDigitsFirst", "FractionalDigits"} ->
         IF b \in Digit THEN FractionalDigit(n, b) ELSE n
    [] n.state \in {"ExponentFirst", "ExponentFirstAfterSign"} ->
         IF b \in Digit THEN [n EXCEPT !.dwCurrentExponent = Worth(b)]
         ELSE IF b = Minus THEN [n EXCEPT !.dwSignExponent = -1] ELSE n
    [] n.state = "Exponent" -> ExponentDigit(n, b)

(* (signed long)(ulong) * -1: the conversion wraps, and to negate the least  *)
(* signed long is undefined.                                                 *)
Negated(u) == IF u < 2 ^ (Width - 1) THEN {-u}
              ELSE IF u > 2 ^ (Width - 1) THEN {2 ^ Width - u} ELSE SLONG

(* The number that is created when the numeral is over. *)
Created(n) ==
  IF n.numberType = "Double"
    THEN {[type |-> "Double", mantissa |-> n.value * n.dwSignBase,
           scale |-> n.multiplier + n.dwSignExponent * n.dwCurrentExponent]}
  ELSE IF n.dwSignBase < 0
    THEN {[type |-> "SignedLong", mantissa |-> v, scale |-> 0] : v \in Negated(n.value)}
  ELSE {[type |-> "UnsignedLong", mantissa |-> n.value, scale |-> 0]}

-----------------------------------------------------------------------------
Init == number = NewNumber /\ numeral = <<>> /\ result = Pending

After(b) == NumberNext(number.state, b)

(* cjsonParser_Number_ProcessByte, by what the byte does. *)
Accept(b) ==
  /\ After(b) \in NumberState /\ Len(numeral) < MaxNumeral
  /\ number' = [Accumulated(number, b, After(b)) EXCEPT !.state = After(b)]
  /\ numeral' = Append(numeral, b) /\ UNCHANGED result
Finish(b) ==
  /\ After(b) = "finish"
  /\ result' \in Created(number) /\ UNCHANGED <<number, numeral>>
Refuse(b) ==
  /\ After(b) = "error"
  /\ result' = Refused /\ UNCHANGED <<number, numeral>>

Next == /\ result = Pending
        /\ \E b \in Byte : Accept(b) \/ Finish(b) \/ Refuse(b)

Spec == Init /\ [][Next]_vars

-----------------------------------------------------------------------------
(* What the bytes of a numeral denote: sign, digits with the point left out, *)
(* and a power of ten.                                                       *)
Spelled(s) ==
  LET sum[n \in 0 .. Len(s)] == IF n = 0 THEN 0 ELSE sum[n - 1] * 10 + Worth(s[n])
  IN sum[Len(s)]

First(s, S) ==
  LET found == {i \in DOMAIN s : s[i] \in S}
  IN IF found = {} THEN Len(s) + 1 ELSE CHOOSE i \in found : \A j \in found : i <= j
ExpAt(s) == First(s, ExpSign)
DotAt(s) == First(s, ExpSign \cup {Dot})

Negative(s) == s # <<>> /\ s[1] = Minus
Signed(s) == ExpAt(s) < Len(s) /\ s[ExpAt(s) + 1] \in {Plus, Minus}

IntegerPart(s)  == SubSeq(s, IF Negative(s) THEN 2 ELSE 1, DotAt(s) - 1)
Fraction(s)     == SubSeq(s, DotAt(s) + 1, ExpAt(s) - 1)
ExponentPart(s) == SubSeq(s, ExpAt(s) + (IF Signed(s) THEN 2 ELSE 1), Len(s))
Sign(s)         == IF Negative(s) THEN -1 ELSE 1
ExponentSign(s) == IF Signed(s) /\ s[ExpAt(s) + 1] = Minus THEN -1 ELSE 1

Denoted(s) == [mantissa |-> Sign(s) * Spelled(IntegerPart(s) \o Fraction(s)),
               scale |-> ExponentSign(s) * Spelled(ExponentPart(s)) - Len(Fraction(s))]
Equals(r, d) == r.mantissa = d.mantissa /\ (r.mantissa # 0 => r.scale = d.scale)

HasResult == result.type \in {"UnsignedLong", "SignedLong", "Double"}

(* The number delivered is the one the numeral denotes, for exponents of one *)
(* digit and negative integers within signed long: whatever order of digits, *)
(* point, signs and exponent, and wherever the integers give way to doubles. *)
Faithful ==
  HasResult /\ Len(ExponentPart(numeral)) <= 1
    /\ (result.type = "SignedLong" => Spelled(IntegerPart(numeral)) < 2 ^ (Width - 1))
  => Equals(result, Denoted(numeral))

(* The integer accumulator never wraps: as long as it is one, it is worth    *)
(* the digits read so far.                                                   *)
NeverWraps ==
  number.numberType = "UnsignedLong" =>
    number.value \in ULONG /\ number.value = Spelled(IntegerPart(numeral))

(* A numeral without point and exponent stays an integer as long as one      *)
(* digit less leaves room for any digit.                                     *)
IntegersStayIntegers ==
  HasResult /\ result.type = "Double" =>
    \/ DotAt(numeral) <= Len(numeral)
    \/ Spelled(IntegerPart(numeral)) >= 10 * (ULONG_MAX \div 10)

(* The number delivered is the one the numeral denotes, with an exponent of  *)
(* any length.                                                               *)
ExponentsFaithful ==
  HasResult /\ result.type = "Double" => Equals(result, Denoted(numeral))
=============================================================================
