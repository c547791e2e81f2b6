----------------------------- MODULE CjsonBytes -----------------------------
(***************************************************************************)
(* The bytes of a JSON text, by the code of the character literals the C   *)
(* sources compare with.  A byte is a number, so that the escape and UTF-8 *)
(* conversions of the string parser can compute with it.                   *)
(***************************************************************************)
EXTENDS Integers, Sequences

Octet    == {b \in Nat : b < 256}
CodeUnit == {u \in Nat : u < 65536}     \* what four hexadecimal digits spell

LBrace    == 123    \* {
RBrace    == 125    \* }
LBracket  == 91     \* [
RBracket  == 93     \* ]
Quote     == 34     \* "
Backslash == 92     \* \
Slash     == 47     \* /
Colon     == 58     \* :
Comma     == 44     \* ,
Plus      == 43     \* +
Minus     == 45     \* -
Dot       == 46     \* .
Space     == 32

Whitespace == {9, 10, 13, 32}
Digit      == 48 .. 57
ExpSign    == {101, 69}         \* e E

(* The letters that carry a meaning somewhere in the grammar. *)
LetterB == 98
LetterF == 102
LetterN == 110
LetterR == 114
LetterT == 116
LetterU == 117

(* cjsonParser.c: strTrue, strFalse, strNull *)
Literal == [ True  |-> <<116, 114, 117, 101>>,
             False |-> <<102, 97, 108, 115, 101>>,
             Null  |-> <<110, 117, 108, 108>> ]

(* What a hexadecimal digit of a \u escape is worth. *)
HexDigit == Digit \cup (97 .. 102) \cup (65 .. 70)
HexValue(b) == CASE b \in Digit      -> b - 48
                 [] b \in 97 .. 102  -> b - 97 + 10
                 [] OTHER            -> b - 65 + 10

(* The byte the two-character escapes stand for.  The code has no case for \" *)
Unescaped == [ b \in {Backslash, Slash, LetterB, LetterF, LetterN, LetterR, LetterT} |->
                 CASE b = LetterB -> 8
                   [] b = LetterF -> 12
                   [] b = LetterN -> 10
                   [] b = LetterR -> 13
                   [] b = LetterT -> 9
                   [] OTHER       -> b ]

(* UTF-8 encoding of a 16 bit code unit, one to three bytes; a surrogate is *)
(* encoded like any other unit.                                             *)
Utf8(u) == IF u <= 127 THEN <<u>>
           ELSE IF u <= 2047 THEN <<192 + (u \div 64), 128 + (u % 64)>>
           ELSE <<224 + (u \div 4096), 128 + ((u \div 64) % 64), 128 + (u % 64)>>
=============================================================================
