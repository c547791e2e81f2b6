-------------------------- MODULE MCCjsonRoundTrip --------------------------
(***************************************************************************)
(* A small instance of CjsonRoundTrip: strings of plain, escaped and       *)
(* multi-byte characters, alone, as elements and as keys.  Numbers, empty  *)
(* objects and quotes in strings are left out: the serializer does not     *)
(* write the first two as it should and the parser refuses the third.      *)
(***************************************************************************)
EXTENDS CjsonRoundTrip

Text(units) == [type |-> "String", units |-> units, tail |-> <<>>]
Pair(units, n) == [key |-> Text(units), value |-> n]

Documents == <<
  [type |-> "Constant", value |-> "Null"],                                     \* 1
  Text(<<97, 10, 47, 92>>),                                                    \* 2
  Text(<<8364, 55357, 228>>),                                                  \* 3
  Text(<<>>),                                                                  \* 4
  [type |-> "Array", elements |-> << >>],                                      \* 5
  [type |-> "Array", elements |-> << 5, 4, 1 >>],                              \* 6
  [type |-> "Object", members |-> << Pair(<<97>>, 1), Pair(<<228, 9>>, 5) >>], \* 7
  [type |-> "Object", members |-> << Pair(<<>>, 7), Pair(<<98>>, 6) >>],       \* 8
  [type |-> "Array", elements |-> << 7, 8 >>]                                  \* 9
>>

(* The callback may take part of the bytes and fail; a failure in the        *)
(* trailer of an object hangs the serializer.                                *)
Clients == {[pretty |-> FALSE, failure |-> "early", roots |-> DOMAIN Documents]}

(* What the parser builds stays allocated until the end: its pool is larger  *)
(* than any document.                                                        *)
Pool8  == 1 .. 8
Pool40 == 1 .. 40
=============================================================================
