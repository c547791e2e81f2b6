------------------------- MODULE MCCjsonSerializer -------------------------
(***************************************************************************)
(* The instances of CjsonSerializer that TLC checks: documents of every    *)
(* kind of value, shared between the runs, and memory pools.               *)
(***************************************************************************)
EXTENDS CjsonSerializer

Text(units) == [type |-> "String", units |-> units, tail |-> <<>>]
Broken(units, tail) == [type |-> "String", units |-> units, tail |-> tail]
Pair(units, n) == [key |-> Text(units), value |-> n]

(* A constant, a number, and strings: plain, with a quote, a line feed, a    *)
(* slash and units of two and three bytes (one a lone surrogate), and two    *)
(* that end in the middle of a character or in one beyond 16 bits.           *)
SmallTree == <<
  [type |-> "Constant", value |-> "Null"],                                   \* 1
  [type |-> "Number", digits |-> <<Minus, 49, 50>>],                         \* 2
  Text(<<97>>),                                                              \* 3
  Text(<<Quote, 10, Slash, 228, 97>>),                                       \* 4
  Text(<<8364, 55357>>),                                                     \* 5
  Broken(<<97>>, <<240, 159, 152, 128>>),                                    \* 6
  Broken(<<>>, <<226, 130>>),                                                \* 7
  [type |-> "Object", members |-> << Pair(<<97>>, 1) >>],                    \* 8
  [type |-> "Object", members |-> << Pair(<<98>>, 2), Pair(<<>>, 8) >>],     \* 9
  [type |-> "Array", elements |-> << >>],                                    \* 10
  [type |-> "Array", elements |-> << 2, 10, 1 >>],                           \* 11
  [type |-> "Object", members |-> << >>],                                    \* 12
  [type |-> "Object", members |-> << Pair(<<97>>, 11), Pair(<<Quote>>, 3) >>], \* 13
  [type |-> "Array", elements |-> << 8, 3 >>],                               \* 14
  Broken(<<97>>, <<128>>),                                                   \* 15
  [type |-> "Object", members |-> << Pair(<<98>>, 14), Pair(<<97>>, 10) >>]    \* 16
>>

(* The clients: one callback that fails before it has taken every byte, and *)
(* one that may fail after, for the documents without arrays (the bracket of *)
(* an array is written again when a call that took it has failed).           *)
Early(p) == [pretty |-> p, failure |-> "early", roots |-> DOMAIN SmallTree]
Late(p)  == [pretty |-> p, failure |-> "late", roots |-> {1, 2, 3, 4, 5, 6, 8, 9, 12}]
AllClients == {Early(TRUE), Early(FALSE), Late(TRUE), Late(FALSE)}

Reliable == {[pretty |-> FALSE, failure |-> "never", roots |-> DOMAIN SmallTree]}
Numbers  == {[pretty |-> FALSE, failure |-> "never", roots |-> {2}]}

Pool7 == 1 .. 7

ASSUME WritableDocuments
=============================================================================
