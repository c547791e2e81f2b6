------------------------- MODULE MCCjsonNumberValue -------------------------
(***************************************************************************)
(* A small instance of CjsonNumberValue: with 6 bits ULONG_MAX is 63, the  *)
(* limit 6 and LONG_MIN -32; the digits reach both sides of all three.     *)
(***************************************************************************)
EXTENDS CjsonNumberValue

Bytes == {48, 50, 51, 53, 54, 57} \cup {Dot, 101, Plus, Minus, Space}
=============================================================================
