--------------------------- MODULE MCCjsonValues ---------------------------
(***************************************************************************)
(* A small instance of CjsonValues.  Blocks and keys are interchangeable:   *)
(* a fresh block is any free one and the hash any function.                 *)
(***************************************************************************)
EXTENDS CjsonValues

Calls == {<<"UnsignedLong", "libc">>, <<"Object", "pool">>, <<"Array", "pool">>}
Symmetry == Permutations(Block) \cup Permutations(Key)
=============================================================================
