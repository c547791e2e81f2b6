--------------------------- MODULE CjsonRoundTrip ---------------------------
(***************************************************************************)
(* A serializer whose write callback hands every byte it takes to a parser *)
(* before it returns: CjsonSerializer and CjsonParser composed through the *)
(* bytes between them.  The parser is one without flags and callback, so   *)
(* the root it completes stays in its lpChildResult.                       *)
(*                                                                         *)
(* The serializer's variables begin with w, the parser's with r.           *)
(***************************************************************************)
EXTENDS Integers, Sequences

CONSTANTS
  Tree, Client,         \* documents and clients of the serializer
  WriterBlock, ReaderBlock,   \* the memory of each
  StringPage, ArrayPage,
  AllocMayFail          \* may an allocation of the serializer fail?

VARIABLES
  wSerializer, wClient, wStack, wAt, wStatus, wHeap, doc, out,
  rParser, rFlags, rCallback, rStack, rChild, rByte, rStatus, rHeap,
  rDocuments, rRoots, rOom,
  fed                   \* how many bytes of out the parser has been given

wvars == <<wSerializer, wClient, wStack, wAt, wStatus, wHeap, doc, out>>
rvars == <<rParser, rFlags, rCallback, rStack, rChild, rByte, rStatus, rHeap,
           rDocuments, rRoots, rOom>>
vars == <<wvars, rvars, fed>>

W == INSTANCE CjsonSerializer WITH
       Block <- WriterBlock, lpSerializer <- wSerializer, client <- wClient,
       lpTopOfStack <- wStack, at <- wAt, status <- wStatus, heap <- wHeap

R == INSTANCE CjsonParser WITH
       Byte <- 0 .. 255, Block <- ReaderBlock, AllocMayFail <- FALSE,
       Config <- {[flags |-> {}, callback |-> FALSE]}, CallbackResult <- {"Ok"},
       MaxString <- 1000,
       lpParser <- rParser, dwFlags <- rFlags, callback <- rCallback,
       lpStateStack <- rStack, lpChildResult <- rChild, bByte <- rByte,
       status <- rStatus, heap <- rHeap, documents <- rDocuments, roots <- rRoots,
       oom <- rOom

-----------------------------------------------------------------------------
Init == W!Init /\ R!Init /\ fed = 0

(* The parser has dealt with every byte the callback has taken. *)
Quiet == fed = Len(out) /\ rByte = R!None
Kept(what) == UNCHANGED <<what, fed>>

Open == /\ \E c \in Client : W!cjsonSerializer_Create(c)
        /\ wStatus' = "Ok"
        /\ R!cjsonParserCreate([flags |-> {}, callback |-> FALSE])
        /\ UNCHANGED fed

(* One document for each pair. *)
Begin == /\ doc = W!None /\ Kept(rvars)
         /\ \E n \in wClient.roots : W!cjsonSerializer_Serialize(n)

Serialize == Quiet /\ (W!Step \/ W!cjsonSerializer_Continue) /\ Kept(rvars)

Feed == /\ fed < Len(out) /\ R!cjsonParserProcessByte(out[fed + 1])
        /\ fed' = fed + 1 /\ UNCHANGED wvars

Parse == R!ProcessOne /\ Kept(wvars)

(* Both are released, wherever the document is. *)
Close == /\ Quiet /\ W!cjsonSerializer_Release /\ wStatus' = "Ok"
         /\ R!cjsonParserRelease /\ fed' = 0

Next == Open \/ Begin \/ Serialize \/ Feed \/ Parse \/ Close

Spec == Init /\ [][Next]_vars

-----------------------------------------------------------------------------
(* The parser understands whatever the serializer writes: it accepts each    *)
(* byte, and it has a root value exactly when the document is complete.      *)
Understood ==
  /\ rStatus \in {"Ok", "Finished"}
  /\ Quiet => (rStatus = "Finished" <=> doc # W!None /\ wStack = <<>>)

(* A string comes out of the parser as it went into the serializer, through  *)
(* escapes on one side and their decoding on the other.                      *)
StringsArrive ==
  Quiet /\ doc # W!None /\ wStack = <<>> /\ Tree[doc].type = "String"
  => rChild.str = W!Bytes(Tree[doc])

(* The two stacks stay in step: below the value that is being written each   *)
(* container of the serializer is one of the parser, and an object of the    *)
(* parser waits for its value under the very key the serializer is writing.  *)
InStep ==
  Quiet => \A i \in 1 .. Len(wStack) - 1 :
    /\ i <= Len(rStack) /\ rStack[i].type = wStack[i].type
    /\ wStack[i].type = "Object" /\ wStack[i].state = "Value" =>
         rStack[i].lpCurrentKey.str = W!Bytes(W!Member(wStack[i]).key)
=============================================================================
