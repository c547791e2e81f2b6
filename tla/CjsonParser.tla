---------------------------- MODULE CjsonParser ----------------------------
(***************************************************************************)
(* The incremental parser of cjsonParser.c together with the client that   *)
(* owns it.  The client creates the parser, hands it one byte per call of  *)
(* cjsonParserProcessByte, receives the documents through its callback,    *)
(* may release parser and documents whenever no call is running, and stops *)
(* feeding after the first error.  Finished and AlreadyFinished only say   *)
(* that the root element is complete: after them it may go on.             *)
(*                                                                         *)
(* A call is the for(;;) loop of cjsonParserProcessByte: ProcessByte       *)
(* enters it with bByte set, every handler action is one iteration, and    *)
(* the call returns when bByte is None again.  A handler that answers      *)
(* cjsonE_OkRedeliver leaves bByte in place for the next iteration.        *)
(*                                                                         *)
(* Memory is a finite pool of blocks, one block per allocation.  What a    *)
(* parsed value contains is abstracted to the blocks its tree occupies;    *)
(* only the bytes of a string, which become the keys of objects, are kept. *)
(***************************************************************************)
EXTENDS Integers, Sequences, FiniteSets, CjsonNumerals

CONSTANTS
  Byte,            \* the bytes the client may feed
  Block,           \* the memory pool
  Config,          \* the arguments of cjsonParserCreate the client may choose
  CallbackResult,  \* what the document callback may return
  AllocMayFail,    \* may an allocation fail before the pool is exhausted?
  StringPage,      \* bytes per page of a string buffer
  ArrayPage,       \* entries per page of an array
  MaxString        \* bound: no string is fed beyond this many bytes

Flag == {"STREAMINGMODE", "ALLOWDUPLICATEKEYS", "INTERNAL_DONE"}

ASSUME ByteAssumption == Byte \subseteq Octet
ASSUME ConfigAssumption ==
  Config \subseteq [flags : SUBSET (Flag \ {"INTERNAL_DONE"}), callback : BOOLEAN]
ASSUME CallbackAssumption == CallbackResult \subseteq {"Ok", "UserError"}
ASSUME AllocAssumption == AllocMayFail \in BOOLEAN
(* A \u escape adds up to three bytes and must need at most one new page. *)
ASSUME PageAssumption == StringPage \in Nat /\ StringPage >= 3
                         /\ ArrayPage \in Nat \ {0} /\ MaxString \in Nat

VARIABLES
  lpParser,        \* the block of struct cjsonParser; {} when there is none
  dwFlags,         \* the flags set in it
  callback,        \* is callbackDocumentReady non-NULL?
  lpStateStack,    \* its state stack, the top at the end
  lpChildResult,   \* the value the last finished child left behind
  bByte,           \* the byte being processed, None between calls
  status,          \* what the last call returned
  heap,            \* the blocks that are allocated
  documents,       \* the documents the client owns, each as its set of blocks
  roots,           \* history: root values this parser completed (0, 1, 2 = more)
  oom              \* history: an allocation failed under this parser

vars == <<lpParser, dwFlags, callback, lpStateStack, lpChildResult, bByte,
          status, heap, documents, roots, oom>>

None == -1

(* The answers after which the client goes on feeding. *)
Resumable == {"Ok", "Finished", "AlreadyFinished"}
Status == Resumable \cup {"InvalidParam", "OutOfMemory", "EncodingError",
                          "ImplementationError", "UserError"}

-----------------------------------------------------------------------------
(* A value is the string it spells, if it is one, and the blocks of its tree. *)
Text    == Seq(Octet)
Value   == [str : Text, mem : SUBSET Block]
NoValue == [str |-> <<>>, mem |-> {}]
Leaf(b) == [str |-> <<>>, mem |-> {b}]
IsNull(v) == v.mem = {}

(* What is left in lpChildResult once its value v has been handed on. *)
TakenNotCleared(v) == v                                           \* mutant
Taken(v) == NoValue

(* The stack elements.  elm is the block of the element itself, mem what its *)
(* buffer, object or array occupies.                                         *)
ConstantFrame == [type : {"Constant"}, elm : Block,
                  elmType : DOMAIN Literal, dwMatchedBytes : 1 .. 5]
StringFrame   == [type : {"String"}, elm : Block, mem : SUBSET Block,
                  state : {"Normal", "Escaped", "UTF16Codepoint"},
                  dwUBytes : 0 .. 4, dwUCodepoint : CodeUnit, buf : Text]
NumberFrame   == [type : {"Number"}, elm : Block, state : NumberState]
Entry         == [key : Text, mem : SUBSET Block]
ObjectFrame   == [type : {"Object"}, elm : Block, mem : SUBSET Block,
                  state : {"ExpectKey", "ReadKey", "ExpectObject", "ReadObject"},
                  dwReadObjects : {0}, lpCurrentKey : Value, entries : SUBSET Entry]
ArrayFrame    == [type : {"Array"}, elm : Block, mem : SUBSET Block,
                  state : {"NoComma", "GotComma"}, dwElementCount : Nat]
Frame == ConstantFrame \cup StringFrame \cup NumberFrame \cup ObjectFrame \cup ArrayFrame

(* The blocks that go when the element is cleaned up by cjsonParserRelease. *)
FrameMem(f) == {f.elm} \cup
  CASE f.type \in {"String", "Array"} -> f.mem
    [] f.type = "Object"              -> f.mem \cup f.lpCurrentKey.mem
    [] OTHER                          -> {}

Top == lpStateStack[Len(lpStateStack)]
SetTop(f) == [lpStateStack EXCEPT ![Len(lpStateStack)] = f]
Below == SubSeq(lpStateStack, 1, Len(lpStateStack) - 1)

-----------------------------------------------------------------------------
(* cjsonParserMallocHelper over the pool: h is the set of live blocks. *)
CanAlloc(h) == Block \ h # {}
CanFail(h)  == AllocMayFail \/ Block \ h = {}
Fresh(h)    == CHOOSE b \in Block : b \notin h

(* The outcome of one loop iteration.  A quiet caller (the number parser)   *)
(* ignores the result of StateStackPop and has its byte redelivered.        *)
Return(e, quiet) == IF quiet THEN UNCHANGED <<status, bByte>>
                             ELSE status' = e /\ bByte' = None
State(stk, v, h) == lpStateStack' = stk /\ lpChildResult' = v /\ heap' = h
NoDelivery == UNCHANGED <<lpParser, callback, dwFlags, documents, roots>>

Done(stk, v, h, e, quiet) ==
  State(stk, v, h) /\ Return(e, quiet) /\ NoDelivery /\ UNCHANGED oom
OutOfMemory(stk, v, h, quiet) ==
  State(stk, v, h) /\ Return("OutOfMemory", quiet) /\ NoDelivery /\ oom' = TRUE

(* The common short answers of the handlers. *)
Accept(stk) == Done(stk, lpChildResult, heap, "Ok", FALSE)
Reject      == Done(lpStateStack, lpChildResult, heap, "EncodingError", FALSE)

-----------------------------------------------------------------------------
(* cjsonObject_Set on the object of frame f: an entry for the key is always  *)
(* allocated first; when the key is there already the old value and the new  *)
(* entry are released, the old entry is kept.                                *)
Same(f) == {x \in f.entries : x.key = f.lpCurrentKey.str}
Old(f)  == UNION {x.mem : x \in Same(f)}

ObjectStore(f, entry, v) ==
  [f EXCEPT !.mem = (f.mem \ Old(f)) \cup v.mem \cup (IF Same(f) = {} THEN {entry} ELSE {}),
            !.entries = (f.entries \ Same(f))
                        \cup {[key |-> f.lpCurrentKey.str, mem |-> v.mem]}]
ObjectStoreHeapOldKept(f, h, entry) ==                            \* mutant
  h \cup (IF Same(f) = {} THEN {entry} ELSE {})
ObjectStoreHeap(f, h, entry) ==
  (h \ Old(f)) \cup (IF Same(f) = {} THEN {entry} ELSE {})

ForgetKeyNotCleared(f) == f                                       \* mutant
ForgetKey(f) == [f EXCEPT !.lpCurrentKey = NoValue]

(* cjsonParser_Object_PopNotify: f is the object on top of stk once its     *)
(* child v is finished.  In ReadKey the key is copied and the string value   *)
(* released; in ReadObject the value is stored and the key copy freed.       *)
Key_PopNotifyUnchecked(stk, v, h, quiet) ==                       \* mutant
  LET n == Len(stk)
      key == [str |-> v.str, mem |-> {Fresh(h)}]
  IN \/ /\ CanAlloc(h)
        /\ Done([stk EXCEPT ![n] = [stk[n] EXCEPT !.lpCurrentKey = key]],
                Taken(v), (h \cup {Fresh(h)}) \ v.mem, "Ok", quiet)
     \/ CanFail(h) /\ OutOfMemory(stk, v, h, TRUE)
Key_PopNotify(stk, v, h, quiet) ==
  LET n == Len(stk)
      key == [str |-> v.str, mem |-> {Fresh(h)}]
  IN \/ /\ CanAlloc(h)
        /\ Done([stk EXCEPT ![n] = [stk[n] EXCEPT !.lpCurrentKey = key]],
                Taken(v), (h \cup {Fresh(h)}) \ v.mem, "Ok", quiet)
     \/ CanFail(h) /\ OutOfMemory(stk, v, h, quiet)

Member_PopNotify(stk, v, h, quiet) ==
  LET n == Len(stk)
      f == stk[n]
  IN \/ /\ CanAlloc(h)
        /\ Done([stk EXCEPT ![n] = ForgetKey(ObjectStore(f, Fresh(h), v))], Taken(v),
                ObjectStoreHeap(f, h, Fresh(h)) \ f.lpCurrentKey.mem, "Ok", quiet)
     \/ /\ CanFail(h)
        /\ OutOfMemory([stk EXCEPT ![n] = ForgetKey(f)], Taken(v),
                       h \ (v.mem \cup f.lpCurrentKey.mem), quiet)

Object_PopNotify(stk, v, h, quiet) ==
  IF stk[Len(stk)].state = "ReadKey" THEN Key_PopNotify(stk, v, h, quiet)
  ELSE IF stk[Len(stk)].state = "ReadObject" THEN Member_PopNotify(stk, v, h, quiet)
  ELSE Done(stk, v, h, "ImplementationError", quiet)

(* cjsonArray_Push needs a new page when the last one is full. *)
PageFull(f) == f.dwElementCount % ArrayPage = 0
ArrayStore(f, page, v) == [f EXCEPT !.mem = f.mem \cup page \cup v.mem,
                                    !.dwElementCount = f.dwElementCount + 1]

(* cjsonParser_Array_PopNotify: the child goes into the array.  When the    *)
(* page cannot be allocated the pointer to the child is dropped all the same. *)
Array_PopNotify(stk, v, h, quiet) ==
  LET n == Len(stk)
      f == stk[n]
      Stored(page) == Done([stk EXCEPT ![n] = ArrayStore(f, page, v)], Taken(v),
                           h \cup page, "Ok", quiet)
  IN IF IsNull(v) THEN Done(stk, v, h, "ImplementationError", quiet)
     ELSE \/ ~PageFull(f) /\ Stored({})
          \/ PageFull(f) /\ CanAlloc(h) /\ Stored({Fresh(h)})
          \/ PageFull(f) /\ CanFail(h) /\ OutOfMemory(stk, Taken(v), h, quiet)

(* cjsonParser_Universe_PopNotify: a root value is complete.  With a        *)
(* callback it is handed over whatever the callback answers; without one it  *)
(* stays in lpChildResult.                                                   *)
Universe_PopNotify(stk, v, h, quiet) ==
  /\ roots' = IF roots < 2 THEN roots + 1 ELSE roots
  /\ IF callback /\ ~IsNull(v)
       THEN /\ documents' = documents \cup {v.mem}
            /\ dwFlags' = IF "STREAMINGMODE" \in dwFlags THEN dwFlags
                          ELSE dwFlags \cup {"INTERNAL_DONE"}
            /\ State(stk, Taken(v), h)
            /\ \E e \in CallbackResult : Return(e, quiet)
       ELSE /\ UNCHANGED <<documents, dwFlags>>
            /\ State(stk, v, h)
            /\ Return("Finished", quiet)
  /\ UNCHANGED <<lpParser, callback, oom>>

(* cjsonParser_StateStackPop: the element itself is freed (its data already  *)
(* is, or lives on in v) and the new top of the stack, or the universe, is   *)
(* notified of the child.                                                    *)
StateStackPop(v, h, quiet) ==
  LET rest == h \ {Top.elm}
      type == Below[Len(Below)].type
  IN IF Below = << >> THEN Universe_PopNotify(Below, v, rest, quiet)
     ELSE IF type = "Object" THEN Object_PopNotify(Below, v, rest, quiet)
     ELSE IF type = "Array" THEN Array_PopNotify(Below, v, rest, quiet)
     ELSE Done(Below, v, rest, "ImplementationError", quiet)

-----------------------------------------------------------------------------
(* The _Push functions.  stk is the stack with the parent's own state change. *)
NewConstant(b, t) == [type |-> "Constant", elm |-> b, elmType |-> t, dwMatchedBytes |-> 1]
NewString(b) == [type |-> "String", elm |-> b, mem |-> {}, state |-> "Normal",
                 dwUBytes |-> 0, dwUCodepoint |-> 0, buf |-> <<>>]
NewNumber(b) == [type |-> "Number", elm |-> b, state |-> "FirstSymbol"]
NewObject(b, o) == [type |-> "Object", elm |-> b, mem |-> {o}, state |-> "ExpectKey",
                    dwReadObjects |-> 0, lpCurrentKey |-> NoValue, entries |-> {}]
NewArray(b, a) == [type |-> "Array", elm |-> b, mem |-> {a}, state |-> "NoComma",
                   dwElementCount |-> 0]

Push(stk, f, h, redeliver) ==
  Done(Append(stk, f), lpChildResult, h, "Ok", redeliver)

Constant_Push(stk, t) ==
  \/ CanAlloc(heap) /\ Push(stk, NewConstant(Fresh(heap), t), heap \cup {Fresh(heap)}, FALSE)
  \/ CanFail(heap) /\ OutOfMemory(stk, lpChildResult, heap, FALSE)

String_Push(stk) ==
  \/ CanAlloc(heap) /\ Push(stk, NewString(Fresh(heap)), heap \cup {Fresh(heap)}, FALSE)
  \/ CanFail(heap) /\ OutOfMemory(stk, lpChildResult, heap, FALSE)

(* The first byte of a number is redelivered to the new element. *)
Number_PushNoRedeliver(stk) ==                                    \* mutant
  \/ CanAlloc(heap) /\ Push(stk, NewNumber(Fresh(heap)), heap \cup {Fresh(heap)}, FALSE)
  \/ CanFail(heap) /\ OutOfMemory(stk, lpChildResult, heap, FALSE)
Number_Push(stk) ==
  \/ CanAlloc(heap) /\ Push(stk, NewNumber(Fresh(heap)), heap \cup {Fresh(heap)}, TRUE)
  \/ CanFail(heap) /\ OutOfMemory(stk, lpChildResult, heap, FALSE)

(* Two allocations, the element and its container; when the second fails the *)
(* first is freed again.                                                     *)
First  == Fresh(heap)
Second == Fresh(heap \cup {First})

CanAllocBoth == \E b \in Block \ heap : CanAlloc(heap \cup {b})

Container_Push(stk, f) ==
  \/ CanAllocBoth /\ Push(stk, f, heap \cup {First, Second}, FALSE)
  \/ /\ AllocMayFail \/ ~CanAllocBoth
     /\ OutOfMemory(stk, lpChildResult, heap, FALSE)

Object_Push(stk) == Container_Push(stk, NewObject(First, Second))
Array_Push(stk)  == Container_Push(stk, NewArray(First, Second))

(* The cases Universe, Object and Array share: byte b starts a value. *)
ValueStart == {LBrace, LBracket, Quote, LetterT, LetterF, LetterN, Minus} \cup Digit

StartValue(stk, b) ==
  \/ b = LBrace   /\ Object_Push(stk)
  \/ b = LBracket /\ Array_Push(stk)
  \/ b = Quote    /\ String_Push(stk)
  \/ b = LetterT  /\ Constant_Push(stk, "True")
  \/ b = LetterF  /\ Constant_Push(stk, "False")
  \/ b = LetterN  /\ Constant_Push(stk, "Null")
  \/ b \in Digit \cup {Minus} /\ Number_Push(stk)

-----------------------------------------------------------------------------
(* The handlers, one per state of cjsonParserProcessByte's dispatch. *)
Handling(type) ==
  /\ bByte # None
  /\ lpStateStack # << >>
  /\ Top.type = type

Universe_ProcessByte ==
  /\ bByte # None
  /\ lpStateStack = << >>
  /\ \/ StartValue(lpStateStack, bByte)
     \/ bByte \in Whitespace /\ Accept(lpStateStack)
     \/ bByte \notin ValueStart \cup Whitespace /\ Reject

(* The last byte of a constant replaces whatever lpChildResult still holds. *)
Constant_ProcessByte ==
  /\ Handling("Constant")
  /\ LET literal == Literal[Top.elmType]
         n   == Top.dwMatchedBytes
         stk == SetTop([Top EXCEPT !.dwMatchedBytes = n + 1])
         h   == heap \ lpChildResult.mem
     IN \/ bByte # literal[n + 1] /\ Reject
        \/ bByte = literal[n + 1] /\ n + 1 < Len(literal) /\ Accept(stk)
        \/ /\ bByte = literal[n + 1] /\ n + 1 = Len(literal)
           /\ \/ CanAlloc(h) /\ StateStackPop(Leaf(Fresh(h)), h \cup {Fresh(h)}, FALSE)
              \/ CanFail(h) /\ OutOfMemory(stk, NoValue, h, FALSE)

(* cjsonParser_BufferChain_PushByte for each of the bytes, until a page is   *)
(* missing.  Room is what the last page still takes.                         *)
RoomPageEnd(f) == StringPage - (Len(f.buf) % StringPage)          \* mutant
Room(f) == (StringPage - (Len(f.buf) % StringPage)) % StringPage

Buffered(f, bytes, page) == [f EXCEPT !.buf = f.buf \o bytes, !.mem = f.mem \cup page]

PushBytes(f, bytes, onFailure) ==
  LET full(page) == SetTop([Buffered(f, bytes, page) EXCEPT !.state = "Normal"])
      part       == SubSeq(bytes, 1, Room(f))
  IN \/ /\ Len(bytes) <= Room(f)
        /\ Accept(full({}))
     \/ /\ Len(bytes) > Room(f) /\ CanAlloc(heap)
        /\ Done(full({Fresh(heap)}), lpChildResult, heap \cup {Fresh(heap)}, "Ok", FALSE)
     \/ /\ Len(bytes) > Room(f) /\ CanFail(heap)
        /\ OutOfMemory(SetTop([Buffered(f, part, {}) EXCEPT !.state = onFailure]),
                       lpChildResult, heap, FALSE)

(* End of string: the value is allocated before the old child is released.   *)
String_Finish(f) ==
  LET v == [str |-> f.buf, mem |-> {First}]
  IN \/ /\ CanAlloc(heap)
        /\ StateStackPop(v, (heap \cup {First}) \ (lpChildResult.mem \cup f.mem), FALSE)
     \/ /\ CanFail(heap)
        /\ OutOfMemory(lpStateStack, lpChildResult, heap, FALSE)

String_Normal(f) ==
  \/ bByte = Backslash /\ Accept(SetTop([f EXCEPT !.state = "Escaped"]))
  \/ bByte \notin {Backslash, Quote} /\ PushBytes(f, <<bByte>>, "Normal")
  \/ bByte = Quote /\ String_Finish(f)

(* \u begins: the digit counter and the code unit start from zero. *)
StartCodepointNoReset(f) == [f EXCEPT !.state = "UTF16Codepoint"] \* mutant
StartCodepoint(f) ==
  [f EXCEPT !.state = "UTF16Codepoint", !.dwUBytes = 0, !.dwUCodepoint = 0]

String_Escaped(f) ==
  \/ /\ bByte \in DOMAIN Unescaped
     /\ PushBytes(f, <<Unescaped[bByte]>>, "Normal")
  \/ bByte = LetterU /\ Accept(SetTop(StartCodepoint(f)))
  \/ bByte \notin DOMAIN Unescaped \cup {LetterU} /\ Reject

(* After the fourth digit the code unit is encoded; when a page is missing   *)
(* the element stays in this state with part of the encoding buffered.       *)
String_UTF16Codepoint(f) ==
  LET g == [f EXCEPT !.dwUBytes = f.dwUBytes + 1,
                     !.dwUCodepoint = f.dwUCodepoint * 16 + HexValue(bByte)]
  IN \/ bByte \notin HexDigit /\ Reject
     \/ bByte \in HexDigit /\ g.dwUBytes < 4 /\ Accept(SetTop(g))
     \/ /\ bByte \in HexDigit /\ g.dwUBytes >= 4
        /\ PushBytes(g, Utf8(g.dwUCodepoint), "UTF16Codepoint")

String_ProcessByte ==
  /\ Handling("String")
  /\ \/ Top.state = "Normal" /\ String_Normal(Top)
     \/ Top.state = "Escaped" /\ String_Escaped(Top)
     \/ Top.state = "UTF16Codepoint" /\ String_UTF16Codepoint(Top)

(* cjsonNumber_Create overwrites lpChildResult, then the element is popped   *)
(* without a look at what StateStackPop returns and the byte goes to the     *)
(* parent.                                                                   *)
Number_FinishUnchecked ==                                         \* mutant
  \/ CanAlloc(heap) /\ StateStackPop(Leaf(First), heap \cup {First}, TRUE)
  \/ CanFail(heap) /\ OutOfMemory(lpStateStack, NoValue, heap, TRUE)
Number_Finish ==
  \/ CanAlloc(heap) /\ StateStackPop(Leaf(First), heap \cup {First}, TRUE)
  \/ CanFail(heap) /\ OutOfMemory(lpStateStack, NoValue, heap, FALSE)

Number_ProcessByte ==
  /\ Handling("Number")
  /\ LET next == NumberNext(Top.state, bByte)
     IN \/ next \in NumberState /\ Accept(SetTop([Top EXCEPT !.state = next]))
        \/ next = "finish" /\ Number_Finish
        \/ next = "error" /\ Reject

(* An array or an object is complete: its value overwrites lpChildResult. *)
Container_Finish(f) == StateStackPop([str |-> <<>>, mem |-> f.mem], heap, FALSE)

(* A quote where a key is expected: the string to come is the key. *)
AwaitKeyForgotten(f) == f                                         \* mutant
AwaitKey(f) == [f EXCEPT !.state = "ReadKey"]

MayBeEmpty(f) == f.dwReadObjects = 0

Object_ExpectKey(f) ==
  \/ bByte = Quote /\ String_Push(SetTop(AwaitKey(f)))
  \/ bByte \in Whitespace /\ Accept(lpStateStack)
  \/ bByte = RBrace /\ MayBeEmpty(f) /\ Container_Finish(f)
  \/ /\ bByte \notin Whitespace \cup {Quote}
     /\ bByte = RBrace => ~MayBeEmpty(f)
     /\ Reject

Object_ReadKey(f) ==
  \/ bByte = Colon /\ Accept(SetTop([f EXCEPT !.state = "ExpectObject"]))
  \/ bByte \in Whitespace /\ Accept(lpStateStack)
  \/ bByte \notin Whitespace \cup {Colon} /\ Reject

Object_ExpectObject(f) ==
  \/ StartValue(SetTop([f EXCEPT !.state = "ReadObject"]), bByte)
  \/ bByte \in Whitespace /\ Accept(lpStateStack)
  \/ bByte \notin Whitespace \cup ValueStart /\ Reject

Object_ReadObject(f) ==
  \/ bByte = Comma /\ Accept(SetTop([f EXCEPT !.state = "ExpectKey"]))
  \/ bByte = RBrace /\ Container_Finish(f)
  \/ bByte \in Whitespace /\ Accept(lpStateStack)
  \/ bByte \notin Whitespace \cup {Comma, RBrace} /\ Reject

Object_ProcessByte ==
  /\ Handling("Object")
  /\ \/ Top.state = "ExpectKey" /\ Object_ExpectKey(Top)
     \/ Top.state = "ReadKey" /\ Object_ReadKey(Top)
     \/ Top.state = "ExpectObject" /\ Object_ExpectObject(Top)
     \/ Top.state = "ReadObject" /\ Object_ReadObject(Top)

(* A comma counts only after an element, the bracket only without a comma;   *)
(* a value may start anywhere and forgets the comma.                         *)
CommaAllowedAnywhere(f) == f.state = "NoComma"                    \* mutant
CommaAllowed(f) == f.state = "NoComma" /\ f.dwElementCount > 0
CloseAllowed(f) == f.state = "NoComma"

Array_ProcessByte ==
  /\ Handling("Array")
  /\ \/ StartValue(SetTop([Top EXCEPT !.state = "NoComma"]), bByte)
     \/ bByte \in Whitespace /\ Accept(lpStateStack)
     \/ /\ bByte = Comma /\ CommaAllowed(Top)
        /\ Accept(SetTop([Top EXCEPT !.state = "GotComma"]))
     \/ bByte = RBracket /\ CloseAllowed(Top) /\ Container_Finish(Top)
     \/ /\ \/ bByte = Comma /\ ~CommaAllowed(Top)
           \/ bByte = RBracket /\ ~CloseAllowed(Top)
           \/ bByte \notin ValueStart \cup Whitespace \cup {Comma, RBracket}
        /\ Reject

-----------------------------------------------------------------------------
(* The client. *)
Init ==
  /\ lpParser = {} /\ dwFlags = {} /\ callback = FALSE
  /\ lpStateStack = << >> /\ lpChildResult = NoValue
  /\ bByte = None /\ status = "Ok"
  /\ heap = {} /\ documents = {} /\ roots = 0 /\ oom = FALSE

Refused(c) == "STREAMINGMODE" \in c.flags /\ ~c.callback

cjsonParserCreate(c) ==
  /\ lpParser = {}
  /\ roots' = 0 /\ UNCHANGED <<lpStateStack, lpChildResult, bByte, documents>>
  /\ \/ /\ Refused(c)
        /\ status' = "InvalidParam" /\ oom' = FALSE
        /\ UNCHANGED <<lpParser, dwFlags, callback, heap>>
     \/ /\ ~Refused(c) /\ CanFail(heap)
        /\ status' = "OutOfMemory" /\ oom' = TRUE
        /\ UNCHANGED <<lpParser, dwFlags, callback, heap>>
     \/ /\ ~Refused(c) /\ CanAlloc(heap)
        /\ status' = "Ok" /\ oom' = FALSE
        /\ lpParser' = {First} /\ heap' = heap \cup {First}
        /\ dwFlags' = c.flags /\ callback' = c.callback

Idle == lpParser # {} /\ bByte = None

(* MaxString: the client does not make a string longer than the bound. *)
StringBound(b) ==
  (lpStateStack # << >> /\ Top.type = "String" /\ b # Quote) => Len(Top.buf) < MaxString

(* Once the root element is complete only whitespace gets past the check. *)
AlreadyDoneUnchecked(b) == FALSE                                  \* mutant
AlreadyDone(b) == b \notin Whitespace /\ "INTERNAL_DONE" \in dwFlags

cjsonParserProcessByte(b) ==
  /\ Idle /\ status \in Resumable /\ StringBound(b)
  /\ \/ /\ AlreadyDone(b)
        /\ status' = "AlreadyFinished" /\ bByte' = None
     \/ /\ ~AlreadyDone(b)
        /\ bByte' = b /\ UNCHANGED status
  /\ UNCHANGED <<lpParser, dwFlags, callback, lpStateStack, lpChildResult,
                 heap, documents, roots, oom>>

(* Everything the parser holds: what cjsonParserRelease walks and frees. *)
ParserMem == lpParser \cup lpChildResult.mem
             \cup UNION {FrameMem(lpStateStack[i]) : i \in 1 .. Len(lpStateStack)}

cjsonParserRelease ==
  /\ Idle
  /\ heap' = heap \ ParserMem
  /\ lpParser' = {} /\ lpStateStack' = << >> /\ lpChildResult' = NoValue
  /\ dwFlags' = {} /\ callback' = FALSE /\ status' = "Ok"
  /\ roots' = 0 /\ oom' = FALSE
  /\ UNCHANGED <<bByte, documents>>

(* cjsonReleaseValue by the client on a document the callback received. *)
cjsonReleaseValue(d) ==
  /\ bByte = None
  /\ documents' = documents \ {d} /\ heap' = heap \ d
  /\ UNCHANGED <<lpParser, dwFlags, callback, lpStateStack, lpChildResult,
                 bByte, status, roots, oom>>

ProcessOne == \/ Universe_ProcessByte \/ Constant_ProcessByte \/ String_ProcessByte
              \/ Number_ProcessByte \/ Object_ProcessByte \/ Array_ProcessByte

Next == \/ \E c \in Config : cjsonParserCreate(c)
        \/ \E b \in Byte : cjsonParserProcessByte(b)
        \/ ProcessOne
        \/ cjsonParserRelease
        \/ \E d \in documents : cjsonReleaseValue(d)

Spec == Init /\ [][Next]_vars

(* A running call is a C function: it keeps executing its loop. *)
LiveSpec == Spec /\ WF_vars(ProcessOne)

-----------------------------------------------------------------------------
(* Type invariant of the parser and its client. *)
TypeOK ==
  /\ lpParser \in SUBSET Block /\ dwFlags \in SUBSET Flag /\ callback \in BOOLEAN
  /\ lpStateStack \in Seq(Frame) /\ lpChildResult \in Value
  /\ bByte \in Byte \cup {None} /\ status \in Status
  /\ heap \in SUBSET Block /\ documents \in SUBSET (SUBSET Block)
  /\ roots \in 0 .. 2 /\ oom \in BOOLEAN

(* No sequence of bytes, allocation failures and callback answers reaches    *)
(* one of the "this cannot happen" exits of the parser: a child popping into *)
(* a constant, a string or a number, into an object that is not waiting for  *)
(* one, or an array child that is NULL.                                      *)
NoImplementationError == status # "ImplementationError"

(* The nesting discipline behind it.  Only containers have something above   *)
(* them: an object waits for its key, which is the string on top of the      *)
(* stack, or for the value of its current key; an array has forgotten its    *)
(* comma.  A comma was only ever taken after an element.                     *)
IsTop(i) == i = Len(lpStateStack)
WellNested ==
  \A i \in 1 .. Len(lpStateStack) :
    LET f == lpStateStack[i]
    IN /\ ~IsTop(i) =>
            \/ f.type = "Array" /\ f.state = "NoComma"
            \/ f.type = "Object" /\ f.state = "ReadObject"
            \/ /\ f.type = "Object" /\ f.state = "ReadKey"
               /\ IsTop(i + 1) /\ lpStateStack[i + 1].type = "String"
       /\ f.type = "Array" /\ f.state = "GotComma" => f.dwElementCount > 0

(* The copy of the key lives exactly from the end of the key to the moment   *)
(* its value is stored: never missing when cjsonObject_Set reads it, never   *)
(* still there when the next key or the end of the object overwrites it.     *)
KeyHeld ==
  status \in Resumable =>
    \A i \in 1 .. Len(lpStateStack) :
      LET f == lpStateStack[i]
      IN f.type = "Object" =>
           (f.lpCurrentKey.mem # {} <=>
              \/ f.state = "ExpectObject"
              \/ f.state = "ReadKey" /\ IsTop(i)
              \/ f.state = "ReadObject" /\ ~IsTop(i))

(* Everybody who holds memory: the parser, its child result, every stack     *)
(* element and the client's documents.                                       *)
Owner == {<<"parser">>, <<"child">>}
         \cup {<<"frame", i>> : i \in 1 .. Len(lpStateStack)}
         \cup {<<"document", d>> : d \in documents}
Held(o) == CASE o[1] = "parser"   -> lpParser
             [] o[1] = "child"    -> lpChildResult.mem
             [] o[1] = "frame"    -> FrameMem(lpStateStack[o[2]])
             [] o[1] = "document" -> o[2]

(* No dangling pointer and no double free: every block that is held is       *)
(* allocated, and no block has two holders who would both free it.           *)
NoDangling ==
  /\ \A o \in Owner : Held(o) \subseteq heap
  /\ \A o, p \in Owner : o # p => Held(o) \cap Held(p) = {}

(* A block that nobody holds is lost.  With a document callback and without  *)
(* allocation failures no step loses one: whatever the text and wherever it  *)
(* is abandoned, every block is freed or still reachable.                    *)
Lost == heap \ UNION {Held(o) : o \in Owner}
LeakFree == [][callback /\ ~oom' => Lost' \subseteq Lost]_vars

(* A \u escape never collects more than its four digits while the client     *)
(* goes on, and d digits are worth less than 16^d: the code unit fits 16 bits *)
(* and is encoded in at most three bytes.                                    *)
Worth(d) == CASE d = 0 -> 1 [] d = 1 -> 16 [] d = 2 -> 256 [] OTHER -> 4096
UnitBounded(f) ==
  f.type = "String" /\ f.state = "UTF16Codepoint" =>
    f.dwUBytes <= 3 /\ f.dwUCodepoint < Worth(f.dwUBytes)
CodepointBounded ==
  status \in Resumable =>
    \A i \in 1 .. Len(lpStateStack) : UnitBounded(lpStateStack[i])

(* A string buffer occupies as many pages as its bytes need, also after a    *)
(* \u escape of which only some bytes found room.                            *)
PagesExact ==
  \A i \in 1 .. Len(lpStateStack) :
    LET f == lpStateStack[i]
    IN f.type = "String" =>
         Cardinality(f.mem) = (Len(f.buf) + StringPage - 1) \div StringPage

(* A number element that has not seen its first symbol exists only inside    *)
(* the call that delivers it, and that byte is one it accepts.               *)
NumberStarts ==
  \A i \in 1 .. Len(lpStateStack) :
    LET f == lpStateStack[i]
    IN f.type = "Number" /\ f.state = "FirstSymbol" => bByte \in Digit \cup {Minus}

(* Outside streaming mode one root value is all a parser with a callback     *)
(* completes, for texts without a minus: a minus that ends a root number     *)
(* starts a second one past the check of INTERNAL_DONE.                      *)
AtMostOneRoot == "STREAMINGMODE" \notin dwFlags => roots <= 1

(* A failed allocation is what the call that met it reports, in every        *)
(* handler, push and notification; only the end of a number swallows it.     *)
AllocFailureReported ==
  [][oom' /\ ~oom /\ (lpStateStack = << >> \/ Top.type # "Number")
     => status' = "OutOfMemory"]_vars

(* The redelivery loop terminates: every call returns.                       *)
CallReturns == bByte # None ~> bByte = None

=============================================================================
