-------------------------- MODULE CjsonSerializer --------------------------
(***************************************************************************)
(* The serializer of cjsonSerializer.c with the client that owns it and    *)
(* the write callback it talks to.  A call of Serialize or Continue runs   *)
(* while status is "Running": it takes the element on top of the stack     *)
(* again and again until the stack is empty or a handler fails, which the  *)
(* client may answer with Continue or with Release.                        *)
(*                                                                         *)
(* Between two writes a handler keeps nothing but the fields of its stack  *)
(* element, so going on after a successful write is the same as entering   *)
(* the handler again: each write is an action, chosen by those fields.     *)
(* The one exception is the trailer of an object, which only the code      *)
(* behind the loop of its handler writes: at tells where the call is.      *)
(*                                                                         *)
(* A document is a node of the constant Tree.  Line breaks and tabs are    *)
(* written like other bytes but are Blank, and are not kept in out.        *)
(***************************************************************************)
EXTENDS Integers, Sequences, FiniteSets, SequencesExt, CjsonBytes

CONSTANTS
  Tree,           \* the nodes of the documents and what they are
  Client,         \* the clients: their flag PRETTYPRINT, what they serialize,
                  \*   how their write callback may fail
  Block,          \* the memory pool
  AllocMayFail    \* may an allocation fail before the pool is exhausted?

Node == DOMAIN Tree
StringValue == [type : {"String"}, units : Seq(CodeUnit), tail : Seq(Octet)]

ASSUME TreeAssumption ==
  \A n \in Node :
    \/ Tree[n].type = "Constant" /\ Tree[n].value \in DOMAIN Literal
    \/ Tree[n].type = "Number" /\ Tree[n].digits \in Seq(Octet) \ {<<>>}
    \/ Tree[n].type = "String" /\ Tree[n] \in StringValue
    \/ Tree[n].type = "Array" /\ Tree[n].elements \in Seq(Node)
    \/ Tree[n].type = "Object" /\ Tree[n].members \in Seq([key : StringValue, value : Node])
ASSUME WriterAssumption ==
  /\ Client \subseteq [pretty : BOOLEAN, failure : {"never", "early", "late"},
                       roots : SUBSET Node]
  /\ AllocMayFail \in BOOLEAN

VARIABLES
  lpSerializer,   \* the block of struct cjsonSerializer; {} when there is none
  client,         \* the one it was created for
  lpTopOfStack,   \* its stack, the top at the end
  at,             \* "enter" a handler, in its endless loop "spin", or "behind" it
  status,         \* "Running", or what the last call returned
  heap,           \* the blocks that are allocated
  doc,            \* history: the root being written, None
  out             \* history: the bytes of it the callback has taken

vars == <<lpSerializer, client, lpTopOfStack, at, status, heap, doc, out>>

None  == -1
Blank == -2       \* a byte that only formats
Null  == -3       \* lpTempString is NULL
Wild  == -4       \* lpTempString has never been written
(* NULL and a stale pointer are no blocks. *)
ASSUME BlockAssumption == Null \notin Block /\ Wild \notin Block

(* The values an array or an object holds; no value lies inside itself. *)
Inside(n) == CASE Tree[n].type = "Array"  -> ToSet(Tree[n].elements)
               [] Tree[n].type = "Object" -> {m.value : m \in ToSet(Tree[n].members)}
               [] OTHER -> {}
ASSUME NodeAssumption ==
  /\ None \notin Node
  /\ \A T \in SUBSET Node : T # {} => \E n \in T : Inside(n) \cap T = {}

Status == {"Running", "Ok", "InvalidState", "InvalidParam", "OutOfMemory",
           "EncodingError", "ImplementationError", "UserError", "Undefined"}
Running == status = "Running"

-----------------------------------------------------------------------------
(* The stack elements; elm is the block of the element itself. *)
ConstantFrame == [type : {"Constant"}, elm : Block, text : Seq(Octet), dwBytesWritten : Nat]
NumberFrame   == [type : {"Number"}, elm : Block, bString : Seq(Octet), dwWritten : Nat]
StringFrame   == [type : {"String"}, elm : Block, temp : Block \cup {Null},
                  bData : Seq(Octet),
                  state : {"LeadingQuote", "Normal", "Escaped", "Unicode"},
                  dwCurrentIndex : Nat, bUnicodeBytes : Seq(Octet),
                  dwUnicodeBytesWritten : 0 .. 6]
ArrayFrame    == [type : {"Array"}, elm : Block, lpArray : Node, dwBytesWritten : Nat,
                  dwCurrentIndex : Nat, dwWrittenIndent : Nat, dwWrittenPast : 0 .. 2]
ObjectFrame   == [type : {"Object"}, elm : Block, lpObject : Node,
                  lpTempString : Block \cup {Null, Wild}, dwBytesWritten : Nat,
                  state : {"Header", "Key", "Value", "Trailer"},
                  lpCurrentBucketEntry : Nat]      \* in iteration order, 0 for NULL
Frame == ConstantFrame \cup NumberFrame \cup StringFrame \cup ArrayFrame \cup ObjectFrame

Top == lpTopOfStack[Len(lpTopOfStack)]
SetTop(f) == [lpTopOfStack EXCEPT ![Len(lpTopOfStack)] = f]
Below == SubSeq(lpTopOfStack, 1, Len(lpTopOfStack) - 1)
Elements(f) == Tree[f.lpArray].elements
Members(f)  == Tree[f.lpObject].members

(* CJSON_SERIALIZER__FLAG__PRETTYPRINT *)
pretty == client.pretty

(* dwStateStackDepth when pretty printing, which counts the stack. *)
IndentDepth == IF pretty THEN Len(lpTopOfStack) ELSE 0

(* snprintf is told that the buffer is as long as the digits: it puts the   *)
(* terminator where the last one belongs.                                   *)
Printed(digits) == SubSeq(digits, 1, Len(digits) - 1) \o <<0>>

(* A string is given by its code units, and by a tail of bytes that do not  *)
(* begin another one; its bytes are their UTF-8 encoding.                    *)
Bytes(v) == FlattenSeq([i \in DOMAIN v.units |-> Utf8(v.units[i])]) \o v.tail

NewString(b, temp, bytes) ==
  [type |-> "String", elm |-> b, temp |-> temp, bData |-> bytes, state |-> "LeadingQuote",
   dwCurrentIndex |-> 0, bUnicodeBytes |-> <<>>, dwUnicodeBytesWritten |-> 0]
NewFrame(n, b) ==
  LET v == Tree[n]
  IN CASE v.type = "Constant" ->
            [type |-> "Constant", elm |-> b, text |-> Literal[v.value], dwBytesWritten |-> 0]
       [] v.type = "Number" ->
            [type |-> "Number", elm |-> b, bString |-> Printed(v.digits), dwWritten |-> 0]
       [] v.type = "String" -> NewString(b, Null, Bytes(v))
       [] v.type = "Array" ->
            [type |-> "Array", elm |-> b, lpArray |-> n, dwBytesWritten |-> 0,
             dwCurrentIndex |-> 0, dwWrittenIndent |-> 0, dwWrittenPast |-> 0]
       [] v.type = "Object" ->
            [type |-> "Object", elm |-> b, lpObject |-> n, lpTempString |-> Wild,
             dwBytesWritten |-> 0, state |-> "Header", lpCurrentBucketEntry |-> 0]

-----------------------------------------------------------------------------
(* cjsonSerializer_MallocHelper over the pool. *)
CanAlloc == Block \ heap # {}
CanFail  == AllocMayFail \/ Block \ heap = {}
Fresh    == CHOOSE b \in Block : b \notin heap

Fixed == UNCHANGED <<lpSerializer, client, doc>>

(* A handler answers something other than Ok: the call returns it. *)
Return(e) == status' = e /\ at' = "enter"

Fail(e) == Return(e) /\ Fixed /\ UNCHANGED <<lpTopOfStack, heap, out>>

(* The handler goes on, or is entered again, with its element changed to f. *)
GoOn(f) == lpTopOfStack' = SetTop(f) /\ Fixed /\ UNCHANGED <<at, status, heap, out>>

(* cjsonSerializer_PopValue; with the stack empty the call succeeds. *)
Pop == /\ lpTopOfStack' = Below /\ heap' = heap \ {Top.elm}
       /\ at' = "enter"
       /\ status' = IF Below = <<>> THEN "Ok" ELSE status

(* cjsonSerializer_PushValue above the top, which is before when it fails and *)
(* after when it succeeds.                                                    *)
PushAbove(before, after, new(_)) ==
  /\ \/ /\ CanAlloc
        /\ lpTopOfStack' = Append(SetTop(after), new(Fresh))
        /\ heap' = heap \cup {Fresh} /\ UNCHANGED <<at, status>>
     \/ /\ CanFail
        /\ lpTopOfStack' = SetTop(before) /\ Return("OutOfMemory") /\ UNCHANGED heap
  /\ Fixed /\ UNCHANGED out

(* What the write callback may do with n bytes: how many it takes and what  *)
(* it answers.  On Ok it takes some; an early failure leaves at least one    *)
(* byte, a late one may have taken all of them.                              *)
Answer(n) ==
  [taken : (IF n = 0 THEN {0} ELSE 1 .. n), e : {"Ok"}]
  \cup [taken : CASE client.failure = "never" -> {}
                  [] client.failure = "early" -> 0 .. n - 1
                  [] client.failure = "late"  -> 0 .. n, e : {"UserError"}]

Visible(text, n) == IF text = <<Blank>> THEN <<>> ELSE SubSeq(text, 1, n)

(* callbackWriteBytes with text.  Counted(k) is the element once k bytes of  *)
(* it have been counted.                                                     *)
Write(text, Counted(_)) ==
  \E a \in Answer(Len(text)) :
    /\ out' = out \o Visible(text, a.taken)
    /\ lpTopOfStack' = SetTop(Counted(a.taken))
    /\ IF a.e = "Ok" THEN UNCHANGED <<at, status>> ELSE Return(a.e)
    /\ Fixed /\ UNCHANGED heap

(* The last write of an element: when it succeeds the element is popped. *)
WriteLast(text, Counted(_)) ==
  \E a \in Answer(Len(text)) :
    /\ out' = out \o Visible(text, a.taken)
    /\ IF a.e = "Ok" /\ a.taken = Len(text) THEN Pop
       ELSE /\ lpTopOfStack' = SetTop(Counted(a.taken)) /\ UNCHANGED heap
            /\ IF a.e = "Ok" THEN UNCHANGED <<at, status>> ELSE Return(a.e)
    /\ Fixed

Handling(type) == Running /\ Top.type = type

-----------------------------------------------------------------------------
(* cjsonSerializer_Continue_Constant; nothing may be left of a failed write. *)
Continue_Constant ==
  /\ Handling("Constant")
  /\ LET Counted(k) == [Top EXCEPT !.dwBytesWritten = @ + k]
         left == SubSeq(Top.text, Top.dwBytesWritten + 1, Len(Top.text))
     IN \/ left # <<>> /\ WriteLast(left, Counted)
        \/ left = <<>> /\ Pop /\ Fixed /\ UNCHANGED out

(* cjsonSerializer_Continue_Number asks the callback even when nothing is left. *)
Continue_Number ==
  /\ Handling("Number")
  /\ LET Counted(k) == [Top EXCEPT !.dwWritten = @ + k]
     IN WriteLast(SubSeq(Top.bString, Top.dwWritten + 1, Len(Top.bString)), Counted)

(* cjsonSerializer_Continue_Array: header, separator, the next element, and  *)
(* the trailer, whose bracket is written without a look at the counter.      *)
CountBytes(k) == [Top EXCEPT !.dwBytesWritten = @ + k]
HeaderDone(f) == f.dwBytesWritten >= IF pretty THEN 2 ELSE 1
HasNext(f)    == f.dwCurrentIndex < Len(Elements(f))
SeparatorDoneTooLate(f) ==                                        \* mutant
  f.dwCurrentIndex > 0 => f.dwWrittenPast > IF pretty THEN 2 ELSE 1
SeparatorDone(f) == f.dwCurrentIndex > 0 => f.dwWrittenPast >= IF pretty THEN 2 ELSE 1

Array_Header ==
  /\ Handling("Array") /\ ~HeaderDone(Top)
  /\ Write(IF Top.dwBytesWritten < 1 THEN <<LBracket>> ELSE <<Blank>>, CountBytes)

Array_Separator ==
  /\ Handling("Array") /\ HeaderDone(Top) /\ HasNext(Top) /\ ~SeparatorDone(Top)
  /\ LET Counted(k) == [Top EXCEPT !.dwWrittenPast = @ + k]
     IN Write(IF Top.dwWrittenPast = 0 THEN <<Comma>> ELSE <<Blank>>, Counted)

(* One tab at most, and the element, without leaving the handler between them. *)
ArrayNext(f) == [f EXCEPT !.dwWrittenPast = 0, !.dwWrittenIndent = 0,
                          !.dwCurrentIndex = f.dwCurrentIndex + 1]
Array_Element ==
  /\ Handling("Array") /\ HeaderDone(Top) /\ HasNext(Top) /\ SeparatorDone(Top)
  /\ \E a \in (IF pretty /\ Top.dwWrittenIndent <= IndentDepth THEN Answer(1)
               ELSE {[taken |-> 0, e |-> "Ok"]}) :
       LET f == [Top EXCEPT !.dwWrittenIndent = @ + a.taken]
           new(b) == NewFrame(Elements(Top)[Top.dwCurrentIndex + 1], b)
       IN IF a.e = "Ok" THEN PushAbove(f, ArrayNext(f), new)
          ELSE /\ lpTopOfStack' = SetTop(f) /\ Return(a.e)
               /\ Fixed /\ UNCHANGED <<heap, out>>

Array_Trailer ==
  /\ Handling("Array") /\ HeaderDone(Top) /\ ~HasNext(Top)
  /\ \/ /\ pretty /\ Top.dwBytesWritten < IndentDepth + 2
        /\ Write(<<Blank>>, CountBytes)
     \/ /\ pretty => Top.dwBytesWritten >= IndentDepth + 2
        /\ WriteLast(<<RBracket>>, CountBytes)

Continue_Array == Array_Header \/ Array_Separator \/ Array_Element \/ Array_Trailer

-----------------------------------------------------------------------------
(* cjsonSerializer_Continue_Object: the header, then in a loop key and value *)
(* of each entry, and behind the loop the trailer.                           *)
InState(s) == Handling("Object") /\ Top.state = s

Object_Header ==
  /\ InState("Header") /\ ~HeaderDone(Top)
  /\ Write(IF Top.dwBytesWritten < 1 THEN <<LBrace>> ELSE <<Blank>>, CountBytes)

(* The first entry; an empty object goes to its trailer inside the loop. *)
Object_Select ==
  /\ InState("Header") /\ HeaderDone(Top)
  /\ GoOn(IF Members(Top) = <<>>
          THEN [Top EXCEPT !.state = "Trailer", !.dwBytesWritten = 0]
          ELSE [Top EXCEPT !.state = "Key", !.dwBytesWritten = 0,
                           !.lpTempString = Null, !.lpCurrentBucketEntry = 1])

Object_Indent ==
  /\ InState("Key") /\ Top.dwBytesWritten < IndentDepth
  /\ Write(<<Blank>>, CountBytes)

(* The key is copied into a string value, kept when pushing it fails. *)
Member(f) == Members(f)[f.lpCurrentBucketEntry]
Object_CreateKey ==
  /\ InState("Key") /\ Top.dwBytesWritten = IndentDepth /\ Top.lpTempString = Null
  /\ \/ /\ CanAlloc
        /\ lpTopOfStack' = SetTop([Top EXCEPT !.lpTempString = Fresh])
        /\ heap' = heap \cup {Fresh} /\ Fixed /\ UNCHANGED <<at, status, out>>
     \/ CanFail /\ Fail("OutOfMemory")

Object_PushKey ==
  /\ InState("Key") /\ Top.dwBytesWritten = IndentDepth /\ Top.lpTempString # Null
  /\ LET new(b) == NewString(b, Top.lpTempString, Bytes(Member(Top).key))
     IN PushAbove(Top, CountBytes(1), new)

ForgetTempKept(f) == f                                            \* mutant
ForgetTemp(f) == [f EXCEPT !.lpTempString = Null]
Object_ReleaseKey ==
  /\ InState("Key") /\ Top.dwBytesWritten = IndentDepth + 1
  /\ lpTopOfStack' = SetTop(ForgetTemp(CountBytes(1)))
  /\ heap' = heap \ {Top.lpTempString}
  /\ Fixed /\ UNCHANGED <<at, status, out>>

Object_Colon ==
  /\ InState("Key") /\ Top.dwBytesWritten = IndentDepth + 2
  /\ Write(<<Colon>>, CountBytes)

Object_PushMember ==
  /\ InState("Key") /\ Top.dwBytesWritten = IndentDepth + 3
  /\ LET new(b) == NewFrame(Member(Top).value, b)
     IN PushAbove(Top, [Top EXCEPT !.state = "Value", !.dwBytesWritten = 0], new)

(* The value is written.  The counter makes sure the entry advances once. *)
EntryAfter(f) == IF f.lpCurrentBucketEntry < Len(Members(f)) THEN f.lpCurrentBucketEntry + 1 ELSE 0
AdvancedNotCounted(f) == [f EXCEPT !.lpCurrentBucketEntry = EntryAfter(f)]    \* mutant
Advanced(f) == [f EXCEPT !.lpCurrentBucketEntry = EntryAfter(f), !.dwBytesWritten = 1]
Object_NextEntry ==
  /\ InState("Value") /\ Top.dwBytesWritten = 0
  /\ GoOn(Advanced(Top))

Object_Separator ==
  /\ InState("Value") /\ Top.dwBytesWritten > 0 /\ Top.lpCurrentBucketEntry # 0
  /\ \/ Top.dwBytesWritten < 2 /\ Write(<<Comma>>, CountBytes)
     \/ pretty /\ Top.dwBytesWritten = 2 /\ Write(<<Blank>>, CountBytes)
     \/ /\ Top.dwBytesWritten >= IF pretty THEN 3 ELSE 2
        /\ GoOn([Top EXCEPT !.state = "Key", !.dwBytesWritten = 0])

(* The only way out of the loop. *)
Object_Leave ==
  /\ InState("Value") /\ Top.dwBytesWritten > 0 /\ Top.lpCurrentBucketEntry = 0
  /\ \/ pretty /\ Top.dwBytesWritten < 2 /\ Write(<<Blank>>, CountBytes)
     \/ /\ pretty => Top.dwBytesWritten >= 2
        /\ lpTopOfStack' = SetTop([Top EXCEPT !.state = "Trailer", !.dwBytesWritten = 0])
        /\ at' = "behind" /\ Fixed /\ UNCHANGED <<status, heap, out>>

Object_Trailer ==
  /\ InState("Trailer") /\ at = "behind"
  /\ \/ Top.dwBytesWritten + 1 < IndentDepth /\ Write(<<Blank>>, CountBytes)
     \/ Top.dwBytesWritten + 1 >= IndentDepth /\ WriteLast(<<RBrace>>, CountBytes)

(* The loop has no case for this state. *)
Object_Spin ==
  /\ InState("Trailer") /\ at # "behind"
  /\ at' = "spin" /\ Fixed /\ UNCHANGED <<lpTopOfStack, status, heap, out>>

Continue_Object ==
  \/ Object_Header \/ Object_Select \/ Object_Indent \/ Object_CreateKey
  \/ Object_PushKey \/ Object_ReleaseKey \/ Object_Colon \/ Object_PushMember
  \/ Object_NextEntry \/ Object_Separator \/ Object_Leave \/ Object_Trailer \/ Object_Spin

-----------------------------------------------------------------------------
(* cjsonSerializer_Continue_String. *)
StringIn(state) == Handling("String") /\ Top.state = state
Left(f) == SubSeq(f.bData, f.dwCurrentIndex + 1, Len(f.bData))

(* The element after k bytes of a one-byte write that ends in a new state. *)
Enter(state, k) == [Top EXCEPT !.state = IF k > 0 THEN state ELSE @]

(* A multi-byte character at the head of bytes: how many bytes it takes and  *)
(* its 16 bits, or why it cannot be written.                                 *)
Continuation(b) == b \div 64 = 2
Decode(bytes) ==
  LET Bad(e)    == [e |-> e, n |-> 0, unit |-> 0]
      Good(n, u) == [e |-> "Ok", n |-> n, unit |-> u]
  IN IF bytes[1] \in 224 .. 239
       THEN IF Len(bytes) < 3 \/ \E i \in 2 .. 3 : ~Continuation(bytes[i]) THEN Bad("InvalidParam")
            ELSE Good(3, (bytes[1] % 16) * 4096 + (bytes[2] % 64) * 64 + (bytes[3] % 64))
     ELSE IF bytes[1] \in 192 .. 223
       THEN IF Len(bytes) < 2 \/ ~Continuation(bytes[2]) THEN Bad("InvalidParam")
            ELSE Good(2, (bytes[1] % 32) * 64 + (bytes[2] % 64))
     ELSE Bad("EncodingError")

HexDigitsNoLetters(u) ==                                          \* mutant
  [i \in 1 .. 4 |-> ((u \div <<4096, 256, 16, 1>>[i]) % 16) + 48]
HexDigits(u) ==
  LET Nibble(i) == (u \div <<4096, 256, 16, 1>>[i]) % 16
  IN [i \in 1 .. 4 |-> Nibble(i) + IF Nibble(i) > 9 THEN 55 ELSE 48]

EscapeLetterSwapped(b) ==                                         \* mutant
  CASE b = 8 -> LetterB [] b = 12 -> LetterF [] b = 9 -> LetterN
    [] b = 13 -> LetterR [] b = 10 -> LetterT [] OTHER -> b
EscapeLetter(b) == CASE b = 8 -> LetterB [] b = 12 -> LetterF [] b = 10 -> LetterN
                     [] b = 13 -> LetterR [] b = 9 -> LetterT [] OTHER -> b
NeedsEscape == {Quote, Backslash, Slash, 8, 12, 10, 13, 9}

String_LeadingQuote ==
  /\ StringIn("LeadingQuote")
  /\ LET Counted(k) == Enter("Normal", k) IN Write(<<Quote>>, Counted)

String_Decode ==
  /\ StringIn("Normal") /\ Left(Top) # <<>> /\ Head(Left(Top)) >= 128
  /\ LET c == Decode(Left(Top))
     IN IF c.e # "Ok" THEN Fail(c.e)
        ELSE GoOn([Top EXCEPT !.dwCurrentIndex = @ + c.n, !.state = "Unicode",
                              !.bUnicodeBytes = HexDigits(c.unit),
                              !.dwUnicodeBytesWritten = 0])

String_Escape ==
  /\ StringIn("Normal") /\ Left(Top) # <<>> /\ Head(Left(Top)) \in NeedsEscape
  /\ LET Counted(k) == Enter("Escaped", k) IN Write(<<Backslash>>, Counted)

String_Direct ==
  /\ StringIn("Normal") /\ Left(Top) # <<>> /\ Head(Left(Top)) < 128
  /\ Head(Left(Top)) \notin NeedsEscape
  /\ LET Counted(k) == [Top EXCEPT !.dwCurrentIndex = @ + k]
     IN Write(<<Head(Left(Top))>>, Counted)

EscapedCountedAlways(k) ==                                        \* mutant
  [Top EXCEPT !.dwCurrentIndex = @ + k, !.state = "Normal"]
EscapedCounted(k) == [Enter("Normal", k) EXCEPT !.dwCurrentIndex = @ + k]
String_Escaped ==
  /\ StringIn("Escaped")
  /\ Write(<<EscapeLetter(Head(Left(Top)))>>, EscapedCounted)

String_Unicode ==
  /\ StringIn("Unicode") /\ Top.dwUnicodeBytesWritten < 6
  /\ LET text == <<Backslash, LetterU>> \o Top.bUnicodeBytes
         Counted(k) == [Top EXCEPT !.dwUnicodeBytesWritten = @ + k]
     IN Write(<<text[Top.dwUnicodeBytesWritten + 1]>>, Counted)

String_UnicodeEnd ==
  /\ StringIn("Unicode") /\ Top.dwUnicodeBytesWritten = 6
  /\ GoOn([Top EXCEPT !.state = "Normal", !.dwUnicodeBytesWritten = 0])

(* Past the end once the quote was taken by a call that failed all the same. *)
QuoteWritten(f) == f.dwCurrentIndex > Len(f.bData)
String_TrailingQuote ==
  /\ StringIn("Normal") /\ Left(Top) = <<>>
  /\ LET Counted(k) == [Top EXCEPT !.dwCurrentIndex = @ + k]
     IN IF QuoteWritten(Top) THEN Pop /\ Fixed /\ UNCHANGED out
        ELSE WriteLast(<<Quote>>, Counted)

Continue_String ==
  \/ String_LeadingQuote \/ String_Decode \/ String_Escape \/ String_Direct
  \/ String_Escaped \/ String_Unicode \/ String_UnicodeEnd \/ String_TrailingQuote

-----------------------------------------------------------------------------
(* The client. *)
Nobody == [pretty |-> FALSE, failure |-> "never", roots |-> {}]
Init == /\ lpSerializer = {} /\ client = Nobody /\ lpTopOfStack = <<>> /\ at = "enter"
        /\ status = "Ok" /\ heap = {} /\ doc = None /\ out = <<>>

cjsonSerializer_Create(c) ==
  /\ lpSerializer = {}
  /\ \/ /\ CanAlloc
        /\ lpSerializer' = {Fresh} /\ heap' = heap \cup {Fresh}
        /\ client' = c /\ status' = "Ok"
     \/ CanFail /\ status' = "OutOfMemory" /\ UNCHANGED <<lpSerializer, heap, client>>
  /\ UNCHANGED <<lpTopOfStack, at, doc, out>>

Ready == lpSerializer # {} /\ ~Running

(* A document can be begun only when the last one has been written out. *)
cjsonSerializer_Serialize(n) ==
  /\ Ready
  /\ \/ lpTopOfStack # <<>> /\ status' = "InvalidState" /\ UNCHANGED <<lpTopOfStack, heap, doc, out>>
     \/ /\ lpTopOfStack = <<>> /\ CanAlloc
        /\ lpTopOfStack' = <<NewFrame(n, Fresh)>> /\ heap' = heap \cup {Fresh}
        /\ status' = "Running" /\ doc' = n /\ out' = <<>>
     \/ /\ lpTopOfStack = <<>> /\ CanFail
        /\ status' = "OutOfMemory" /\ UNCHANGED <<lpTopOfStack, heap, doc, out>>
  /\ UNCHANGED <<lpSerializer, client, at>>

cjsonSerializer_Continue ==
  /\ Ready
  /\ status' = IF lpTopOfStack = <<>> THEN "Ok" ELSE "Running"
  /\ UNCHANGED <<lpSerializer, client, lpTopOfStack, at, heap, doc, out>>

(* What Release frees; the string copied for a key goes with its object. *)
Temps == {lpTopOfStack[i].lpTempString :
            i \in {j \in DOMAIN lpTopOfStack : lpTopOfStack[j].type = "Object"}}
SerializerMemForgetsTemps ==                                      \* mutant
  lpSerializer \cup {lpTopOfStack[i].elm : i \in DOMAIN lpTopOfStack}
SerializerMem == lpSerializer \cup {lpTopOfStack[i].elm : i \in DOMAIN lpTopOfStack}
                 \cup (Temps \cap Block)

(* A number on the stack, which can only be its top, stops Release before it *)
(* has freed anything.  An object still in its header holds whatever malloc  *)
(* left in lpTempString: by chance NULL, else the process is lost.           *)
cjsonSerializer_Release ==
  /\ Ready
  /\ \/ /\ lpTopOfStack # <<>> /\ Top.type = "Number"
        /\ status' = "ImplementationError"
        /\ UNCHANGED <<lpSerializer, client, lpTopOfStack, at, heap, doc, out>>
     \/ /\ lpTopOfStack # <<>> => Top.type # "Number"
        /\ \/ heap' = heap \ SerializerMem /\ status' = "Ok"
           \/ Wild \in Temps /\ heap' = {} /\ status' = "Undefined"
        /\ lpSerializer' = {} /\ client' = Nobody /\ lpTopOfStack' = <<>> /\ at' = "enter"
        /\ doc' = None /\ out' = <<>>

Step == Continue_Constant \/ Continue_Number \/ Continue_Array \/ Continue_Object
        \/ Continue_String

Next == \/ \E c \in Client : cjsonSerializer_Create(c)
        \/ \E n \in client.roots : cjsonSerializer_Serialize(n)
        \/ cjsonSerializer_Continue \/ cjsonSerializer_Release \/ Step

Spec == Init /\ [][Next]_vars

(* A running call is a C function: it goes on. *)
LiveSpec == Spec /\ WF_vars(Step)

-----------------------------------------------------------------------------
(* The text of a document, as the JSON grammar has it, without formatting.   *)
(* A string that cannot be written ends in Stop, which is never written.     *)
Stop == -6
HexText(u) ==
  LET Spell(v) == CHOOSE b \in HexDigit : b < 97 /\ HexValue(b) = v
  IN <<Spell(u \div 4096), Spell((u \div 256) % 16), Spell((u \div 16) % 16), Spell(u % 16)>>
UnitText(u) ==
  IF u >= 128 THEN <<Backslash, LetterU>> \o HexText(u)
  ELSE IF u = Quote THEN <<Backslash, Quote>>
  ELSE IF \E b \in DOMAIN Unescaped : Unescaped[b] = u
         THEN <<Backslash, CHOOSE b \in DOMAIN Unescaped : Unescaped[b] = u>>
  ELSE <<u>>
StringText(v) == <<Quote>> \o FlattenSeq([i \in DOMAIN v.units |-> UnitText(v.units[i])])
                 \o (IF v.tail = <<>> THEN <<Quote>> ELSE <<Stop>>)
Joined(texts) ==
  FlattenSeq([i \in DOMAIN texts |-> IF i = 1 THEN texts[i] ELSE <<Comma>> \o texts[i]])

(* The text of a value, from the texts of those inside it. *)
TextOf(v, text) ==
  CASE v.type = "Constant" -> Literal[v.value]
    [] v.type = "Number" -> Printed(v.digits)
    [] v.type = "String" -> StringText(v)
    [] v.type = "Array" ->
         <<LBracket>> \o Joined([i \in DOMAIN v.elements |-> text[v.elements[i]]])
         \o <<RBracket>>
    [] v.type = "Object" ->
         <<LBrace>> \o Joined([i \in DOMAIN v.members |->
                                 StringText(v.members[i].key) \o <<Colon>>
                                 \o text[v.members[i].value]])
         \o <<RBrace>>
DocText[n \in Node] == TextOf(Tree[n], DocText)

(* What is still to come of the document; out is no beginning of it: Wild. *)
Rest == IF doc = None THEN <<>>
        ELSE IF IsPrefix(out, DocText[doc])
               THEN SubSeq(DocText[doc], Len(out) + 1, Len(DocText[doc]))
        ELSE <<Wild>>
Phase == IF Running THEN "writing" ELSE IF lpTopOfStack # <<>> THEN "suspended" ELSE "idle"

Writer == INSTANCE DocumentWriter
            WITH Texts <- {DocText[n] : n \in Node},
                 phase <- Phase, written <- out, rest <- Rest

(* What the promise is made for.  The bytes at the end of a string that are  *)
(* no character are none for the code either: it takes a unit spelled with   *)
(* more bytes than it needs for one.  A callback that may answer with a      *)
(* failure once it has taken every byte is given no arrays: it would be      *)
(* given their brackets twice.                                               *)
Strings == {Tree[n] : n \in {m \in Node : Tree[m].type = "String"}}
           \cup UNION {{m.key : m \in ToSet(Tree[n].members)} :
                         n \in {m \in Node : Tree[m].type = "Object"}}
EndsInNoCharacter(v) ==
  v.tail # <<>> => Head(v.tail) >= 128 /\ Decode(v.tail).e # "Ok"
Arrayless(n) ==
  \E S \in SUBSET Node :
    n \in S /\ \A m \in S : Tree[m].type # "Array" /\ Inside(m) \subseteq S
WritableDocuments ==
  /\ \A v \in Strings : EndsInNoCharacter(v)
  /\ \A c \in Client : c.failure = "late" => \A n \in c.roots : Arrayless(n)

-----------------------------------------------------------------------------
(* Type invariant of the serializer and its client. *)
TypeOK ==
  /\ lpSerializer \in SUBSET Block /\ client \in Client \cup {Nobody}
  /\ lpTopOfStack \in Seq(Frame) /\ at \in {"enter", "spin", "behind"}
  /\ status \in Status /\ heap \in SUBSET Block
  /\ doc \in Node \cup {None} /\ out \in Seq(Octet)

(* What reaches the output of a document is its text, in order and each byte *)
(* once, wherever the callback interrupts the call, whatever it had taken by *)
(* then, and however often the call is resumed or an allocation fails; when  *)
(* a call succeeds the text is complete.                                     *)
WritesTheDocument == Writer!Spec

(* Who holds memory: the serializer, each element, and the object element    *)
(* whose key is being written.                                               *)
Holders == {<<"serializer", 0, b>> : b \in lpSerializer}
           \cup {<<"element", i, lpTopOfStack[i].elm>> : i \in DOMAIN lpTopOfStack}
           \cup {<<"key", i, lpTopOfStack[i].lpTempString>> :
                   i \in {j \in DOMAIN lpTopOfStack :
                            /\ lpTopOfStack[j].type = "Object"
                            /\ lpTopOfStack[j].lpTempString \in Block}}

(* Every block that is allocated has one holder, and what is held is         *)
(* allocated: nothing dangles and nothing is lost, also after failed         *)
(* allocations and after a release in the middle of a document.              *)
ExactlyHeld ==
  /\ heap = {Last(o) : o \in Holders}
  /\ Cardinality(heap) = Cardinality(Holders)

(* The string copied for a key lives exactly from its creation until the     *)
(* element that writes it is gone, in the object right below that element;   *)
(* no other element of the stack holds one.                                  *)
KeyAlive ==
  \A i \in DOMAIN lpTopOfStack :
    LET f == lpTopOfStack[i]
    IN /\ f.type = "String" /\ f.temp # Null =>
            /\ f.temp \in heap
            /\ i > 1 /\ lpTopOfStack[i - 1].type = "Object"
            /\ lpTopOfStack[i - 1].lpTempString = f.temp
       /\ f.type = "Object" /\ f.lpTempString \in Block => f.state = "Key"

(* A call returns, unless an object is entered again in its trailer.         *)
ReturnsOrSpins == Running ~> (~Running \/ at = "spin")

(* Any value can be serialized: every call returns.                          *)
CallReturns == Running ~> ~Running

(* A number reaches the output with all its digits.                          *)
NumbersComplete ==
  status = "Ok" /\ doc # None /\ Tree[doc].type = "Number" /\ lpTopOfStack = <<>>
  => out = Tree[doc].digits

=============================================================================
