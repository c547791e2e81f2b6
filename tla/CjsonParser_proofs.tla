------------------------- MODULE CjsonParser_proofs -------------------------
(***************************************************************************)
(* Theorems about CjsonParser, for every alphabet, memory pool, page size, *)
(* configuration and callback: the types, and the nesting discipline of the *)
(* state stack, from which the parser never takes one of its               *)
(* ImplementationError exits; the copy of a key and the first symbol of a  *)
(* number, KeyHeld and NumberStarts, from the same discipline; and what a  *)
(* call answers and completes: AllocFailureReported, and AtMostOneRoot for *)
(* a client with a callback and texts without a minus.                     *)
(***************************************************************************)
EXTENDS CjsonParser, CjsonInduction_proofs

-----------------------------------------------------------------------------
(* Facts about the vocabulary of the specification. *)

(* An allocation returns a block of the pool that was not live. *)
LEMMA FreshIsFree ==
  ASSUME NEW h, CanAlloc(h)
  PROVE  Fresh(h) \in Block /\ Fresh(h) \notin h
<1>1. \E b \in Block : b \notin h
  BY DEF CanAlloc
<1> QED
  BY <1>1 DEF Fresh

(* The type field tells which record a stack element is. *)
LEMMA FrameByType ==
  ASSUME NEW f \in Frame
  PROVE  /\ f.type \in {"Constant", "String", "Number", "Object", "Array"}
         /\ f.elm \in Block
         /\ f.type = "Constant" => f \in ConstantFrame
         /\ f.type = "String" => f \in StringFrame
         /\ f.type = "Number" => f \in NumberFrame
         /\ f.type = "Object" => f \in ObjectFrame
         /\ f.type = "Array"  => f \in ArrayFrame
<1>1. f \in ConstantFrame => f.type = "Constant" /\ f.elm \in Block
  BY DEF ConstantFrame
<1>2. f \in StringFrame => f.type = "String" /\ f.elm \in Block
  BY DEF StringFrame
<1>3. f \in NumberFrame => f.type = "Number" /\ f.elm \in Block
  BY DEF NumberFrame
<1>4. f \in ObjectFrame => f.type = "Object" /\ f.elm \in Block
  BY DEF ObjectFrame
<1>5. f \in ArrayFrame => f.type = "Array" /\ f.elm \in Block
  BY DEF ArrayFrame
<1> QED
  BY <1>1, <1>2, <1>3, <1>4, <1>5 DEF Frame

LEMMA SubFrames ==
  /\ ConstantFrame \subseteq Frame /\ StringFrame \subseteq Frame
  /\ NumberFrame \subseteq Frame /\ ObjectFrame \subseteq Frame /\ ArrayFrame \subseteq Frame
BY DEF Frame

(* The stack operators stay within the sequences over a set of elements. *)
LEMMA StackOperators ==
  ASSUME NEW S, lpStateStack \in Seq(S), lpStateStack # << >>
  PROVE  /\ Len(lpStateStack) \in Nat \ {0}
         /\ Top \in S
         /\ \A f \in S : /\ SetTop(f) \in Seq(S)
                         /\ Len(SetTop(f)) = Len(lpStateStack)
                         /\ \A i \in 1 .. Len(lpStateStack) :
                              SetTop(f)[i] = IF i = Len(lpStateStack) THEN f
                                             ELSE lpStateStack[i]
         /\ Below \in Seq(S)
         /\ Len(Below) = Len(lpStateStack) - 1
         /\ \A i \in 1 .. Len(lpStateStack) - 1 : Below[i] = lpStateStack[i]
         /\ Below # << >> <=> Len(lpStateStack) > 1
<1>1. Len(lpStateStack) \in Nat \ {0}
  BY EmptySeq
<1>2. \A i \in 1 .. Len(lpStateStack) : lpStateStack[i] \in S
  BY ElementOfSeq
<1>3. Top \in S
  BY <1>1, <1>2 DEF Top
<1>4. \A f \in S : /\ SetTop(f) \in Seq(S)
                   /\ Len(SetTop(f)) = Len(lpStateStack)
                   /\ \A i \in 1 .. Len(lpStateStack) :
                        SetTop(f)[i] = IF i = Len(lpStateStack) THEN f
                                       ELSE lpStateStack[i]
  BY <1>1, ExceptSeq DEF SetTop
<1>5. /\ Below \in Seq(S)
      /\ Len(Below) = Len(lpStateStack) - 1
      /\ \A i \in 1 .. Len(lpStateStack) - 1 : Below[i] = lpStateStack[i]
  <2>1. Len(lpStateStack) - 1 \in Nat /\ Len(lpStateStack) - 1 <= Len(lpStateStack)
    BY <1>1
  <2> QED
    BY <2>1, Prefix DEF Below
<1>6. Below # << >> <=> Len(lpStateStack) > 1
  BY <1>1, <1>5, EmptySeq
<1> QED
  BY <1>1, <1>3, <1>4, <1>5, <1>6

-----------------------------------------------------------------------------
(* Type correctness.  TypeOK is not inductive: that a code unit fits its     *)
(* field needs the bound on the digits collected so far, which holds while   *)
(* the client goes on.  BoundedFrame carries that bound, and a running call  *)
(* is one of a client that goes on.  Without a parser there is no stack and  *)
(* no call.                                                                  *)
BoundedFrame == {f \in Frame : UnitBounded(f)}

TypeInv ==
  /\ TypeOK
  /\ bByte # None => status \in Resumable
  /\ status \in Resumable => lpStateStack \in Seq(BoundedFrame)
  /\ lpParser = {} => lpStateStack = << >> /\ bByte = None

LEMMA BoundedFrames ==
  /\ BoundedFrame \subseteq Frame
  /\ ConstantFrame \subseteq BoundedFrame /\ NumberFrame \subseteq BoundedFrame
  /\ ObjectFrame \subseteq BoundedFrame /\ ArrayFrame \subseteq BoundedFrame
  /\ Seq(BoundedFrame) \subseteq Seq(Frame)
<1>1. BoundedFrame \subseteq Frame
  BY DEF BoundedFrame
<1>2. \A f \in Frame : f.type # "String" => f \in BoundedFrame
  BY DEF BoundedFrame, UnitBounded
<1>3. \A f \in ConstantFrame : f.type = "Constant"
  BY DEF ConstantFrame
<1>4. \A f \in NumberFrame : f.type = "Number"
  BY DEF NumberFrame
<1>5. \A f \in ObjectFrame : f.type = "Object"
  BY DEF ObjectFrame
<1>6. \A f \in ArrayFrame : f.type = "Array"
  BY DEF ArrayFrame
<1>7. Seq(BoundedFrame) \subseteq Seq(Frame)
  BY <1>1, SeqMonotonic
<1> QED
  BY <1>1, <1>2, <1>3, <1>4, <1>5, <1>6, <1>7, SubFrames

(* A running call starts from well typed, bounded state. *)
LEMMA InCall ==
  ASSUME TypeInv, bByte # None
  PROVE  /\ bByte \in Octet
         /\ lpStateStack \in Seq(BoundedFrame)
         /\ lpChildResult \in Value /\ lpChildResult.mem \in SUBSET Block
         /\ heap \in SUBSET Block
         /\ status \in Resumable
BY ByteAssumption DEF TypeInv, TypeOK, Value

(* Every outcome of a handler is a Done or an OutOfMemory of typed parts. *)
LEMMA OutcomeType ==
  ASSUME TypeInv, bByte # None,
         NEW stk \in Seq(BoundedFrame), NEW v \in Value, NEW h \in SUBSET Block,
         NEW e \in Status, NEW quiet \in BOOLEAN,
         Done(stk, v, h, e, quiet) \/ OutOfMemory(stk, v, h, quiet)
  PROVE  TypeInv'
<1>1. stk \in Seq(Frame)
  BY BoundedFrames
<1>2. /\ lpStateStack' = stk /\ lpChildResult' = v /\ heap' = h
      /\ UNCHANGED <<lpParser, callback, dwFlags, documents, roots>>
      /\ oom' \in BOOLEAN
  BY DEF Done, OutOfMemory, State, NoDelivery, TypeInv, TypeOK
<1>3. /\ status' \in Status /\ bByte' \in Byte \cup {None}
      /\ bByte' # None => status' \in Resumable
  BY DEF Done, OutOfMemory, Return, TypeInv, TypeOK, Status
<1> QED
  BY <1>1, <1>2, <1>3 DEF TypeInv, TypeOK

(* The values that move between elements. *)
LEMMA Values ==
  /\ NoValue \in Value
  /\ \A v \in Value : v.str \in Text /\ v.mem \in SUBSET Block /\ Taken(v) \in Value
  /\ \A b \in Block : Leaf(b) \in Value
  /\ \A s \in Text, m \in SUBSET Block : [str |-> s, mem |-> m] \in Value
  /\ <<>> \in Text
BY EmptySeq DEF Value, NoValue, Leaf, Text, Taken

(* cjsonObject_Set and the key copy keep an object element an object element. *)
LEMMA ObjectUpdates ==
  ASSUME NEW f \in ObjectFrame, NEW v \in Value, NEW b \in Block
  PROVE  /\ f.lpCurrentKey \in Value /\ f.mem \in SUBSET Block
         /\ \A k \in Value : [f EXCEPT !.lpCurrentKey = k] \in ObjectFrame
         /\ \A s \in {"ExpectKey", "ReadKey", "ExpectObject", "ReadObject"} :
              [f EXCEPT !.state = s] \in ObjectFrame
         /\ ForgetKey(f) \in ObjectFrame
         /\ ObjectStore(f, b, v) \in ObjectFrame
         /\ Old(f) \in SUBSET Block
         /\ \A h \in SUBSET Block : ObjectStoreHeap(f, h, b) \in SUBSET Block
<1>1. f.lpCurrentKey \in Value /\ f.mem \in SUBSET Block /\ f.entries \in SUBSET Entry
  BY DEF ObjectFrame
<1>2. \A k \in Value : [f EXCEPT !.lpCurrentKey = k] \in ObjectFrame
  BY DEF ObjectFrame
<1>3. \A s \in {"ExpectKey", "ReadKey", "ExpectObject", "ReadObject"} :
        [f EXCEPT !.state = s] \in ObjectFrame
  BY DEF ObjectFrame
<1>4. ForgetKey(f) \in ObjectFrame
  BY <1>2, Values DEF ForgetKey
<1>5. Old(f) \in SUBSET Block
  BY <1>1 DEF Old, Same, Entry
<1>6. ObjectStore(f, b, v) \in ObjectFrame
  <2> DEFINE mem == (f.mem \ Old(f)) \cup v.mem \cup (IF Same(f) = {} THEN {b} ELSE {})
             new == [key |-> f.lpCurrentKey.str, mem |-> v.mem]
             entries == (f.entries \ Same(f)) \cup {new}
  <2>1. mem \in SUBSET Block
    BY <1>1, Values
  <2>2. new \in Entry
    BY <1>1, Values DEF Entry
  <2>3. entries \in SUBSET Entry
    BY <1>1, <2>2
  <2>4. [f EXCEPT !.mem = mem, !.entries = entries] \in ObjectFrame
    <3> HIDE DEF mem, entries
    <3> QED
      BY <2>1, <2>3 DEF ObjectFrame
  <2> QED
    BY <2>4 DEF ObjectStore
<1>7. \A h \in SUBSET Block : ObjectStoreHeap(f, h, b) \in SUBSET Block
  BY DEF ObjectStoreHeap
<1> QED
  BY <1>1, <1>2, <1>3, <1>4, <1>5, <1>6, <1>7

LEMMA ArrayUpdates ==
  ASSUME NEW f \in ArrayFrame, NEW v \in Value, NEW page \in SUBSET Block
  PROVE  /\ f.mem \in SUBSET Block /\ f.dwElementCount \in Nat
         /\ \A s \in {"NoComma", "GotComma"} : [f EXCEPT !.state = s] \in ArrayFrame
         /\ ArrayStore(f, page, v) \in ArrayFrame
<1>1. v.mem \in SUBSET Block
  BY Values
<1>2. f.mem \in SUBSET Block /\ f.dwElementCount \in Nat
  BY DEF ArrayFrame
<1>3. \A s \in {"NoComma", "GotComma"} : [f EXCEPT !.state = s] \in ArrayFrame
  BY DEF ArrayFrame
<1>4. ArrayStore(f, page, v) \in ArrayFrame
  <2> DEFINE mem == f.mem \cup page \cup v.mem
             count == f.dwElementCount + 1
  <2>1. mem \in SUBSET Block /\ count \in Nat
    BY <1>1, <1>2
  <2> HIDE DEF mem, count
  <2>2. [f EXCEPT !.mem = mem, !.dwElementCount = count] \in ArrayFrame
    BY <2>1 DEF ArrayFrame
  <2> QED
    BY <2>2 DEF ArrayStore, mem, count
<1> QED
  BY <1>2, <1>3, <1>4

(* Popping: the notified parent, or the universe, leaves typed state.  The   *)
(* quiet caller is the number parser.                                        *)
LEMMA PopType ==
  ASSUME TypeInv, bByte # None, lpStateStack # << >>,
         NEW v \in Value, NEW h \in SUBSET Block, NEW quiet \in BOOLEAN,
         StateStackPop(v, h, quiet)
  PROVE  TypeInv'
<1> DEFINE rest == h \ {Top.elm}
           n == Len(Below)
           f == Below[n]
<1>1. rest \in SUBSET Block /\ lpStateStack \in Seq(BoundedFrame)
  BY InCall
<1>2. Below \in Seq(BoundedFrame)
  BY <1>1, StackOperators
<1>3. {"Ok", "Finished", "OutOfMemory", "ImplementationError"} \subseteq Status
      /\ CallbackResult \subseteq Status
      /\ "Finished" \in Resumable
  BY CallbackAssumption DEF Status, Resumable
<1>4. CASE Below = << >>
  <2>1. Universe_PopNotify(Below, v, rest, quiet)
    BY <1>4 DEF StateStackPop
  <2>2. PICK e \in Status : Return(e, quiet)
    BY <2>1, <1>3 DEF Universe_PopNotify
  <2>3. status' \in Status /\ bByte' \in Byte \cup {None} /\ (bByte' # None => status' \in Resumable)
    BY <2>2, InCall DEF Return, TypeInv, TypeOK
  <2>4. /\ lpStateStack' = Below /\ lpChildResult' \in Value /\ heap' \in SUBSET Block
        /\ documents' \in SUBSET (SUBSET Block) /\ dwFlags' \in SUBSET Flag
        /\ roots' \in 0 .. 2
        /\ UNCHANGED <<lpParser, callback, oom>>
    BY <1>1, <2>1, Values DEF Universe_PopNotify, State, Flag, TypeInv, TypeOK
  <2> QED
    BY <1>2, <2>3, <2>4, BoundedFrames DEF TypeInv, TypeOK
<1>5. CASE Below # << >>
  <2>1. n \in 1 .. n /\ f \in BoundedFrame /\ f \in Frame
    BY <1>2, <1>5, EmptySeq, ElementOfSeq, BoundedFrames
  <2>2. \A g \in BoundedFrame : [Below EXCEPT ![n] = g] \in Seq(BoundedFrame)
    BY <1>2, <2>1, ExceptSeq
  <2>3. CanAlloc(rest) => Fresh(rest) \in Block
    BY FreshIsFree
  <2>4. CASE f.type = "Object"
    <3>1. f \in ObjectFrame
      BY <2>1, <2>4, FrameByType
    <3>2. Object_PopNotify(Below, v, rest, quiet)
      BY <1>5, <2>4 DEF StateStackPop
    <3>3. CASE f.state = "ReadKey" /\ CanAlloc(rest)
      <4> DEFINE key == [str |-> v.str, mem |-> {Fresh(rest)}]
                 stk == [Below EXCEPT ![n] = [f EXCEPT !.lpCurrentKey = key]]
                 left == (rest \cup {Fresh(rest)}) \ v.mem
      <4>1. key \in Value
        BY <2>3, <3>3, Values
      <4>2. stk \in Seq(BoundedFrame)
        BY <4>1, <3>1, <2>2, <2>3, <3>3, ObjectUpdates, BoundedFrames
      <4>3. left \in SUBSET Block
        BY <1>1, <2>3, <3>3
      <4>4. \/ Done(stk, Taken(v), left, "Ok", quiet)
            \/ OutOfMemory(Below, v, rest, quiet)
        BY <3>2, <3>3 DEF Object_PopNotify, Key_PopNotify
      <4> HIDE DEF stk, left, key
      <4>5. CASE Done(stk, Taken(v), left, "Ok", quiet)
        BY <1>3, <4>2, <4>3, <4>5, Values, OutcomeType
      <4>6. CASE OutOfMemory(Below, v, rest, quiet)
        BY <1>1, <1>2, <1>3, <4>6, OutcomeType
      <4> QED
        BY <4>4, <4>5, <4>6
    <3>4. CASE f.state = "ReadKey" /\ ~CanAlloc(rest)
      <4>1. OutOfMemory(Below, v, rest, quiet)
        BY <3>2, <3>4 DEF Object_PopNotify, Key_PopNotify
      <4> QED
        BY <1>1, <1>2, <1>3, <4>1, OutcomeType
    <3>5. CASE f.state = "ReadObject"
      <4>1. \/ CanAlloc(rest)
               /\ Done([Below EXCEPT ![n] = ForgetKey(ObjectStore(f, Fresh(rest), v))], Taken(v),
                       ObjectStoreHeap(f, rest, Fresh(rest)) \ f.lpCurrentKey.mem, "Ok", quiet)
            \/ OutOfMemory([Below EXCEPT ![n] = ForgetKey(f)], Taken(v),
                           rest \ (v.mem \cup f.lpCurrentKey.mem), quiet)
        BY <3>2, <3>5 DEF Object_PopNotify, Member_PopNotify
      <4>2. CASE CanAlloc(rest)
               /\ Done([Below EXCEPT ![n] = ForgetKey(ObjectStore(f, Fresh(rest), v))], Taken(v),
                       ObjectStoreHeap(f, rest, Fresh(rest)) \ f.lpCurrentKey.mem, "Ok", quiet)
        <5> DEFINE g == ForgetKey(ObjectStore(f, Fresh(rest), v))
                   stk == [Below EXCEPT ![n] = g]
                   left == ObjectStoreHeap(f, rest, Fresh(rest)) \ f.lpCurrentKey.mem
        <5>1. ObjectStore(f, Fresh(rest), v) \in ObjectFrame
          BY <4>2, <2>3, <3>1, ObjectUpdates
        <5>2. g \in BoundedFrame
          BY <5>1, <4>2, <2>3, ObjectUpdates, BoundedFrames
        <5>3. stk \in Seq(BoundedFrame)
          BY <5>2, <2>2
        <5>4. left \in SUBSET Block
          BY <1>1, <3>1, <4>2, <2>3, ObjectUpdates
        <5>5. Done(stk, Taken(v), left, "Ok", quiet)
          BY <4>2
        <5> HIDE DEF stk, left, g
        <5> QED
          BY <5>3, <5>4, <5>5, <1>3, Values, OutcomeType
      <4>3. CASE OutOfMemory([Below EXCEPT ![n] = ForgetKey(f)], Taken(v),
                           rest \ (v.mem \cup f.lpCurrentKey.mem), quiet)
        <5>1. PICK b : b \in Block
          BY <2>1, FrameByType
        <5>2. ForgetKey(f) \in BoundedFrame
          BY <3>1, <5>1, ObjectUpdates, BoundedFrames
        <5>3. rest \ (v.mem \cup f.lpCurrentKey.mem) \in SUBSET Block
          BY <1>1
        <5> QED
          BY <4>3, <5>2, <5>3, <2>2, <1>3, Values, OutcomeType
      <4> QED
        BY <4>1, <4>2, <4>3
    <3>6. CASE f.state \notin {"ReadKey", "ReadObject"}
      <4>1. Done(Below, v, rest, "ImplementationError", quiet)
        BY <3>2, <3>6 DEF Object_PopNotify
      <4> QED
        BY <1>1, <1>2, <1>3, <4>1, OutcomeType
    <3> QED
      BY <3>3, <3>4, <3>5, <3>6
  <2>5. CASE f.type = "Array"
    <3>1. f \in ArrayFrame
      BY <2>1, <2>5, FrameByType
    <3>2. Array_PopNotify(Below, v, rest, quiet)
      BY <1>5, <2>5 DEF StateStackPop
    <3>3. ASSUME NEW page \in SUBSET Block,
                 Done([Below EXCEPT ![n] = ArrayStore(f, page, v)], Taken(v),
                      rest \cup page, "Ok", quiet)
          PROVE  TypeInv'
      <4> DEFINE stk == [Below EXCEPT ![n] = ArrayStore(f, page, v)]
                 left == rest \cup page
      <4>1. stk \in Seq(BoundedFrame)
        BY <2>2, <3>1, ArrayUpdates, BoundedFrames
      <4>2. left \in SUBSET Block
        BY <1>1
      <4>3. Done(stk, Taken(v), left, "Ok", quiet)
        BY <3>3
      <4> HIDE DEF stk, left
      <4> QED
        BY <4>1, <4>2, <4>3, <1>3, Values, OutcomeType
    <3>4. \/ Done(Below, v, rest, "ImplementationError", quiet)
          \/ Done([Below EXCEPT ![n] = ArrayStore(f, {}, v)], Taken(v),
                  rest \cup {}, "Ok", quiet)
          \/ /\ CanAlloc(rest)
             /\ Done([Below EXCEPT ![n] = ArrayStore(f, {Fresh(rest)}, v)], Taken(v),
                     rest \cup {Fresh(rest)}, "Ok", quiet)
          \/ OutOfMemory(Below, Taken(v), rest, quiet)
      BY <3>2 DEF Array_PopNotify
    <3>5. CASE Done(Below, v, rest, "ImplementationError", quiet)
      BY <1>1, <1>2, <1>3, <3>5, OutcomeType
    <3>6. CASE OutOfMemory(Below, Taken(v), rest, quiet)
      BY <1>1, <1>2, <1>3, <3>6, Values, OutcomeType
    <3>7. CASE Done([Below EXCEPT ![n] = ArrayStore(f, {}, v)], Taken(v),
                    rest \cup {}, "Ok", quiet)
      <4>1. {} \in SUBSET Block
        OBVIOUS
      <4> QED
        BY ONLY <4>1, <3>3, <3>7
    <3>8. CASE /\ CanAlloc(rest)
               /\ Done([Below EXCEPT ![n] = ArrayStore(f, {Fresh(rest)}, v)], Taken(v),
                       rest \cup {Fresh(rest)}, "Ok", quiet)
      <4>1. {Fresh(rest)} \in SUBSET Block
        BY <2>3, <3>8
      <4> QED
        BY ONLY <4>1, <3>3, <3>8
    <3> QED
      BY <3>4, <3>5, <3>6, <3>7, <3>8
  <2>6. CASE f.type \notin {"Object", "Array"}
    <3>1. Done(Below, v, rest, "ImplementationError", quiet)
      BY <1>5, <2>6 DEF StateStackPop
    <3> QED
      BY <1>1, <1>2, <1>3, <3>1, OutcomeType
  <2> QED
    BY <2>4, <2>5, <2>6
<1> QED
  BY <1>4, <1>5

(* The short answers. *)
LEMMA AcceptType ==
  ASSUME TypeInv, bByte # None, NEW stk \in Seq(BoundedFrame), Accept(stk)
  PROVE  TypeInv'
BY InCall, OutcomeType DEF Accept, Status, Resumable

LEMMA RejectType ==
  ASSUME TypeInv, bByte # None, Reject
  PROVE  TypeInv'
BY InCall, OutcomeType DEF Reject, Status

(* After a reported allocation failure the client stops: the stack need not *)
(* be bounded any more.                                                      *)
LEMMA FailType ==
  ASSUME TypeInv, bByte # None,
         NEW stk \in Seq(Frame), NEW v \in Value, NEW h \in SUBSET Block,
         OutOfMemory(stk, v, h, FALSE)
  PROVE  TypeInv'
<1>1. /\ lpStateStack' = stk /\ lpChildResult' = v /\ heap' = h
      /\ UNCHANGED <<lpParser, callback, dwFlags, documents, roots>>
      /\ oom' = TRUE /\ status' = "OutOfMemory" /\ bByte' = None
  BY DEF OutOfMemory, State, NoDelivery, Return
<1>2. "OutOfMemory" \in Status /\ "OutOfMemory" \notin Resumable
  BY DEF Status, Resumable
<1> QED
  BY <1>1, <1>2 DEF TypeInv, TypeOK

LEMMA PushType ==
  ASSUME TypeInv, bByte # None, NEW stk \in Seq(BoundedFrame), NEW f \in BoundedFrame,
         NEW h \in SUBSET Block, NEW redeliver \in BOOLEAN,
         Push(stk, f, h, redeliver)
  PROVE  TypeInv'
<1>1. Append(stk, f) \in Seq(BoundedFrame)
  BY AppendProperties
<1> QED
  BY <1>1, InCall, OutcomeType DEF Push, Status, Resumable

(* The elements that are pushed. *)
LEMMA NewFrames ==
  ASSUME NEW b \in Block, NEW o \in Block
  PROVE  /\ \A t \in DOMAIN Literal : NewConstant(b, t) \in BoundedFrame
         /\ NewString(b) \in BoundedFrame
         /\ NewNumber(b) \in BoundedFrame
         /\ NewObject(b, o) \in BoundedFrame
         /\ NewArray(b, o) \in BoundedFrame
<1>1. \A t \in DOMAIN Literal : NewConstant(b, t) \in ConstantFrame
  BY DEF NewConstant, ConstantFrame
<1>2. NewString(b) \in BoundedFrame
  <2>1. NewString(b) \in StringFrame
    BY Values DEF NewString, StringFrame, CodeUnit
  <2>2. UnitBounded(NewString(b))
    BY DEF NewString, UnitBounded
  <2> QED
    BY <2>1, <2>2, SubFrames DEF BoundedFrame
<1>3. NewNumber(b) \in NumberFrame
  BY DEF NewNumber, NumberFrame, NumberState
<1>4. NewObject(b, o) \in ObjectFrame
  BY Values DEF NewObject, ObjectFrame
<1>5. NewArray(b, o) \in ArrayFrame
  BY DEF NewArray, ArrayFrame
<1> QED
  BY <1>1, <1>2, <1>3, <1>4, <1>5, BoundedFrames

LEMMA PushFunctions ==
  ASSUME TypeInv, bByte # None, NEW stk \in Seq(BoundedFrame),
         \/ \E t \in DOMAIN Literal : Constant_Push(stk, t)
         \/ String_Push(stk)
         \/ Number_Push(stk)
         \/ Object_Push(stk)
         \/ Array_Push(stk)
  PROVE  TypeInv'
<1>1. /\ heap \in SUBSET Block /\ lpChildResult \in Value
      /\ CanAlloc(heap) => First \in Block /\ Fresh(heap) = First
      /\ CanAllocBoth => First \in Block /\ Second \in Block
  <2>1. CanAlloc(heap) => First \in Block /\ First \notin heap
    BY FreshIsFree DEF First
  <2>2. CanAllocBoth => CanAlloc(heap)
    BY DEF CanAllocBoth, CanAlloc
  <2>3. CanAllocBoth => CanAlloc(heap \cup {First})
    BY <2>1, <2>2 DEF CanAllocBoth, CanAlloc
  <2> QED
    BY <2>1, <2>2, <2>3, FreshIsFree, InCall DEF First, Second
<1>2. ASSUME OutOfMemory(stk, lpChildResult, heap, FALSE)
      PROVE  TypeInv'
  BY <1>1, <1>2, FailType, BoundedFrames
<1>3. ASSUME NEW f \in BoundedFrame, NEW redeliver \in BOOLEAN, CanAlloc(heap),
             Push(stk, f, heap \cup {First}, redeliver)
      PROVE  TypeInv'
  <2>1. heap \cup {First} \in SUBSET Block
    BY <1>1, <1>3 DEF Octet
  <2> QED
    BY <2>1, <1>3, PushType
<1>4. ASSUME NEW t \in DOMAIN Literal, Constant_Push(stk, t)
      PROVE  TypeInv'
  BY <1>1, <1>2, <1>3, <1>4, NewFrames DEF Constant_Push
<1>5. ASSUME String_Push(stk) PROVE TypeInv'
  BY <1>1, <1>2, <1>3, <1>5, NewFrames DEF String_Push
<1>6. ASSUME Number_Push(stk) PROVE TypeInv'
  BY <1>1, <1>2, <1>3, <1>6, NewFrames DEF Number_Push
<1>7. ASSUME NEW f, CanAllocBoth => f \in BoundedFrame, Container_Push(stk, f)
      PROVE  TypeInv'
  <2>1. CASE CanAllocBoth /\ Push(stk, f, heap \cup {First, Second}, FALSE)
    <3>1. heap \cup {First, Second} \in SUBSET Block
      BY <1>1, <2>1
    <3> QED
      BY <2>1, <3>1, <1>7, PushType
  <2> QED
    BY <2>1, <1>2, <1>7 DEF Container_Push
<1>8. CanAllocBoth => /\ NewObject(First, Second) \in BoundedFrame
                      /\ NewArray(First, Second) \in BoundedFrame
  BY <1>1, NewFrames
<1>9. ASSUME Object_Push(stk) \/ Array_Push(stk) PROVE TypeInv'
  BY <1>7, <1>8, <1>9 DEF Object_Push, Array_Push
<1> QED
  BY <1>4, <1>5, <1>6, <1>9

LEMMA StartValueType ==
  ASSUME TypeInv, bByte # None, NEW stk \in Seq(BoundedFrame), StartValue(stk, bByte)
  PROVE  TypeInv'
<1>1. {"True", "False", "Null"} \subseteq DOMAIN Literal
  BY DEF Literal
<1> QED
  BY <1>1, PushFunctions DEF StartValue

-----------------------------------------------------------------------------
(* The handlers. *)
LEMMA UniverseType ==
  ASSUME TypeInv, Universe_ProcessByte
  PROVE  TypeInv'
BY InCall, StartValueType, AcceptType, RejectType DEF Universe_ProcessByte

(* What a handler finds on top of the stack. *)
LEMMA TopOfStack ==
  ASSUME TypeInv, NEW t, Handling(t)
  PROVE  /\ bByte # None /\ lpStateStack # << >>
         /\ Top \in BoundedFrame /\ Top \in Frame /\ Top.type = t
         /\ \A f \in BoundedFrame : SetTop(f) \in Seq(BoundedFrame)
         /\ \A f \in Frame : SetTop(f) \in Seq(Frame)
         /\ lpStateStack \in Seq(BoundedFrame) /\ lpStateStack \in Seq(Frame)
BY InCall, StackOperators, BoundedFrames DEF Handling

LEMMA Literals ==
  ASSUME NEW t \in DOMAIN Literal
  PROVE  Len(Literal[t]) \in 1 .. 5
BY DEF Literal

LEMMA ConstantType ==
  ASSUME TypeInv, Constant_ProcessByte
  PROVE  TypeInv'
<1> DEFINE literal == Literal[Top.elmType]
           n   == Top.dwMatchedBytes
           stk == SetTop([Top EXCEPT !.dwMatchedBytes = n + 1])
           h   == heap \ lpChildResult.mem
<1>1. Handling("Constant")
  BY DEF Constant_ProcessByte
<1>2. Top \in ConstantFrame
  BY <1>1, TopOfStack, FrameByType
<1>3. n \in 1 .. 5 /\ Top.elmType \in DOMAIN Literal
  BY <1>2 DEF ConstantFrame
<1>4. n + 1 <= Len(literal) => stk \in Seq(BoundedFrame)
  <2>1. n + 1 <= Len(literal) => n + 1 \in 1 .. 5
    <3>1. Len(literal) \in 1 .. 5
      BY <1>3, Literals
    <3>2. \A i, k \in 1 .. 5 : i + 1 <= k => i + 1 \in 1 .. 5
      OBVIOUS
    <3> HIDE DEF n, literal
    <3> QED
      BY ONLY <1>3, <3>1, <3>2
  <2>2. n + 1 \in 1 .. 5 => [Top EXCEPT !.dwMatchedBytes = n + 1] \in ConstantFrame
    BY <1>2 DEF ConstantFrame
  <2> QED
    BY <1>1, <2>1, <2>2, TopOfStack, BoundedFrames
<1>5. h \in SUBSET Block /\ (CanAlloc(h) => Fresh(h) \in Block)
  BY <1>1, TopOfStack, InCall, FreshIsFree
<1>6. \/ Reject
      \/ n + 1 <= Len(literal) /\ Accept(stk)
      \/ CanAlloc(h) /\ StateStackPop(Leaf(Fresh(h)), h \cup {Fresh(h)}, FALSE)
      \/ n + 1 <= Len(literal) /\ OutOfMemory(stk, NoValue, h, FALSE)
  <2>1. Len(literal) \in 1 .. 5
    BY <1>3, Literals
  <2>2. \/ Reject
        \/ n + 1 < Len(literal) /\ Accept(stk)
        \/ CanAlloc(h) /\ StateStackPop(Leaf(Fresh(h)), h \cup {Fresh(h)}, FALSE)
        \/ n + 1 = Len(literal) /\ OutOfMemory(stk, NoValue, h, FALSE)
    BY DEF Constant_ProcessByte
  <2>3. /\ n + 1 < Len(literal) => n + 1 <= Len(literal)
        /\ n + 1 = Len(literal) => n + 1 <= Len(literal)
    <3> HIDE DEF n, literal
    <3> QED
      BY ONLY <1>3, <2>1
  <2> QED
    BY ONLY <2>2, <2>3
<1>7. CASE CanAlloc(h) /\ StateStackPop(Leaf(Fresh(h)), h \cup {Fresh(h)}, FALSE)
  <2>1. Leaf(Fresh(h)) \in Value /\ h \cup {Fresh(h)} \in SUBSET Block
    BY <1>5, <1>7, Values
  <2> HIDE DEF h
  <2> QED
    BY <1>1, <1>7, <2>1, TopOfStack, PopType
<1>8. CASE Reject \/ (n + 1 <= Len(literal) /\ Accept(stk))
  BY <1>1, <1>4, <1>8, TopOfStack, RejectType, AcceptType
<1>9. CASE n + 1 <= Len(literal) /\ OutOfMemory(stk, NoValue, h, FALSE)
  <2> HIDE DEF stk, h
  <2> QED
    BY <1>1, <1>4, <1>5, <1>9, TopOfStack, FailType, Values, BoundedFrames
<1> QED
  BY <1>6, <1>7, <1>8, <1>9

(* The encoding of a code unit is one to three bytes. *)
LEMMA Utf8Bytes ==
  ASSUME NEW u \in CodeUnit
  PROVE  Utf8(u) \in Text /\ Len(Utf8(u)) \in 1 .. 3
<1>1. u \in Nat /\ u < 65536
  BY DEF CodeUnit
<1>2. CASE u <= 127
  <2>1. Utf8(u) = <<u>> /\ u \in Octet
    BY <1>1, <1>2 DEF Utf8, Octet
  <2> QED
    BY <2>1 DEF Text
<1>3. CASE u > 127 /\ u <= 2047
  <2> DEFINE a == 192 + (u \div 64)
             b == 128 + (u % 64)
  <2>1. a \in Octet /\ b \in Octet
    BY <1>1, <1>3 DEF Octet
  <2>2. Utf8(u) = <<a, b>>
    BY <1>1, <1>3 DEF Utf8
  <2> HIDE DEF a, b
  <2> QED
    BY <2>1, <2>2 DEF Text
<1>4. CASE u > 2047
  <2> DEFINE a == 224 + (u \div 4096)
             b == 128 + ((u \div 64) % 64)
             c == 128 + (u % 64)
  <2>1. a \in Octet /\ b \in Octet /\ c \in Octet
    BY <1>1, <1>4 DEF Octet
  <2>2. Utf8(u) = <<a, b, c>>
    BY <1>1, <1>4 DEF Utf8
  <2> HIDE DEF a, b, c
  <2> QED
    BY <2>1, <2>2 DEF Text
<1> QED
  BY <1>1, <1>2, <1>3, <1>4

(* What a page still takes is less than a page. *)
LEMMA Remainder ==
  ASSUME NEW a \in Nat, NEW p \in Nat \ {0}
  PROVE  (p - (a % p)) % p \in 0 .. p - 1
<1>1. a % p \in 0 .. p - 1
  OBVIOUS
<1>2. \A r \in 0 .. p - 1 : (p - r) % p \in 0 .. p - 1
  OBVIOUS
<1> QED
  BY ONLY <1>1, <1>2

LEMMA RoomInPage ==
  ASSUME NEW f \in StringFrame
  PROVE  Room(f) \in Nat /\ f.buf \in Text /\ f.mem \in SUBSET Block
<1>1. f.buf \in Text /\ f.mem \in SUBSET Block
  BY DEF StringFrame
<1> DEFINE n == Len(f.buf)
<1>2. n \in Nat
  BY <1>1, LenProperties DEF Text
<1>3. StringPage \in Nat \ {0}
  BY PageAssumption
<1>4. Room(f) = (StringPage - (n % StringPage)) % StringPage
  BY DEF Room
<1> HIDE DEF n
<1>5. Room(f) \in 0 .. StringPage - 1
  BY ONLY <1>2, <1>3, <1>4, Remainder
<1> QED
  BY <1>1, <1>3, <1>5

LEMMA PushBytesType ==
  ASSUME TypeInv, Handling("String"),
         NEW f \in StringFrame, NEW bytes \in Text,
         NEW onFailure \in {"Normal", "UTF16Codepoint"},
         PushBytes(f, bytes, onFailure)
  PROVE  TypeInv'
<1> DEFINE part == SubSeq(bytes, 1, Room(f))
           full(page) == [Buffered(f, bytes, page) EXCEPT !.state = "Normal"]
           short == [Buffered(f, part, {}) EXCEPT !.state = onFailure]
<1>1. Len(bytes) > Room(f) => part \in Text
  <2>1. Len(bytes) > Room(f) => Room(f) <= Len(bytes)
    BY RoomInPage, LenProperties DEF Text
  <2> QED
    BY <2>1, RoomInPage, Prefix DEF Text
<1>2. ASSUME NEW more \in Text, NEW page \in SUBSET Block,
             NEW s \in {"Normal", "UTF16Codepoint"}
      PROVE  [Buffered(f, more, page) EXCEPT !.state = s] \in StringFrame
  <2> DEFINE buf == f.buf \o more
             mem == f.mem \cup page
  <2>1. buf \in Text /\ mem \in SUBSET Block
    BY RoomInPage, ConcatProperties DEF Text
  <2> HIDE DEF buf, mem
  <2>2. [[f EXCEPT !.buf = buf, !.mem = mem] EXCEPT !.state = s] \in StringFrame
    BY <2>1 DEF StringFrame
  <2> QED
    BY <2>2 DEF Buffered, buf, mem
<1>3. \A page \in SUBSET Block : full(page) \in BoundedFrame
  <2>1. ASSUME NEW page \in SUBSET Block PROVE full(page) \in BoundedFrame
    <3>1. full(page) \in StringFrame
      BY <1>2
    <3>2. full(page).state = "Normal"
      <4>1. Buffered(f, bytes, page) \in StringFrame
        BY RoomInPage, ConcatProperties DEF StringFrame, Buffered, Text
      <4> QED
        BY <4>1 DEF StringFrame
    <3> QED
      BY <3>1, <3>2, SubFrames DEF BoundedFrame, UnitBounded
  <2> QED
    BY <2>1
<1>4. Len(bytes) > Room(f) => short \in Frame
  BY <1>1, <1>2, SubFrames
<1>5. heap \in SUBSET Block /\ (CanAlloc(heap) => Fresh(heap) \in Block)
      /\ lpChildResult \in Value
  BY TopOfStack, InCall, FreshIsFree
<1> HIDE DEF full, short
<1>6. \/ Accept(SetTop(full({})))
      \/ CanAlloc(heap) /\ Done(SetTop(full({Fresh(heap)})), lpChildResult,
                                heap \cup {Fresh(heap)}, "Ok", FALSE)
      \/ Len(bytes) > Room(f) /\ OutOfMemory(SetTop(short), lpChildResult, heap, FALSE)
  BY DEF PushBytes, full, short
<1>7. CASE Accept(SetTop(full({})))
  BY <1>3, <1>7, TopOfStack, AcceptType
<1>8. CASE CanAlloc(heap) /\ Done(SetTop(full({Fresh(heap)})), lpChildResult,
                                 heap \cup {Fresh(heap)}, "Ok", FALSE)
  <2> DEFINE h == heap \cup {Fresh(heap)}
             stk == SetTop(full({Fresh(heap)}))
  <2>1. h \in SUBSET Block /\ stk \in Seq(BoundedFrame)
    BY <1>3, <1>5, <1>8, TopOfStack
  <2>2. Done(stk, lpChildResult, h, "Ok", FALSE)
    BY <1>8
  <2> HIDE DEF h, stk
  <2> QED
    BY <1>5, <2>1, <2>2, TopOfStack, OutcomeType DEF Status, Resumable
<1>9. CASE Len(bytes) > Room(f) /\ OutOfMemory(SetTop(short), lpChildResult, heap, FALSE)
  BY <1>4, <1>5, <1>9, TopOfStack, FailType
<1> QED
  BY <1>6, <1>7, <1>8, <1>9

(* The value of a finished string, and the string element it comes from. *)
LEMMA StringFinishType ==
  ASSUME TypeInv, Handling("String"), String_Finish(Top)
  PROVE  TypeInv'
<1> DEFINE v == [str |-> Top.buf, mem |-> {First}]
           h == (heap \cup {First}) \ (lpChildResult.mem \cup Top.mem)
<1>1. Top \in StringFrame
  BY TopOfStack, FrameByType
<1>2. CanAlloc(heap) => First \in Block
  BY FreshIsFree DEF First
<1>3. CanAlloc(heap) => v \in Value
  BY <1>1, <1>2, RoomInPage, Values
<1>4. CanAlloc(heap) => h \in SUBSET Block
  BY <1>2, TopOfStack, InCall
<1>5. \/ CanAlloc(heap) /\ StateStackPop(v, h, FALSE)
      \/ OutOfMemory(lpStateStack, lpChildResult, heap, FALSE)
  BY DEF String_Finish
<1> HIDE DEF v, h
<1>6. CASE CanAlloc(heap) /\ StateStackPop(v, h, FALSE)
  BY <1>3, <1>4, <1>6, TopOfStack, PopType
<1>7. CASE OutOfMemory(lpStateStack, lpChildResult, heap, FALSE)
  BY <1>7, TopOfStack, InCall, FailType
<1> QED
  BY <1>5, <1>6, <1>7

LEMMA HexDigits ==
  ASSUME NEW b \in HexDigit
  PROVE  HexValue(b) \in Nat /\ HexValue(b) < 16
BY DEF HexDigit, HexValue, Digit

(* d + 1 digits are worth less than 16^(d+1). *)
LEMMA NextDigit ==
  ASSUME NEW d \in Nat, d <= 3, NEW u \in Nat, u < Worth(d), NEW x \in Nat, x < 16
  PROVE  /\ u * 16 + x \in CodeUnit
         /\ d + 1 < 4 => u * 16 + x < Worth(d + 1)
<1>1. CASE d = 0
  BY <1>1 DEF Worth, CodeUnit
<1>2. CASE d = 1
  BY <1>2 DEF Worth, CodeUnit
<1>3. CASE d = 2
  BY <1>3 DEF Worth, CodeUnit
<1>4. CASE d = 3
  BY <1>4 DEF Worth, CodeUnit
<1> QED
  BY <1>1, <1>2, <1>3, <1>4

(* One more digit of a \u escape keeps the element typed, and bounded until   *)
(* it is the fourth.                                                         *)
LEMMA CodepointStep ==
  ASSUME TypeInv, Handling("String"), Top.state = "UTF16Codepoint", bByte \in HexDigit
  PROVE  LET g == [Top EXCEPT !.dwUBytes = Top.dwUBytes + 1,
                              !.dwUCodepoint = Top.dwUCodepoint * 16 + HexValue(bByte)]
         IN /\ g \in StringFrame /\ g.dwUCodepoint \in CodeUnit
            /\ g.dwUBytes < 4 => g \in BoundedFrame
<1> DEFINE d == Top.dwUBytes
           u == Top.dwUCodepoint
           c == u * 16 + HexValue(bByte)
           e == d + 1
           g == [Top EXCEPT !.dwUBytes = e, !.dwUCodepoint = c]
<1>1. Top \in StringFrame
  BY TopOfStack, FrameByType
<1>2. d \in Nat /\ d <= 3 /\ u \in Nat /\ u < Worth(d)
  <2>1. UnitBounded(Top) /\ Top.type = "String"
    BY TopOfStack DEF BoundedFrame
  <2>2. d \in 0 .. 4 /\ u \in CodeUnit
    BY <1>1 DEF StringFrame
  <2> QED
    BY <2>1, <2>2 DEF UnitBounded, CodeUnit
<1>3. /\ c \in CodeUnit /\ (e < 4 => e <= 3 /\ c < Worth(e))
      /\ e \in 0 .. 4
  <2>1. HexValue(bByte) \in Nat /\ HexValue(bByte) < 16
    BY HexDigits
  <2>2. c \in CodeUnit /\ (e < 4 => c < Worth(e))
    <3> HIDE DEF d, u
    <3> QED
      BY <1>2, <2>1, NextDigit
  <2>3. (e < 4 => e <= 3) /\ e \in 0 .. 4
    <3>1. \A k \in Nat : k <= 3 => (k + 1 < 4 => k + 1 <= 3) /\ k + 1 \in 0 .. 4
      OBVIOUS
    <3> HIDE DEF d
    <3> QED
      BY <1>2, <3>1
  <2> QED
    BY <2>2, <2>3
<1> HIDE DEF c, e
<1>4. g \in StringFrame /\ g.dwUBytes = e /\ g.dwUCodepoint = c
  BY <1>1, <1>3 DEF StringFrame
<1>5. e < 4 => g \in BoundedFrame
  <2> HIDE DEF g
  <2> QED
    BY <1>3, <1>4, SubFrames DEF BoundedFrame, UnitBounded
<1> QED
  BY <1>3, <1>4, <1>5 DEF c, e

LEMMA UTF16CodepointType ==
  ASSUME TypeInv, Handling("String"), Top.state = "UTF16Codepoint",
         String_UTF16Codepoint(Top)
  PROVE  TypeInv'
<1> DEFINE g == [Top EXCEPT !.dwUBytes = Top.dwUBytes + 1,
                            !.dwUCodepoint = Top.dwUCodepoint * 16 + HexValue(bByte)]
<1>1. bByte \in HexDigit => /\ g \in StringFrame /\ g.dwUCodepoint \in CodeUnit
                            /\ g.dwUBytes < 4 => g \in BoundedFrame
  BY CodepointStep
<1>2. \/ Reject
      \/ bByte \in HexDigit /\ g.dwUBytes < 4 /\ Accept(SetTop(g))
      \/ bByte \in HexDigit /\ PushBytes(g, Utf8(g.dwUCodepoint), "UTF16Codepoint")
  BY DEF String_UTF16Codepoint
<1> HIDE DEF g
<1>3. CASE Reject
  BY <1>3, TopOfStack, RejectType
<1>4. CASE bByte \in HexDigit /\ g.dwUBytes < 4 /\ Accept(SetTop(g))
  BY <1>1, <1>4, TopOfStack, AcceptType
<1>5. CASE bByte \in HexDigit /\ PushBytes(g, Utf8(g.dwUCodepoint), "UTF16Codepoint")
  BY <1>1, <1>5, Utf8Bytes, PushBytesType
<1> QED
  BY <1>2, <1>3, <1>4, <1>5

LEMMA StringStates ==
  ASSUME NEW f \in StringFrame
  PROVE  /\ [f EXCEPT !.state = "Escaped"] \in BoundedFrame
         /\ StartCodepoint(f) \in BoundedFrame
<1>1. [f EXCEPT !.state = "Escaped"] \in BoundedFrame
  <2>1. /\ [f EXCEPT !.state = "Escaped"] \in StringFrame
        /\ [f EXCEPT !.state = "Escaped"].state = "Escaped"
    BY DEF StringFrame
  <2> QED
    BY <2>1, SubFrames DEF BoundedFrame, UnitBounded
<1>2. StartCodepoint(f) \in BoundedFrame
  <2>1. 0 \in CodeUnit
    BY DEF CodeUnit
  <2>2. 0 \in 0 .. 4
    OBVIOUS
  <2>3. /\ StartCodepoint(f) \in StringFrame
        /\ StartCodepoint(f).dwUBytes = 0 /\ StartCodepoint(f).dwUCodepoint = 0
    BY <2>1, <2>2 DEF StringFrame, StartCodepoint
  <2>4. 0 < Worth(0) /\ 0 <= 3
    BY DEF Worth
  <2> QED
    BY <2>3, <2>4, SubFrames DEF BoundedFrame, UnitBounded
<1> QED
  BY <1>1, <1>2

LEMMA StringType ==
  ASSUME TypeInv, String_ProcessByte
  PROVE  TypeInv'
<1>1. Handling("String") /\ bByte # None /\ bByte \in Octet
  BY TopOfStack, InCall DEF String_ProcessByte
<1>2. Top \in StringFrame
  BY <1>1, TopOfStack, FrameByType
<1>3. \A o \in Octet : <<o>> \in Text
  BY DEF Text
<1>4. CASE Top.state = "Normal" /\ String_Normal(Top)
  <2>1. \/ Accept(SetTop([Top EXCEPT !.state = "Escaped"]))
        \/ PushBytes(Top, <<bByte>>, "Normal")
        \/ String_Finish(Top)
    BY <1>4 DEF String_Normal
  <2>2. CASE Accept(SetTop([Top EXCEPT !.state = "Escaped"]))
    BY <1>1, <1>2, <2>2, StringStates, TopOfStack, AcceptType
  <2>3. CASE PushBytes(Top, <<bByte>>, "Normal")
    BY <1>1, <1>2, <1>3, <2>3, PushBytesType
  <2>4. CASE String_Finish(Top)
    BY <1>1, <2>4, StringFinishType
  <2> QED
    BY <2>1, <2>2, <2>3, <2>4
<1>5. CASE Top.state = "Escaped" /\ String_Escaped(Top)
  <2>1. \/ bByte \in DOMAIN Unescaped /\ PushBytes(Top, <<Unescaped[bByte]>>, "Normal")
        \/ Accept(SetTop(StartCodepoint(Top)))
        \/ Reject
    BY <1>5 DEF String_Escaped
  <2>2. CASE bByte \in DOMAIN Unescaped /\ PushBytes(Top, <<Unescaped[bByte]>>, "Normal")
    <3>1. bByte \in DOMAIN Unescaped => Unescaped[bByte] \in Octet
      BY <1>1 DEF Unescaped, Octet
    <3>2. <<Unescaped[bByte]>> \in Text
      BY <1>3, <2>2, <3>1
    <3> QED
      BY <1>1, <1>2, <2>2, <3>2, PushBytesType
  <2>3. CASE Accept(SetTop(StartCodepoint(Top)))
    BY <1>1, <1>2, <2>3, StringStates, TopOfStack, AcceptType
  <2>4. CASE Reject
    BY <1>1, <2>4, RejectType
  <2> QED
    BY <2>1, <2>2, <2>3, <2>4
<1>6. CASE Top.state = "UTF16Codepoint" /\ String_UTF16Codepoint(Top)
  BY <1>1, <1>6, UTF16CodepointType
<1> QED
  BY <1>4, <1>5, <1>6 DEF String_ProcessByte

LEMMA NumberType ==
  ASSUME TypeInv, Number_ProcessByte
  PROVE  TypeInv'
<1> DEFINE next == NumberNext(Top.state, bByte)
<1>1. Handling("Number") /\ bByte # None /\ Top \in NumberFrame
  BY TopOfStack, FrameByType DEF Number_ProcessByte
<1>2. \/ next \in NumberState /\ Accept(SetTop([Top EXCEPT !.state = next]))
      \/ Number_Finish
      \/ Reject
  BY DEF Number_ProcessByte
<1> HIDE DEF next
<1>3. CASE next \in NumberState /\ Accept(SetTop([Top EXCEPT !.state = next]))
  <2>1. [Top EXCEPT !.state = next] \in BoundedFrame
    BY <1>1, <1>3, BoundedFrames DEF NumberFrame
  <2> QED
    BY <1>1, <1>3, <2>1, TopOfStack, AcceptType
<1>4. CASE Number_Finish
  <2> DEFINE h == heap \cup {First}
  <2>1. CanAlloc(heap) => /\ Leaf(First) \in Value
                          /\ h \in SUBSET Block
    BY <1>1, FreshIsFree, Values, InCall DEF First
  <2>2. \/ CanAlloc(heap) /\ StateStackPop(Leaf(First), h, TRUE)
        \/ OutOfMemory(lpStateStack, NoValue, heap, FALSE)
    BY <1>4 DEF Number_Finish
  <2> HIDE DEF h
  <2>3. CASE CanAlloc(heap) /\ StateStackPop(Leaf(First), h, TRUE)
    BY <1>1, <2>1, <2>3, TopOfStack, PopType
  <2>4. CASE OutOfMemory(lpStateStack, NoValue, heap, FALSE)
    BY <1>1, <2>4, TopOfStack, InCall, Values, FailType
  <2> QED
    BY <2>2, <2>3, <2>4
<1>5. CASE Reject
  BY <1>1, <1>5, RejectType
<1> QED
  BY <1>2, <1>3, <1>4, <1>5

LEMMA ContainerFinishType ==
  ASSUME TypeInv, bByte # None, lpStateStack # << >>,
         Top \in ObjectFrame \cup ArrayFrame, Container_Finish(Top)
  PROVE  TypeInv'
<1>1. Top.mem \in SUBSET Block
  BY DEF ObjectFrame, ArrayFrame
<1>2. [str |-> <<>>, mem |-> Top.mem] \in Value
  BY <1>1, Values
<1> QED
  BY <1>2, InCall, PopType DEF Container_Finish

LEMMA ObjectType ==
  ASSUME TypeInv, Object_ProcessByte
  PROVE  TypeInv'
<1>1. Handling("Object") /\ bByte # None /\ lpStateStack # << >> /\ Top \in ObjectFrame
      /\ lpStateStack \in Seq(BoundedFrame)
  BY TopOfStack, FrameByType DEF Object_ProcessByte
<1>2. \A s \in {"ExpectKey", "ReadKey", "ExpectObject", "ReadObject"} :
        SetTop([Top EXCEPT !.state = s]) \in Seq(BoundedFrame)
  <2>1. PICK b : b \in Block
    BY <1>1, TopOfStack, FrameByType
  <2> QED
    BY <1>1, <2>1, ObjectUpdates, Values, BoundedFrames, TopOfStack
<1>3. Reject => TypeInv'
  BY <1>1, RejectType
<1>4. Accept(lpStateStack) => TypeInv'
  BY <1>1, AcceptType
<1>5. Container_Finish(Top) => TypeInv'
  BY <1>1, ContainerFinishType
<1>6. CASE Object_ExpectKey(Top)
  <2>1. CASE String_Push(SetTop(AwaitKey(Top)))
    <3>1. SetTop(AwaitKey(Top)) \in Seq(BoundedFrame)
      BY <1>2 DEF AwaitKey
    <3> QED
      BY <1>1, <2>1, <3>1, PushFunctions
  <2> QED
    BY <1>3, <1>4, <1>5, <1>6, <2>1 DEF Object_ExpectKey
<1>7. CASE Object_ReadKey(Top)
  BY <1>1, <1>2, <1>3, <1>4, <1>7, AcceptType DEF Object_ReadKey
<1>8. CASE Object_ExpectObject(Top)
  BY <1>1, <1>2, <1>3, <1>4, <1>8, StartValueType DEF Object_ExpectObject
<1>9. CASE Object_ReadObject(Top)
  BY <1>1, <1>2, <1>3, <1>4, <1>5, <1>9, AcceptType DEF Object_ReadObject
<1> QED
  BY <1>6, <1>7, <1>8, <1>9 DEF Object_ProcessByte

LEMMA ArrayType ==
  ASSUME TypeInv, Array_ProcessByte
  PROVE  TypeInv'
<1>1. Handling("Array") /\ bByte # None /\ lpStateStack # << >> /\ Top \in ArrayFrame
      /\ lpStateStack \in Seq(BoundedFrame)
  BY TopOfStack, FrameByType DEF Array_ProcessByte
<1>2. \A s \in {"NoComma", "GotComma"} :
        SetTop([Top EXCEPT !.state = s]) \in Seq(BoundedFrame)
  <2>1. {} \in SUBSET Block
    OBVIOUS
  <2> QED
    BY <1>1, <2>1, ArrayUpdates, Values, BoundedFrames, TopOfStack
<1>3. CASE Container_Finish(Top)
  BY <1>1, <1>3, ContainerFinishType
<1>4. CASE StartValue(SetTop([Top EXCEPT !.state = "NoComma"]), bByte)
  BY <1>1, <1>2, <1>4, StartValueType
<1>5. CASE Accept(lpStateStack) \/ Accept(SetTop([Top EXCEPT !.state = "GotComma"]))
  BY <1>1, <1>2, <1>5, AcceptType
<1>6. CASE Reject
  BY <1>1, <1>6, RejectType
<1> QED
  BY <1>3, <1>4, <1>5, <1>6 DEF Array_ProcessByte

-----------------------------------------------------------------------------
(* The client and the specification. *)
LEMMA InitType ==
  ASSUME Init
  PROVE  TypeInv
<1>1. /\ lpStateStack = << >> /\ lpParser = {} /\ lpChildResult \in Value
      /\ bByte = None /\ status = "Ok" /\ heap = {} /\ documents = {}
      /\ roots \in 0 .. 2 /\ dwFlags = {}
  BY Values DEF Init
<1>2. callback \in BOOLEAN /\ oom \in BOOLEAN
  BY Zenon DEF Init
<1>3. /\ << >> \in Seq(Frame) /\ << >> \in Seq(BoundedFrame) /\ "Ok" \in Status
  BY EmptySeq DEF Status, Resumable
<1> QED
  BY ONLY <1>1, <1>2, <1>3 DEF TypeInv, TypeOK

LEMMA CreateType ==
  ASSUME TypeInv, NEW c \in Config, cjsonParserCreate(c)
  PROVE  TypeInv'
<1>1. c.flags \in SUBSET Flag /\ c.callback \in BOOLEAN
  BY ConfigAssumption
<1>2. {"Ok", "OutOfMemory", "InvalidParam"} \subseteq Status
  BY DEF Status, Resumable
<1>3. /\ << >> \in Seq(Frame) /\ << >> \in Seq(BoundedFrame)
      /\ CanAlloc(heap) => First \in Block
  BY EmptySeq, FreshIsFree DEF First
<1>4. /\ lpStateStack' = << >> /\ bByte' = None
      /\ lpChildResult' \in Value /\ documents' \in SUBSET (SUBSET Block)
      /\ roots' \in 0 .. 2
  BY DEF cjsonParserCreate, TypeInv, TypeOK
<1>5. /\ lpParser' \in SUBSET Block /\ heap' \in SUBSET Block
      /\ dwFlags' \in SUBSET Flag /\ status' \in Status
  BY <1>1, <1>2, <1>3 DEF cjsonParserCreate, TypeInv, TypeOK
<1>6. callback' \in BOOLEAN /\ oom' \in BOOLEAN
  BY <1>1 DEF cjsonParserCreate, TypeInv, TypeOK
<1> QED
  BY ONLY <1>3, <1>4, <1>5, <1>6 DEF TypeInv, TypeOK

LEMMA StepType ==
  ASSUME TypeInv, [Next]_vars
  PROVE  TypeInv'
<1>1. ASSUME NEW c \in Config, cjsonParserCreate(c) PROVE TypeInv'
  BY <1>1, CreateType
<1>2. ASSUME NEW b \in Byte, cjsonParserProcessByte(b) PROVE TypeInv'
  <2>1. "AlreadyFinished" \in Status /\ "AlreadyFinished" \in Resumable
    BY DEF Status, Resumable
  <2>2. /\ UNCHANGED <<lpParser, dwFlags, callback, lpStateStack, lpChildResult,
                       heap, documents, roots, oom>>
        /\ lpParser # {} /\ status \in Resumable
        /\ status' \in {status, "AlreadyFinished"} /\ bByte' \in {b, None}
    BY <1>2 DEF cjsonParserProcessByte, Idle
  <2> QED
    BY <2>1, <2>2 DEF TypeInv, TypeOK
<1>3. ASSUME ProcessOne PROVE TypeInv'
  BY <1>3, UniverseType, ConstantType, StringType, NumberType, ObjectType, ArrayType
     DEF ProcessOne
<1>4. ASSUME cjsonParserRelease PROVE TypeInv'
  <2>1. << >> \in Seq(Frame) /\ << >> \in Seq(BoundedFrame) /\ "Ok" \in Status
    BY EmptySeq DEF Status, Resumable
  <2>2. /\ lpStateStack' = << >> /\ lpParser' = {} /\ lpChildResult' \in Value
        /\ bByte' = None /\ status' = "Ok" /\ heap' \in SUBSET Block
        /\ documents' \in SUBSET (SUBSET Block) /\ dwFlags' = {}
        /\ roots' \in 0 .. 2
    BY <1>4, Values DEF cjsonParserRelease, Idle, TypeInv, TypeOK
  <2>3. callback' \in BOOLEAN /\ oom' \in BOOLEAN
    BY <1>4, Zenon DEF cjsonParserRelease
  <2> QED
    BY ONLY <2>1, <2>2, <2>3 DEF TypeInv, TypeOK
<1>5. ASSUME NEW d \in documents, cjsonReleaseValue(d) PROVE TypeInv'
  BY <1>5 DEF cjsonReleaseValue, TypeInv, TypeOK
<1>6. ASSUME UNCHANGED vars PROVE TypeInv'
  BY <1>6 DEF vars, TypeInv, TypeOK
<1> QED
  BY <1>1, <1>2, <1>3, <1>4, <1>5, <1>6 DEF Next

(* In every reachable state every variable of the parser and its client has  *)
(* its type, whatever bytes are fed and whatever allocations fail.           *)
THEOREM TypeCorrect == Spec => []TypeOK
<1>1. Init => TypeInv
  BY InitType
<1>2. TypeInv /\ [Next]_vars => TypeInv'
  BY StepType
<1>3. TypeInv => TypeOK
  BY DEF TypeInv
<1> QED
  BY <1>1, <1>2, <1>3, PTL DEF Spec

(* While the client goes on feeding, the \u escape of cjsonParser.c never    *)
(* collects a fourth digit without encoding it, and the code unit it has     *)
(* collected fits the digits read: the field of 16 bits does not overflow.   *)
THEOREM CodepointStaysBounded == Spec => []CodepointBounded
<1>1. Init => TypeInv
  BY InitType
<1>2. TypeInv /\ [Next]_vars => TypeInv'
  BY StepType
<1>3. TypeInv => CodepointBounded
  <2> SUFFICES ASSUME TypeInv, status \in Resumable,
                      NEW i \in 1 .. Len(lpStateStack)
               PROVE  UnitBounded(lpStateStack[i])
    BY DEF CodepointBounded
  <2>1. lpStateStack[i] \in BoundedFrame
    BY ElementOfSeq DEF TypeInv
  <2> QED
    BY <2>1 DEF BoundedFrame
<1> QED
  BY <1>1, <1>2, <1>3, PTL DEF Spec

-----------------------------------------------------------------------------
(* The discipline as a predicate of any stack.  Sound is what holds of every *)
(* element; Carrier and KeyCarrier are the elements that may have something  *)
(* above them.  The memory of a container is what makes its value non-NULL   *)
(* when it is handed to the parent array.                                    *)
Sound(f) == /\ f.type = "Array" /\ f.state = "GotComma" => f.dwElementCount > 0
            /\ f.type \in {"Object", "Array"} => f.mem # {}

Carrier(f) == \/ f.type = "Array" /\ f.state = "NoComma"
              \/ f.type = "Object" /\ f.state = "ReadObject"
KeyCarrier(f) == f.type = "Object" /\ f.state = "ReadKey"

Carries(f, g) == Carrier(f) \/ (KeyCarrier(f) /\ g.type = "String")

Nest(s) ==
  \A i \in 1 .. Len(s) :
    /\ Sound(s[i])
    /\ i < Len(s) => Carries(s[i], s[i + 1])
    /\ i + 1 < Len(s) => ~KeyCarrier(s[i])

NestInv == TypeInv /\ Nest(lpStateStack) /\ NoImplementationError

LEMMA NestIsWellNested ==
  ASSUME TypeInv, Nest(lpStateStack)
  PROVE  WellNested
<1> SUFFICES ASSUME NEW i \in 1 .. Len(lpStateStack)
             PROVE  LET f == lpStateStack[i]
                    IN /\ ~IsTop(i) =>
                            \/ f.type = "Array" /\ f.state = "NoComma"
                            \/ f.type = "Object" /\ f.state = "ReadObject"
                            \/ /\ f.type = "Object" /\ f.state = "ReadKey"
                               /\ IsTop(i + 1) /\ lpStateStack[i + 1].type = "String"
                       /\ f.type = "Array" /\ f.state = "GotComma" => f.dwElementCount > 0
  BY DEF WellNested
<1>1. Len(lpStateStack) \in Nat
  BY LenProperties DEF TypeInv, TypeOK
<1>2. CASE IsTop(i)
  BY <1>2 DEF Nest, Sound
<1>3. CASE ~IsTop(i)
  <2>1. i < Len(lpStateStack)
    BY <1>1, <1>3 DEF IsTop
  <2>2. ~(i + 1 < Len(lpStateStack)) => IsTop(i + 1)
    BY <1>1, <2>1 DEF IsTop
  <2> QED
    BY <1>3, <2>1, <2>2 DEF Nest, Sound, Carries, Carrier, KeyCarrier
<1> QED
  BY <1>2, <1>3

-----------------------------------------------------------------------------
(* What the stack operations do to the discipline. *)
LEMMA NestReplace ==
  ASSUME NEW s \in Seq(Frame), s # << >>, Nest(s),
         NEW g, g.type = s[Len(s)].type, Sound(g)
  PROVE  Nest([s EXCEPT ![Len(s)] = g])
<1> DEFINE n == Len(s)
           t == [s EXCEPT ![n] = g]
<1>1. n \in Nat \ {0} /\ n \in 1 .. n
  BY EmptySeq
<1>2. Len(t) = n /\ \A i \in 1 .. n : t[i] = IF i = n THEN g ELSE s[i]
  <2>1. s \in Seq(Frame \cup {g})
    BY SeqMonotonic
  <2> QED
    BY <1>1, <2>1, ExceptSeq
<1> HIDE DEF t
<1>3. ASSUME NEW i \in 1 .. n
      PROVE  /\ Sound(t[i])
             /\ i < n => Carries(t[i], t[i + 1])
             /\ i + 1 < n => ~KeyCarrier(t[i])
  <2>1. Sound(t[i])
    BY <1>2 DEF Nest
  <2>2. ASSUME i < n PROVE Carries(t[i], t[i + 1])
    <3>1. Carries(s[i], s[i + 1]) /\ t[i] = s[i] /\ i + 1 \in 1 .. n
      BY <1>1, <1>2, <2>2 DEF Nest
    <3>2. t[i + 1].type = s[i + 1].type
      BY <1>2, <3>1
    <3> QED
      BY <3>1, <3>2 DEF Carries
  <2>3. ASSUME i + 1 < n PROVE ~KeyCarrier(t[i])
    <3>1. i # n
      BY <1>1, <2>3
    <3> QED
      BY <1>2, <2>3, <3>1 DEF Nest
  <2> QED
    BY <2>1, <2>2, <2>3
<1> QED
  BY <1>2, <1>3 DEF Nest, t

LEMMA NestPop ==
  ASSUME NEW s \in Seq(Frame), s # << >>, Nest(s)
  PROVE  LET b == SubSeq(s, 1, Len(s) - 1)
         IN /\ Nest(b)
            /\ b # << >> => Carries(b[Len(b)], s[Len(s)])
<1> DEFINE n == Len(s)
           b == SubSeq(s, 1, n - 1)
<1>1. n \in Nat \ {0} /\ n - 1 \in Nat /\ n - 1 <= n
  BY EmptySeq
<1>2. b \in Seq(Frame) /\ Len(b) = n - 1 /\ \A i \in 1 .. n - 1 : b[i] = s[i]
  BY <1>1, Prefix
<1> HIDE DEF b
<1>3. ASSUME NEW i \in 1 .. n - 1
      PROVE  /\ Sound(b[i])
             /\ i < n - 1 => Carries(b[i], b[i + 1])
             /\ i + 1 < n - 1 => ~KeyCarrier(b[i])
  <2>1. i \in 1 .. n /\ b[i] = s[i]
    BY <1>1, <1>2
  <2>2. i < n - 1 => i < n /\ b[i + 1] = s[i + 1]
    BY <1>1, <1>2
  <2>3. i + 1 < n - 1 => i + 1 < n
    BY <1>1
  <2> QED
    BY <2>1, <2>2, <2>3 DEF Nest
<1>4. b # << >> => Carries(b[Len(b)], s[n])
  <2> SUFFICES ASSUME b # << >> PROVE Carries(b[n - 1], s[n])
    BY <1>2
  <2>1. n - 1 \in 1 .. n - 1 /\ n - 1 \in 1 .. n /\ n - 1 < n /\ (n - 1) + 1 = n
    BY <1>1, <1>2, EmptySeq
  <2>2. Carries(s[n - 1], s[(n - 1) + 1])
    BY <2>1 DEF Nest
  <2> QED
    BY <1>2, <2>1, <2>2
<1> QED
  BY <1>2, <1>3, <1>4 DEF Nest, b

LEMMA NestPush ==
  ASSUME NEW s \in Seq(Frame), Nest(s), NEW f \in Frame, Sound(f),
         s # << >> => Carries(s[Len(s)], f)
  PROVE  Nest(Append(s, f))
<1> DEFINE n == Len(s)
           t == Append(s, f)
<1>1. n \in Nat
  BY LenProperties
<1>2. Len(t) = n + 1 /\ (\A i \in 1 .. n : t[i] = s[i]) /\ t[n + 1] = f
  BY AppendProperties
<1> HIDE DEF t
<1>3. ASSUME NEW i \in 1 .. n + 1
      PROVE  /\ Sound(t[i])
             /\ i < n + 1 => Carries(t[i], t[i + 1])
             /\ i + 1 < n + 1 => ~KeyCarrier(t[i])
  <2>1. CASE i = n + 1
    BY <1>1, <1>2, <2>1
  <2>2. CASE i = n /\ n # 0
    BY <1>1, <1>2, <2>2, EmptySeq DEF Nest
  <2>3. CASE i \in 1 .. n /\ i < n
    <3>1. i + 1 \in 1 .. n
      BY <1>1, <2>3
    <3>2. Sound(t[i]) /\ Carries(t[i], t[i + 1])
      BY <1>2, <2>3, <3>1 DEF Nest
    <3>3. CASE i + 1 < n
      BY <1>2, <2>3, <3>2, <3>3 DEF Nest
    <3>4. CASE i + 1 = n
      <4>1. Carries(t[n], f) /\ Carries(t[i], t[n])
        BY <1>1, <1>2, <3>2, <3>4, EmptySeq
      <4>2. ~KeyCarrier(t[i])
        BY <4>1 DEF Carries, Carrier, KeyCarrier
      <4> QED
        BY <3>2, <4>2
    <3> QED
      BY <1>1, <2>3, <3>3, <3>4
  <2> QED
    BY <1>1, <2>1, <2>2, <2>3
<1> QED
  BY <1>1, <1>2, <1>3 DEF Nest, t

-----------------------------------------------------------------------------
(* A handler's outcome keeps the discipline when its stack does and its      *)
(* answer is not ImplementationError.                                        *)
Kept == Nest(lpStateStack') /\ NoImplementationError'

LEMMA DoneKept ==
  ASSUME NestInv, NEW stk, NEW v, NEW h, NEW e, NEW quiet \in BOOLEAN,
         Nest(stk), e # "ImplementationError", Done(stk, v, h, e, quiet)
  PROVE  Kept
<1>1. lpStateStack' = stk /\ status' \in {status, e}
  BY DEF Done, State, Return
<1> QED
  BY <1>1 DEF Kept, NestInv, NoImplementationError

LEMMA OutOfMemoryKept ==
  ASSUME NestInv, NEW stk, NEW v, NEW h, NEW quiet \in BOOLEAN,
         Nest(stk), OutOfMemory(stk, v, h, quiet)
  PROVE  Kept
<1>1. lpStateStack' = stk /\ status' \in {status, "OutOfMemory"}
  BY DEF OutOfMemory, State, Return
<1> QED
  BY <1>1 DEF Kept, NestInv, NoImplementationError

(* Popping: what is below was waiting for a child, so it is notified in a    *)
(* state that takes one.                                                     *)
LEMMA PopKept ==
  ASSUME NestInv, bByte # None, lpStateStack # << >>,
         NEW v \in Value, v.mem # {}, NEW h \in SUBSET Block, NEW quiet \in BOOLEAN,
         StateStackPop(v, h, quiet)
  PROVE  Kept
<1> DEFINE rest == h \ {Top.elm}
           n == Len(Below)
           f == Below[n]
<1>1. /\ lpStateStack \in Seq(Frame) /\ Below \in Seq(Frame) /\ Nest(lpStateStack)
      /\ rest \in SUBSET Block
  BY InCall, StackOperators, BoundedFrames DEF NestInv
<1>2. Nest(Below) /\ (Below # << >> => Carries(f, Top))
  BY <1>1, NestPop DEF Below, Top
<1>3. CASE Below = << >>
  <2>1. Universe_PopNotify(Below, v, rest, quiet)
    BY <1>3 DEF StateStackPop
  <2>2. lpStateStack' = Below /\ status' \in {status, "Finished"} \cup CallbackResult
    BY <2>1 DEF Universe_PopNotify, State, Return
  <2> QED
    BY <1>2, <2>2, CallbackAssumption DEF Kept, NestInv, NoImplementationError
<1>4. CASE Below # << >>
  <2>1. n \in 1 .. n /\ f \in Frame /\ Sound(f)
    BY <1>1, <1>2, <1>4, EmptySeq, ElementOfSeq DEF Nest
  <2>2. ASSUME NEW g \in Frame, g.type = f.type, Sound(g)
        PROVE  Nest([Below EXCEPT ![n] = g])
    BY <1>1, <1>2, <1>4, <2>2, NestReplace
  <2>3. CanAlloc(rest) => Fresh(rest) \in Block
    BY FreshIsFree
  <2>4. CASE f.type = "Object"
    <3>1. f \in ObjectFrame /\ f.mem # {}
      BY <2>1, <2>4, FrameByType DEF Sound
    <3>2. Object_PopNotify(Below, v, rest, quiet)
      BY <1>4, <2>4 DEF StateStackPop
    <3>3. f.state \in {"ReadKey", "ReadObject"}
      BY <1>2, <1>4, <2>4 DEF Carries, Carrier, KeyCarrier
    <3>4. ASSUME NEW g \in ObjectFrame, g.mem # {}
          PROVE  Nest([Below EXCEPT ![n] = g])
      <4>1. g \in Frame /\ g.type = "Object"
        BY SubFrames DEF ObjectFrame
      <4>2. Sound(g)
        BY <3>4, <4>1 DEF Sound
      <4> QED
        BY <2>2, <2>4, <4>1, <4>2
    <3>5. CASE f.state = "ReadKey"
      <4> DEFINE key == [str |-> v.str, mem |-> {Fresh(rest)}]
                 g == [f EXCEPT !.lpCurrentKey = key]
      <4>1. CanAlloc(rest) => g \in ObjectFrame /\ g.mem = f.mem
        <5>1. CanAlloc(rest) => key \in Value
          BY <2>3, Values
        <5> HIDE DEF key
        <5>2. CanAlloc(rest) => g \in ObjectFrame
          BY <2>3, <3>1, <5>1, ObjectUpdates
        <5>3. g.mem = f.mem
          BY <3>1 DEF ObjectFrame
        <5> QED
          BY <5>2, <5>3
      <4>2. \/ CanAlloc(rest) /\ Done([Below EXCEPT ![n] = g], Taken(v),
                                      (rest \cup {Fresh(rest)}) \ v.mem, "Ok", quiet)
            \/ OutOfMemory(Below, v, rest, quiet)
        BY <3>2, <3>5 DEF Object_PopNotify, Key_PopNotify
      <4> HIDE DEF g
      <4>3. CanAlloc(rest) => Nest([Below EXCEPT ![n] = g])
        BY <3>1, <3>4, <4>1
      <4>4. CASE CanAlloc(rest) /\ Done([Below EXCEPT ![n] = g], Taken(v),
                                      (rest \cup {Fresh(rest)}) \ v.mem, "Ok", quiet)
        BY <4>3, <4>4, DoneKept, OutOfMemoryKept
      <4>5. CASE OutOfMemory(Below, v, rest, quiet)
        BY <1>2, <4>5, DoneKept, OutOfMemoryKept
      <4> QED
        BY <4>2, <4>4, <4>5
    <3>6. CASE f.state = "ReadObject"
      <4> DEFINE g == ForgetKey(ObjectStore(f, Fresh(rest), v))
      <4>1. CanAlloc(rest) => g \in ObjectFrame /\ g.mem # {}
        <5> SUFFICES ASSUME CanAlloc(rest) PROVE g \in ObjectFrame /\ g.mem # {}
          OBVIOUS
        <5>1. ObjectStore(f, Fresh(rest), v) \in ObjectFrame
          BY <2>3, <3>1, ObjectUpdates
        <5>2. g \in ObjectFrame
          BY <2>3, <5>1, ObjectUpdates
        <5>3. v.mem \subseteq ObjectStore(f, Fresh(rest), v).mem
          BY <3>1 DEF ObjectStore, ObjectFrame
        <5>4. g.mem = ObjectStore(f, Fresh(rest), v).mem
          BY <5>1 DEF ForgetKey, ObjectFrame
        <5> QED
          BY <5>2, <5>3, <5>4
      <4>2. ForgetKey(f) \in ObjectFrame /\ ForgetKey(f).mem = f.mem
        <5>1. ForgetKey(f) \in ObjectFrame
          BY <2>1, <3>1, FrameByType, ObjectUpdates
        <5>2. ForgetKey(f).mem = f.mem
          BY <3>1 DEF ForgetKey, ObjectFrame
        <5> QED
          BY <5>1, <5>2
      <4>3. \/ CanAlloc(rest)
               /\ Done([Below EXCEPT ![n] = g], Taken(v),
                       ObjectStoreHeap(f, rest, Fresh(rest)) \ f.lpCurrentKey.mem, "Ok", quiet)
            \/ OutOfMemory([Below EXCEPT ![n] = ForgetKey(f)], Taken(v),
                           rest \ (v.mem \cup f.lpCurrentKey.mem), quiet)
        BY <3>2, <3>6 DEF Object_PopNotify, Member_PopNotify
      <4> HIDE DEF g
      <4>4. /\ CanAlloc(rest) => Nest([Below EXCEPT ![n] = g])
            /\ Nest([Below EXCEPT ![n] = ForgetKey(f)])
        BY <3>1, <3>4, <4>1, <4>2
      <4>5. CASE CanAlloc(rest)
               /\ Done([Below EXCEPT ![n] = g], Taken(v),
                       ObjectStoreHeap(f, rest, Fresh(rest)) \ f.lpCurrentKey.mem, "Ok", quiet)
        BY <4>4, <4>5, DoneKept, OutOfMemoryKept
      <4>6. CASE OutOfMemory([Below EXCEPT ![n] = ForgetKey(f)], Taken(v),
                             rest \ (v.mem \cup f.lpCurrentKey.mem), quiet)
        BY <4>4, <4>6, DoneKept, OutOfMemoryKept
      <4> QED
        BY <4>3, <4>5, <4>6
    <3> QED
      BY <3>3, <3>5, <3>6
  <2>5. CASE f.type # "Object"
    <3>1. f.type = "Array" /\ f.state = "NoComma" /\ f \in ArrayFrame
      BY <1>2, <1>4, <2>1, <2>5, FrameByType DEF Carries, Carrier, KeyCarrier
    <3>2. Array_PopNotify(Below, v, rest, quiet) /\ ~IsNull(v)
      BY <1>4, <3>1 DEF StateStackPop, IsNull
    <3>3. ASSUME NEW page \in SUBSET Block
          PROVE  Nest([Below EXCEPT ![n] = ArrayStore(f, page, v)])
      <4>1. ArrayStore(f, page, v) \in ArrayFrame
        BY <3>1, ArrayUpdates
      <4>2. /\ ArrayStore(f, page, v).type = "Array"
            /\ ArrayStore(f, page, v).state = "NoComma"
            /\ v.mem \subseteq ArrayStore(f, page, v).mem
        BY <3>1 DEF ArrayStore, ArrayFrame
      <4>3. Sound(ArrayStore(f, page, v))
        BY <4>2 DEF Sound
      <4> QED
        BY <2>2, <3>1, <4>1, <4>2, <4>3, SubFrames
    <3>4. Nest([Below EXCEPT ![n] = ArrayStore(f, {}, v)])
          /\ (CanAlloc(rest) => Nest([Below EXCEPT ![n] = ArrayStore(f, {Fresh(rest)}, v)]))
      <4>1. {} \in SUBSET Block /\ (CanAlloc(rest) => {Fresh(rest)} \in SUBSET Block)
        BY <2>3
      <4> QED
        BY <3>3, <4>1
    <3>5. \/ Done([Below EXCEPT ![n] = ArrayStore(f, {}, v)], Taken(v), rest \cup {}, "Ok", quiet)
          \/ CanAlloc(rest) /\ Done([Below EXCEPT ![n] = ArrayStore(f, {Fresh(rest)}, v)],
                                    Taken(v), rest \cup {Fresh(rest)}, "Ok", quiet)
          \/ OutOfMemory(Below, Taken(v), rest, quiet)
      BY <3>2 DEF Array_PopNotify
    <3>6. CASE Done([Below EXCEPT ![n] = ArrayStore(f, {}, v)], Taken(v), rest \cup {},
                    "Ok", quiet)
      BY <3>4, <3>6, DoneKept, OutOfMemoryKept
    <3>7. CASE CanAlloc(rest) /\ Done([Below EXCEPT ![n] = ArrayStore(f, {Fresh(rest)}, v)],
                                      Taken(v), rest \cup {Fresh(rest)}, "Ok", quiet)
      BY <3>4, <3>7, DoneKept, OutOfMemoryKept
    <3>8. CASE OutOfMemory(Below, Taken(v), rest, quiet)
      BY <1>2, <3>8, DoneKept, OutOfMemoryKept
    <3> QED
      BY <3>5, <3>6, <3>7, <3>8
  <2> QED
    BY <2>4, <2>5
<1> QED
  BY <1>3, <1>4


-----------------------------------------------------------------------------
(* The handlers. *)
LEMMA PushKept ==
  ASSUME NestInv, bByte # None, NEW stk \in Seq(Frame), Nest(stk),
         \/ /\ stk # << >> => Carrier(stk[Len(stk)])
            /\ StartValue(stk, bByte)
         \/ /\ stk # << >> => KeyCarrier(stk[Len(stk)])
            /\ String_Push(stk)
  PROVE  Kept
<1>1. OutOfMemory(stk, lpChildResult, heap, FALSE) => Kept
  BY DoneKept, OutOfMemoryKept
<1>2. ASSUME NEW f \in Frame, Sound(f), stk # << >> => Carries(stk[Len(stk)], f),
             NEW h, NEW redeliver \in BOOLEAN, Push(stk, f, h, redeliver)
      PROVE  Kept
  <2>1. Nest(Append(stk, f))
    BY <1>2, NestPush
  <2>2. Done(Append(stk, f), lpChildResult, h, "Ok", redeliver)
    BY <1>2 DEF Push
  <2> QED
    BY <2>1, <2>2, DoneKept, OutOfMemoryKept
<1>3. /\ CanAlloc(heap) => First \in Block /\ Fresh(heap) = First
      /\ CanAllocBoth => First \in Block /\ Second \in Block
  <2>1. CanAlloc(heap) => First \in Block /\ First \notin heap
    BY FreshIsFree DEF First
  <2>2. CanAllocBoth => CanAlloc(heap) /\ CanAlloc(heap \cup {First})
    BY <2>1 DEF CanAllocBoth, CanAlloc
  <2> QED
    BY <2>1, <2>2, FreshIsFree DEF First, Second
<1>4. ASSUME NEW b \in Block, NEW o \in Block
      PROVE  /\ \A t \in DOMAIN Literal : NewConstant(b, t) \in Frame /\ Sound(NewConstant(b, t))
             /\ NewString(b) \in Frame /\ Sound(NewString(b)) /\ NewString(b).type = "String"
             /\ NewNumber(b) \in Frame /\ Sound(NewNumber(b))
             /\ NewObject(b, o) \in Frame /\ Sound(NewObject(b, o))
             /\ NewArray(b, o) \in Frame /\ Sound(NewArray(b, o))
  BY NewFrames, BoundedFrames
     DEF Sound, NewConstant, NewString, NewNumber, NewObject, NewArray
<1>5. ASSUME String_Push(stk) PROVE Kept
  <2>1. CanAlloc(heap) =>
          (stk # << >> => Carries(stk[Len(stk)], NewString(First)))
    BY <1>3, <1>4 DEF Carries
  <2> QED
    BY <1>1, <1>2, <1>3, <1>4, <1>5, <2>1 DEF String_Push
<1>6. ASSUME stk # << >> => Carrier(stk[Len(stk)]), StartValue(stk, bByte)
      PROVE  Kept
  <2>1. \A f : stk # << >> => Carries(stk[Len(stk)], f)
    BY <1>6 DEF Carries
  <2>2. ASSUME NEW t \in DOMAIN Literal, Constant_Push(stk, t) PROVE Kept
    BY <1>1, <1>2, <1>3, <1>4, <2>1, <2>2 DEF Constant_Push
  <2>3. ASSUME Number_Push(stk) PROVE Kept
    BY <1>1, <1>2, <1>3, <1>4, <2>1, <2>3 DEF Number_Push
  <2>4. ASSUME NEW f, CanAllocBoth => f \in Frame /\ Sound(f), Container_Push(stk, f)
        PROVE  Kept
    <3>1. CASE CanAllocBoth /\ Push(stk, f, heap \cup {First, Second}, FALSE)
      BY <1>2, <2>1, <2>4, <3>1
    <3> QED
      BY <1>1, <2>4, <3>1 DEF Container_Push
  <2>5. ASSUME Object_Push(stk) \/ Array_Push(stk) PROVE Kept
    BY <1>3, <1>4, <2>4, <2>5 DEF Object_Push, Array_Push
  <2>6. {"True", "False", "Null"} \subseteq DOMAIN Literal
    BY DEF Literal
  <2> QED
    BY <1>5, <1>6, <2>2, <2>3, <2>5, <2>6 DEF StartValue
<1> QED
  BY <1>5, <1>6

(* An element that stays what it is may change on top of the stack. *)
LEMMA SetTopKept ==
  ASSUME NestInv, NEW t, Handling(t), NEW g, g.type = t, Sound(g)
  PROVE  /\ Nest(SetTop(g))
         /\ Accept(SetTop(g)) => Kept
         /\ \A v, h : /\ Done(SetTop(g), v, h, "Ok", FALSE) => Kept
                      /\ OutOfMemory(SetTop(g), v, h, FALSE) => Kept
<1>1. lpStateStack \in Seq(Frame) /\ lpStateStack # << >> /\ Top.type = t
  BY TopOfStack DEF NestInv
<1>2. Nest(SetTop(g))
  BY <1>1, NestReplace DEF NestInv, SetTop, Top
<1>3. \A v, h : Done(SetTop(g), v, h, "Ok", FALSE) => Kept
  BY <1>2, DoneKept
<1>4. \A v, h : OutOfMemory(SetTop(g), v, h, FALSE) => Kept
  BY <1>2, OutOfMemoryKept
<1> QED
  BY <1>2, <1>3, <1>4 DEF Accept

LEMMA ShortAnswersKept ==
  ASSUME NestInv
  PROVE  /\ Accept(lpStateStack) => Kept
         /\ Reject => Kept
         /\ \A v, h : OutOfMemory(lpStateStack, v, h, FALSE) => Kept
BY DoneKept, OutOfMemoryKept DEF Accept, Reject, NestInv

LEMMA UniverseKept ==
  ASSUME NestInv, Universe_ProcessByte
  PROVE  Kept
<1>1. bByte # None /\ lpStateStack \in Seq(Frame) /\ Nest(lpStateStack)
  BY InCall, BoundedFrames DEF NestInv, Universe_ProcessByte
<1> QED
  BY <1>1, PushKept, ShortAnswersKept DEF Universe_ProcessByte

LEMMA ConstantKept ==
  ASSUME NestInv, Constant_ProcessByte
  PROVE  Kept
<1> DEFINE n == Top.dwMatchedBytes
           g == [Top EXCEPT !.dwMatchedBytes = n + 1]
           h == heap \ lpChildResult.mem
<1>1. Handling("Constant") /\ Top \in ConstantFrame /\ TypeInv
  BY TopOfStack, FrameByType DEF Constant_ProcessByte, NestInv
<1>2. g.type = "Constant" /\ Sound(g)
  <2>1. g.type = "Constant"
    BY <1>1 DEF ConstantFrame
  <2> QED
    BY <2>1 DEF Sound
<1>3. \/ Reject
      \/ Accept(SetTop(g))
      \/ CanAlloc(h) /\ StateStackPop(Leaf(Fresh(h)), h \cup {Fresh(h)}, FALSE)
      \/ OutOfMemory(SetTop(g), NoValue, h, FALSE)
  BY DEF Constant_ProcessByte
<1>4. CASE CanAlloc(h) /\ StateStackPop(Leaf(Fresh(h)), h \cup {Fresh(h)}, FALSE)
  <2>1. h \in SUBSET Block /\ Fresh(h) \in Block
    BY <1>1, <1>4, TopOfStack, InCall, FreshIsFree
  <2>2. /\ Leaf(Fresh(h)) \in Value /\ Leaf(Fresh(h)).mem # {}
        /\ h \cup {Fresh(h)} \in SUBSET Block
    BY <2>1, Values DEF Leaf
  <2> HIDE DEF h
  <2> QED
    BY <1>1, <1>4, <2>2, TopOfStack, PopKept
<1> HIDE DEF g, h
<1> QED
  BY <1>1, <1>2, <1>3, <1>4, SetTopKept, ShortAnswersKept

LEMMA PushBytesKept ==
  ASSUME NestInv, Handling("String"), NEW f, f.type = "String", f \in StringFrame,
         NEW bytes, NEW onFailure, PushBytes(f, bytes, onFailure)
  PROVE  Kept
<1>1. ASSUME NEW more, NEW page, NEW s
      PROVE  LET g == [Buffered(f, more, page) EXCEPT !.state = s]
             IN g.type = "String" /\ Sound(g)
  <2> DEFINE g == [Buffered(f, more, page) EXCEPT !.state = s]
  <2>1. g.type = "String"
    BY DEF Buffered, StringFrame
  <2> HIDE DEF g
  <2>2. Sound(g)
    BY <2>1 DEF Sound
  <2> QED
    BY <2>1, <2>2 DEF g
<1>2. \E more, page, s, v, h :
        LET g == [Buffered(f, more, page) EXCEPT !.state = s]
        IN \/ Done(SetTop(g), v, h, "Ok", FALSE)
           \/ OutOfMemory(SetTop(g), v, h, FALSE)
  BY DEF PushBytes, Accept
<1> QED
  BY <1>1, <1>2, SetTopKept

LEMMA StringKept ==
  ASSUME NestInv, String_ProcessByte
  PROVE  Kept
<1>1. Handling("String") /\ Top \in StringFrame /\ Top.type = "String" /\ TypeInv
  BY TopOfStack, FrameByType DEF String_ProcessByte, NestInv
<1>2. \A bytes, onFailure : PushBytes(Top, bytes, onFailure) => Kept
  BY <1>1, PushBytesKept
<1>3. CASE Top.state = "Normal" /\ String_Normal(Top)
  <2> DEFINE g == [Top EXCEPT !.state = "Escaped"]
  <2>1. g.type = "String" /\ Sound(g)
    BY <1>1 DEF StringFrame, Sound
  <2>2. CASE String_Finish(Top)
    <3> DEFINE v == [str |-> Top.buf, mem |-> {First}]
               h == (heap \cup {First}) \ (lpChildResult.mem \cup Top.mem)
    <3>1. CanAlloc(heap) => v \in Value /\ v.mem # {} /\ h \in SUBSET Block
      <4>1. CanAlloc(heap) => First \in Block
        BY FreshIsFree DEF First
      <4> QED
        BY <1>1, <4>1, RoomInPage, Values, TopOfStack, InCall
    <3>2. \/ CanAlloc(heap) /\ StateStackPop(v, h, FALSE)
          \/ OutOfMemory(lpStateStack, lpChildResult, heap, FALSE)
      BY <2>2 DEF String_Finish
    <3> HIDE DEF v, h
    <3>3. CASE CanAlloc(heap) /\ StateStackPop(v, h, FALSE)
      BY <1>1, <3>1, <3>3, TopOfStack, PopKept
    <3> QED
      BY <3>2, <3>3, ShortAnswersKept
  <2> HIDE DEF g
  <2>3. Accept(SetTop(g)) => Kept
    BY <1>1, <2>1, SetTopKept
  <2> QED
    BY <1>2, <1>3, <2>2, <2>3 DEF String_Normal, g
<1>4. CASE Top.state = "Escaped" /\ String_Escaped(Top)
  <2> DEFINE g == StartCodepoint(Top)
  <2>1. g.type = "String" /\ Sound(g)
    BY <1>1 DEF StringFrame, Sound, StartCodepoint
  <2> HIDE DEF g
  <2>2. Accept(SetTop(g)) => Kept
    BY <1>1, <2>1, SetTopKept
  <2> QED
    BY <1>2, <1>4, <2>2, ShortAnswersKept DEF String_Escaped, g
<1>5. CASE Top.state = "UTF16Codepoint" /\ String_UTF16Codepoint(Top)
  <2> DEFINE g == [Top EXCEPT !.dwUBytes = Top.dwUBytes + 1,
                              !.dwUCodepoint = Top.dwUCodepoint * 16 + HexValue(bByte)]
  <2>1. g.type = "String" /\ Sound(g)
    BY <1>1 DEF StringFrame, Sound
  <2>2. \/ Reject
        \/ Accept(SetTop(g))
        \/ bByte \in HexDigit /\ PushBytes(g, Utf8(g.dwUCodepoint), "UTF16Codepoint")
    BY <1>5 DEF String_UTF16Codepoint
  <2>3. bByte \in HexDigit => g \in StringFrame
    BY <1>1, <1>5, CodepointStep
  <2> HIDE DEF g
  <2>4. CASE bByte \in HexDigit /\ PushBytes(g, Utf8(g.dwUCodepoint), "UTF16Codepoint")
    BY <1>1, <2>1, <2>3, <2>4, PushBytesKept
  <2> QED
    BY <1>1, <2>1, <2>2, <2>4, SetTopKept, ShortAnswersKept
<1> QED
  BY <1>3, <1>4, <1>5 DEF String_ProcessByte

LEMMA NumberKept ==
  ASSUME NestInv, Number_ProcessByte
  PROVE  Kept
<1> DEFINE next == NumberNext(Top.state, bByte)
           g == [Top EXCEPT !.state = next]
<1>1. Handling("Number") /\ Top \in NumberFrame /\ TypeInv
  BY TopOfStack, FrameByType DEF Number_ProcessByte, NestInv
<1>2. g.type = "Number" /\ Sound(g)
  <2>1. g.type = "Number"
    BY <1>1 DEF NumberFrame
  <2> QED
    BY <2>1 DEF Sound
<1>3. \/ Accept(SetTop(g))
      \/ CanAlloc(heap) /\ StateStackPop(Leaf(First), heap \cup {First}, TRUE)
      \/ OutOfMemory(lpStateStack, NoValue, heap, FALSE)
      \/ Reject
  BY DEF Number_ProcessByte, Number_Finish
<1> HIDE DEF g
<1>4. CASE CanAlloc(heap) /\ StateStackPop(Leaf(First), heap \cup {First}, TRUE)
  <2> DEFINE h == heap \cup {First}
  <2>1. Leaf(First) \in Value /\ Leaf(First).mem # {} /\ h \in SUBSET Block
    BY <1>1, <1>4, FreshIsFree, Values, InCall, TopOfStack DEF First, Leaf
  <2>2. StateStackPop(Leaf(First), h, TRUE)
    BY <1>4
  <2> HIDE DEF h
  <2> QED
    BY <1>1, <2>1, <2>2, TopOfStack, PopKept
<1> QED
  BY <1>1, <1>2, <1>3, <1>4, SetTopKept, ShortAnswersKept

LEMMA ContainerFinishKept ==
  ASSUME NestInv, bByte # None, lpStateStack # << >>,
         Top \in ObjectFrame \cup ArrayFrame, Container_Finish(Top)
  PROVE  Kept
<1> DEFINE v == [str |-> <<>>, mem |-> Top.mem]
<1>1. /\ lpStateStack \in Seq(Frame) /\ heap \in SUBSET Block
      /\ Nest(lpStateStack)
  BY InCall, BoundedFrames DEF NestInv
<1>2. Top.type \in {"Object", "Array"} /\ Top.mem \in SUBSET Block
  BY DEF ObjectFrame, ArrayFrame
<1>3. Sound(Top)
  <2>1. Len(lpStateStack) \in 1 .. Len(lpStateStack)
    BY <1>1, EmptySeq
  <2> QED
    BY <1>1, <2>1 DEF Nest, Top
<1>4. v \in Value /\ v.mem # {}
  BY <1>2, <1>3, Values DEF Sound
<1>5. StateStackPop(v, heap, FALSE)
  BY DEF Container_Finish
<1> HIDE DEF v
<1> QED
  BY <1>1, <1>4, <1>5, PopKept

LEMMA ObjectKept ==
  ASSUME NestInv, Object_ProcessByte
  PROVE  Kept
<1>1. /\ Handling("Object") /\ bByte # None /\ lpStateStack # << >>
      /\ Top \in ObjectFrame /\ Top \in Frame
      /\ lpStateStack \in Seq(Frame) /\ Nest(lpStateStack) /\ TypeInv
  BY TopOfStack, FrameByType DEF Object_ProcessByte, NestInv
<1>2. Sound(Top)
  <2>1. Len(lpStateStack) \in 1 .. Len(lpStateStack)
    BY <1>1, EmptySeq
  <2> QED
    BY <1>1, <2>1 DEF Nest, Top
<1>3. ASSUME NEW s \in {"ExpectKey", "ReadKey", "ExpectObject", "ReadObject"}
      PROVE  LET g == [Top EXCEPT !.state = s]
             IN /\ SetTop(g) \in Seq(Frame) /\ Nest(SetTop(g))
                /\ SetTop(g)[Len(SetTop(g))] = g
                /\ g.type = "Object" /\ g.state = s
                /\ Accept(SetTop(g)) => Kept
  <2> DEFINE g == [Top EXCEPT !.state = s]
  <2>1. g \in ObjectFrame /\ g.type = "Object" /\ g.state = s /\ g.mem = Top.mem
    BY <1>1 DEF ObjectFrame
  <2>2. Sound(g)
    BY <1>1, <1>2, <2>1 DEF Sound, ObjectFrame
  <2> HIDE DEF g
  <2>3. Nest(SetTop(g)) /\ (Accept(SetTop(g)) => Kept)
    BY <1>1, <2>1, <2>2, SetTopKept
  <2>4. SetTop(g) \in Seq(Frame) /\ SetTop(g)[Len(SetTop(g))] = g
    BY <1>1, <2>1, SubFrames, StackOperators
  <2> QED
    BY <2>1, <2>3, <2>4 DEF g
<1>4. Container_Finish(Top) => Kept
  BY <1>1, ContainerFinishKept
<1>5. CASE Object_ExpectKey(Top)
  <2>1. CASE String_Push(SetTop(AwaitKey(Top)))
    BY <1>1, <1>3, <2>1, PushKept DEF AwaitKey, KeyCarrier
  <2> QED
    BY <1>4, <1>5, <2>1, ShortAnswersKept DEF Object_ExpectKey
<1>6. CASE Object_ReadKey(Top)
  BY <1>3, <1>6, ShortAnswersKept DEF Object_ReadKey
<1>7. CASE Object_ExpectObject(Top)
  <2>1. CASE StartValue(SetTop([Top EXCEPT !.state = "ReadObject"]), bByte)
    BY <1>1, <1>3, <2>1, PushKept DEF Carrier
  <2> QED
    BY <1>7, <2>1, ShortAnswersKept DEF Object_ExpectObject
<1>8. CASE Object_ReadObject(Top)
  BY <1>3, <1>4, <1>8, ShortAnswersKept DEF Object_ReadObject
<1> QED
  BY <1>5, <1>6, <1>7, <1>8 DEF Object_ProcessByte

LEMMA ArrayKept ==
  ASSUME NestInv, Array_ProcessByte
  PROVE  Kept
<1>1. /\ Handling("Array") /\ bByte # None /\ lpStateStack # << >>
      /\ Top \in ArrayFrame /\ Top \in Frame
      /\ lpStateStack \in Seq(Frame) /\ Nest(lpStateStack) /\ TypeInv
  BY TopOfStack, FrameByType DEF Array_ProcessByte, NestInv
<1>2. Sound(Top)
  <2>1. Len(lpStateStack) \in 1 .. Len(lpStateStack)
    BY <1>1, EmptySeq
  <2> QED
    BY <1>1, <2>1 DEF Nest, Top
<1>3. CASE StartValue(SetTop([Top EXCEPT !.state = "NoComma"]), bByte)
  <2> DEFINE g == [Top EXCEPT !.state = "NoComma"]
  <2>1. g \in ArrayFrame /\ g.type = "Array" /\ g.state = "NoComma" /\ g.mem = Top.mem
    BY <1>1 DEF ArrayFrame
  <2>2. Sound(g)
    BY <1>1, <1>2, <2>1 DEF Sound, ArrayFrame
  <2>3. StartValue(SetTop(g), bByte)
    BY <1>3
  <2> HIDE DEF g
  <2>4. SetTop(g) \in Seq(Frame) /\ SetTop(g)[Len(SetTop(g))] = g
    BY <1>1, <2>1, SubFrames, StackOperators
  <2>5. Nest(SetTop(g))
    BY <1>1, <2>1, <2>2, SetTopKept
  <2> QED
    BY <1>1, <2>1, <2>3, <2>4, <2>5, PushKept DEF Carrier
<1>4. CASE CommaAllowed(Top) /\ Accept(SetTop([Top EXCEPT !.state = "GotComma"]))
  <2> DEFINE g == [Top EXCEPT !.state = "GotComma"]
  <2>1. g.type = "Array" /\ g.mem = Top.mem /\ g.dwElementCount > 0
    BY <1>1, <1>4 DEF ArrayFrame, CommaAllowed
  <2>2. Sound(g)
    BY <1>1, <1>2, <2>1 DEF Sound, ArrayFrame
  <2>3. Accept(SetTop(g))
    BY <1>4
  <2> HIDE DEF g
  <2> QED
    BY <1>1, <2>1, <2>2, <2>3, SetTopKept
<1>5. CASE Container_Finish(Top)
  BY <1>1, <1>5, ContainerFinishKept
<1> QED
  BY <1>3, <1>4, <1>5, ShortAnswersKept DEF Array_ProcessByte

-----------------------------------------------------------------------------
(* The specification. *)
LEMMA InitNest ==
  ASSUME Init
  PROVE  NestInv
<1>1. lpStateStack = << >> /\ status = "Ok" /\ TypeInv
  BY InitType DEF Init
<1>2. Len(<< >>) = 0
  BY EmptySeq
<1> QED
  BY <1>1, <1>2 DEF NestInv, Nest, NoImplementationError

LEMMA StepNest ==
  ASSUME NestInv, [Next]_vars
  PROVE  NestInv'
<1>1. TypeInv'
  BY StepType DEF NestInv
<1> SUFFICES Kept
  BY <1>1 DEF Kept, NestInv
<1>2. ASSUME NEW c \in Config, cjsonParserCreate(c) PROVE Kept
  BY <1>2 DEF cjsonParserCreate, Kept, NestInv, NoImplementationError
<1>3. ASSUME NEW b \in Byte, cjsonParserProcessByte(b) PROVE Kept
  BY <1>3 DEF cjsonParserProcessByte, Kept, NestInv, NoImplementationError
<1>4. ASSUME ProcessOne PROVE Kept
  BY <1>4, UniverseKept, ConstantKept, StringKept, NumberKept, ObjectKept, ArrayKept
     DEF ProcessOne
<1>5. ASSUME cjsonParserRelease PROVE Kept
  <2>1. lpStateStack' = << >> /\ status' = "Ok" /\ Len(<< >>) = 0
    BY <1>5, EmptySeq DEF cjsonParserRelease
  <2> QED
    BY <2>1 DEF Kept, Nest, NoImplementationError
<1>6. ASSUME NEW d \in documents, cjsonReleaseValue(d) PROVE Kept
  BY <1>6 DEF cjsonReleaseValue, Kept, NestInv, NoImplementationError
<1>7. ASSUME UNCHANGED vars PROVE Kept
  BY <1>7 DEF vars, Kept, NestInv, NoImplementationError
<1> QED
  BY <1>2, <1>3, <1>4, <1>5, <1>6, <1>7 DEF Next

(* The stack of cjsonParser.c is well nested in every reachable state: only  *)
(* an array past its comma, an object reading a value, or an object reading  *)
(* the key that is the string on top, has something above it.                *)
THEOREM StackWellNested == Spec => []WellNested
<1>1. Init => NestInv
  BY InitNest
<1>2. NestInv /\ [Next]_vars => NestInv'
  BY StepNest
<1>3. NestInv => WellNested
  BY NestIsWellNested DEF NestInv
<1> QED
  BY <1>1, <1>2, <1>3, PTL DEF Spec

(* Whatever is fed, whatever allocations fail and whatever the callback      *)
(* answers, cjsonParserProcessByte never returns cjsonE_ImplementationError. *)
THEOREM ImplementationErrorUnreachable == Spec => []NoImplementationError
<1>1. Init => NestInv
  BY InitNest
<1>2. NestInv /\ [Next]_vars => NestInv'
  BY StepNest
<1>3. NestInv => NoImplementationError
  BY DEF NestInv
<1> QED
  BY <1>1, <1>2, <1>3, PTL DEF Spec

-----------------------------------------------------------------------------
(* A stack that is not empty is seen as its top appended to what is below,   *)
(* which turns every stack operation of the parser into an Append.           *)
Front(s) == SubSeq(s, 1, Len(s) - 1)

LEMMA StackAsAppend ==
  ASSUME NEW s \in Seq(Frame), s # << >>
  PROVE  /\ Front(s) \in Seq(Frame) /\ s[Len(s)] \in Frame
         /\ s = Append(Front(s), s[Len(s)])
         /\ \A g : [s EXCEPT ![Len(s)] = g] = Append(Front(s), g)
BY AsAppend DEF Front

(* The stack a handler finds, and the one it leaves when it changes its top. *)
LEMMA TopAsAppend ==
  ASSUME lpStateStack \in Seq(Frame), lpStateStack # << >>
  PROVE  /\ Below \in Seq(Frame) /\ Top \in Frame
         /\ lpStateStack = Append(Below, Top)
         /\ \A g : SetTop(g) = Append(Below, g)
BY StackAsAppend DEF Below, Top, SetTop, Front

-----------------------------------------------------------------------------
(* What StateStackPop does, by the element below the one that is popped.     *)
WithKey(f, v, b) == [f EXCEPT !.lpCurrentKey = [str |-> v.str, mem |-> {b}]]

PopToUniverse(v, h, quiet) ==
  Below = << >> /\ Universe_PopNotify(<< >>, v, h, quiet)

PopToKey(b, f, v, h, quiet) ==
  /\ f \in ObjectFrame /\ f.state = "ReadKey" /\ Top.type = "String"
  /\ \/ CanAlloc(h) /\ Done(Append(b, WithKey(f, v, Fresh(h))), Taken(v),
                            (h \cup {Fresh(h)}) \ v.mem, "Ok", quiet)
     \/ OutOfMemory(Append(b, f), v, h, quiet)

PopToMember(b, f, v, h, quiet) ==
  /\ f \in ObjectFrame /\ f.state = "ReadObject"
  /\ \/ CanAlloc(h) /\ Done(Append(b, ForgetKey(ObjectStore(f, Fresh(h), v))), Taken(v),
                            ObjectStoreHeap(f, h, Fresh(h)) \ f.lpCurrentKey.mem, "Ok", quiet)
     \/ OutOfMemory(Append(b, ForgetKey(f)), Taken(v),
                    h \ (v.mem \cup f.lpCurrentKey.mem), quiet)

PopToElement(b, f, v, h, quiet) ==
  /\ f \in ArrayFrame /\ f.state = "NoComma"
  /\ \/ Done(Append(b, ArrayStore(f, {}, v)), Taken(v), h, "Ok", quiet)
     \/ CanAlloc(h) /\ Done(Append(b, ArrayStore(f, {Fresh(h)}, v)), Taken(v),
                            h \cup {Fresh(h)}, "Ok", quiet)
     \/ OutOfMemory(Append(b, f), Taken(v), h, quiet)

LEMMA PopCases ==
  ASSUME NestInv, bByte # None, lpStateStack # << >>,
         NEW v \in Value, v.mem # {}, NEW h \in SUBSET Block, NEW quiet \in BOOLEAN,
         StateStackPop(v, h, quiet)
  PROVE  LET rest == h \ {Top.elm}
         IN \/ PopToUniverse(v, rest, quiet)
            \/ \E b \in Seq(Frame), f \in Frame :
                 /\ Below = Append(b, f)
                 /\ \/ PopToKey(b, f, v, rest, quiet)
                    \/ PopToMember(b, f, v, rest, quiet)
                    \/ PopToElement(b, f, v, rest, quiet)
<1> DEFINE rest == h \ {Top.elm}
           n == Len(Below)
           b == Front(Below)
           f == Below[n]
<1>1. /\ lpStateStack \in Seq(Frame) /\ Below \in Seq(Frame) /\ Nest(lpStateStack)
      /\ rest \in SUBSET Block
  BY InCall, StackOperators, BoundedFrames DEF NestInv
<1>2. CASE Below = << >>
  BY <1>2 DEF StateStackPop, PopToUniverse
<1>3. CASE Below # << >>
  <2>1. /\ b \in Seq(Frame) /\ f \in Frame /\ Below = Append(b, f)
        /\ \A g \in Frame : [Below EXCEPT ![n] = g] = Append(b, g)
    BY <1>1, <1>3, StackAsAppend
  <2>2. Carries(f, Top)
    BY <1>1, <1>3, NestPop DEF Below, Top
  <2>3. CanAlloc(rest) => Fresh(rest) \in Block
    BY FreshIsFree
  <2>4. CASE f.type = "Object"
    <3>1. f \in ObjectFrame
      BY <2>1, <2>4, FrameByType
    <3>2. /\ f.state \in {"ReadKey", "ReadObject"}
          /\ f.state = "ReadKey" => Top.type = "String"
      BY <2>2, <2>4 DEF Carries, Carrier, KeyCarrier
    <3>3. Object_PopNotify(Below, v, rest, quiet)
      BY <1>3, <2>4 DEF StateStackPop
    <3>4. CASE f.state = "ReadKey"
      <4>1. CanAlloc(rest) => WithKey(f, v, Fresh(rest)) \in Frame
        <5>1. CanAlloc(rest) => [str |-> v.str, mem |-> {Fresh(rest)}] \in Value
          BY <2>3, Values
        <5>2. CanAlloc(rest) => WithKey(f, v, Fresh(rest)) \in ObjectFrame
          BY <2>3, <3>1, <5>1, ObjectUpdates DEF WithKey
        <5> QED
          BY <5>2, SubFrames
      <4>2. \/ CanAlloc(rest) /\ Done([Below EXCEPT ![n] = WithKey(f, v, Fresh(rest))], Taken(v),
                                      (rest \cup {Fresh(rest)}) \ v.mem, "Ok", quiet)
            \/ OutOfMemory(Below, v, rest, quiet)
        BY <3>3, <3>4 DEF Object_PopNotify, Key_PopNotify, WithKey
      <4>3. PopToKey(b, f, v, rest, quiet)
        BY <2>1, <3>1, <3>2, <3>4, <4>1, <4>2 DEF PopToKey
      <4> QED
        BY <2>1, <4>3
    <3>5. CASE f.state = "ReadObject"
      <4> DEFINE g == ForgetKey(ObjectStore(f, Fresh(rest), v))
      <4>1. CanAlloc(rest) => g \in Frame
        BY <2>3, <3>1, ObjectUpdates, SubFrames
      <4>2. ForgetKey(f) \in Frame
        <5>1. PICK a : a \in Block
          BY <2>1, FrameByType
        <5> QED
          BY <3>1, <5>1, ObjectUpdates, SubFrames
      <4>3. \/ CanAlloc(rest)
               /\ Done([Below EXCEPT ![n] = g], Taken(v),
                       ObjectStoreHeap(f, rest, Fresh(rest)) \ f.lpCurrentKey.mem, "Ok", quiet)
            \/ OutOfMemory([Below EXCEPT ![n] = ForgetKey(f)], Taken(v),
                           rest \ (v.mem \cup f.lpCurrentKey.mem), quiet)
        BY <3>3, <3>5 DEF Object_PopNotify, Member_PopNotify
      <4>4. PopToMember(b, f, v, rest, quiet)
        <5> HIDE DEF g
        <5>1. CanAlloc(rest) => [Below EXCEPT ![n] = g] = Append(b, g)
          BY <2>1, <4>1
        <5>2. [Below EXCEPT ![n] = ForgetKey(f)] = Append(b, ForgetKey(f))
          BY <2>1, <4>2
        <5>3. \/ CanAlloc(rest)
                 /\ Done(Append(b, g), Taken(v),
                       ObjectStoreHeap(f, rest, Fresh(rest)) \ f.lpCurrentKey.mem, "Ok", quiet)
              \/ OutOfMemory(Append(b, ForgetKey(f)), Taken(v),
                           rest \ (v.mem \cup f.lpCurrentKey.mem), quiet)
          BY <4>3, <5>1, <5>2
        <5> QED
          BY <3>1, <3>5, <5>3 DEF PopToMember, g
      <4> QED
        BY <2>1, <4>4
    <3> QED
      BY <3>2, <3>4, <3>5
  <2>5. CASE f.type # "Object"
    <3>1. f.type = "Array" /\ f.state = "NoComma" /\ f \in ArrayFrame
      BY <2>1, <2>2, <2>5, FrameByType DEF Carries, Carrier, KeyCarrier
    <3>2. Array_PopNotify(Below, v, rest, quiet) /\ ~IsNull(v)
      BY <1>3, <3>1 DEF StateStackPop, IsNull
    <3>3. ASSUME NEW page \in SUBSET Block
          PROVE  [Below EXCEPT ![n] = ArrayStore(f, page, v)] = Append(b, ArrayStore(f, page, v))
      BY <2>1, <3>1, ArrayUpdates, SubFrames
    <3>4. /\ [Below EXCEPT ![n] = ArrayStore(f, {}, v)] = Append(b, ArrayStore(f, {}, v))
          /\ CanAlloc(rest) => [Below EXCEPT ![n] = ArrayStore(f, {Fresh(rest)}, v)]
                               = Append(b, ArrayStore(f, {Fresh(rest)}, v))
      BY <2>3, <3>3
    <3>5. \/ Done([Below EXCEPT ![n] = ArrayStore(f, {}, v)], Taken(v), rest \cup {}, "Ok", quiet)
          \/ CanAlloc(rest) /\ Done([Below EXCEPT ![n] = ArrayStore(f, {Fresh(rest)}, v)],
                                    Taken(v), rest \cup {Fresh(rest)}, "Ok", quiet)
          \/ OutOfMemory(Below, Taken(v), rest, quiet)
      BY <3>2 DEF Array_PopNotify
    <3>6. rest \cup {} = rest
      OBVIOUS
    <3>7. PopToElement(b, f, v, rest, quiet)
      BY <2>1, <3>1, <3>4, <3>5, <3>6 DEF PopToElement
    <3> QED
      BY <2>1, <3>7
  <2> QED
    BY <2>4, <2>5
<1> QED
  BY <1>2, <1>3

-----------------------------------------------------------------------------
(* The key of an object, on top of the stack and with something above it,    *)
(* and the number that has seen its first symbol.                            *)
OpenKey(f) ==
  f.type = "Object" => (f.lpCurrentKey.mem # {} <=> f.state \in {"ExpectObject", "ReadKey"})
CoveredKey(f) ==
  f.type = "Object" => (f.lpCurrentKey.mem # {} <=> f.state \in {"ExpectObject", "ReadObject"})
Covered(s) == \A i \in 1 .. Len(s) : CoveredKey(s[i])
Keyed(s)   == \A i \in 1 .. Len(s) : IF i < Len(s) THEN CoveredKey(s[i]) ELSE OpenKey(s[i])

Started(f)    == f.type = "Number" => f.state # "FirstSymbol"
AllStarted(s) == \A i \in 1 .. Len(s) : Started(s[i])

(* Without a parser there is no stack, no child result and no call. *)
ParserGone == lpStateStack = << >> /\ lpChildResult = NoValue /\ bByte = None

KeyInv == /\ NestInv
          /\ lpParser = {} => ParserGone
          /\ status \in Resumable => Keyed(lpStateStack)
          /\ AllStarted(lpStateStack) \/ bByte \in Digit \cup {Minus}

LEMMA KeyedAppend ==
  ASSUME NEW b \in Seq(Frame), NEW f
  PROVE  /\ Keyed(Append(b, f)) <=> Covered(b) /\ OpenKey(f)
         /\ Covered(Append(b, f)) <=> Covered(b) /\ CoveredKey(f)
         /\ AllStarted(Append(b, f)) <=> AllStarted(b) /\ Started(f)
<1> DEFINE t == Append(b, f)
           n == Len(b)
<1>1. b \in Seq(Frame \cup {f}) /\ n \in Nat
  BY SeqMonotonic, LenProperties
<1>2. Len(t) = n + 1 /\ (\A i \in 1 .. n : t[i] = b[i]) /\ t[n + 1] = f
  BY <1>1, AppendProperties
<1> HIDE DEF t, n
<1>3. 1 .. n + 1 = (1 .. n) \cup {n + 1} /\ ~(n + 1 < n + 1) /\ \A i \in 1 .. n : i < n + 1
  BY <1>1
<1>4. Covered(t) <=> Covered(b) /\ CoveredKey(f)
  BY <1>2, <1>3, Zenon DEF Covered, n
<1>5. AllStarted(t) <=> AllStarted(b) /\ Started(f)
  BY <1>2, <1>3, Zenon DEF AllStarted, n
<1>6. Keyed(t) <=> Covered(b) /\ OpenKey(f)
  <2>1. Keyed(t) <=> /\ \A i \in 1 .. n : CoveredKey(t[i])
                     /\ OpenKey(t[n + 1])
    BY <1>2, <1>3 DEF Keyed
  <2> QED
    BY <1>2, <2>1 DEF Covered, n
<1> QED
  BY <1>4, <1>5, <1>6 DEF t

LEMMA KeyedEmpty == Keyed(<< >>) /\ Covered(<< >>) /\ AllStarted(<< >>)
<1>1. Len(<< >>) = 0 /\ 1 .. 0 = {}
  BY EmptySeq
<1> QED
  BY <1>1 DEF Keyed, Covered, AllStarted

(* Only containers have something above them, so only the top can be a number. *)
LEMMA BelowStarted ==
  ASSUME NEW b \in Seq(Frame), NEW f \in Frame, Nest(Append(b, f))
  PROVE  AllStarted(b)
<1>1. /\ Len(b) \in Nat /\ Len(Append(b, f)) = Len(b) + 1
      /\ \A i \in 1 .. Len(b) : Append(b, f)[i] = b[i]
  BY LenProperties, AppendProperties
<1> DEFINE s == Append(b, f)
<1> HIDE DEF s
<1>2. \A i \in 1 .. Len(b) : i \in 1 .. Len(b) + 1 /\ i < Len(b) + 1
  BY <1>1
<1>3. \A i \in 1 .. Len(b) : Carrier(s[i]) \/ KeyCarrier(s[i])
  BY <1>1, <1>2 DEF Nest, Carries, s
<1> QED
  BY <1>1, <1>3 DEF AllStarted, Started, Carrier, KeyCarrier, s

LEMMA KeysInCall ==
  ASSUME KeyInv, bByte # None
  PROVE  /\ lpStateStack \in Seq(Frame) /\ TypeInv /\ NestInv
         /\ Keyed(lpStateStack)
         /\ lpStateStack # << >> =>
              /\ lpStateStack = Append(Below, Top) /\ Below \in Seq(Frame) /\ Top \in Frame
              /\ Covered(Below) /\ OpenKey(Top) /\ AllStarted(Below)
              /\ \A g : SetTop(g) = Append(Below, g)
<1>1. lpStateStack \in Seq(Frame) /\ TypeInv /\ NestInv /\ Keyed(lpStateStack)
      /\ Nest(lpStateStack)
  BY InCall, BoundedFrames DEF KeyInv, NestInv
<1>2. CASE lpStateStack # << >>
  <2>1. /\ Below \in Seq(Frame) /\ Top \in Frame /\ lpStateStack = Append(Below, Top)
        /\ \A g : SetTop(g) = Append(Below, g)
    BY <1>1, <1>2, TopAsAppend
  <2>2. Covered(Below) /\ OpenKey(Top)
    BY <1>1, <2>1, KeyedAppend
  <2>3. AllStarted(Below)
    BY <1>1, <2>1, BelowStarted
  <2> QED
    BY <1>1, <2>1, <2>2, <2>3
<1> QED
  BY <1>1, <1>2

(* A step keeps the keys when its stack does, or its answer stops the client; *)
(* it keeps the numbers started unless it redelivers a first symbol.          *)
KeysKept ==
  /\ status' \in Resumable => Keyed(lpStateStack')
  /\ AllStarted(lpStateStack') \/ bByte' \in Digit \cup {Minus}

LEMMA OutcomeKeyed ==
  ASSUME NEW stk, NEW v, NEW h, NEW e, NEW quiet \in BOOLEAN,
         Keyed(stk), AllStarted(stk),
         Done(stk, v, h, e, quiet) \/ OutOfMemory(stk, v, h, quiet)
  PROVE  KeysKept
BY DEF Done, OutOfMemory, State, KeysKept

LEMMA StopKeyed ==
  ASSUME NEW stk, NEW v, NEW h, AllStarted(stk),
         \/ Done(stk, v, h, "EncodingError", FALSE)
         \/ OutOfMemory(stk, v, h, FALSE)
  PROVE  KeysKept
<1>1. status' \in {"EncodingError", "OutOfMemory"} /\ lpStateStack' = stk
  BY DEF Done, OutOfMemory, Return, State
<1> QED
  BY <1>1 DEF KeysKept, Resumable

(* The object of a finished child: a key it has just read is there, a value  *)
(* it has just stored has used up its key.                                   *)
LEMMA NotifiedKeys ==
  ASSUME NEW f \in ObjectFrame, NEW v, NEW b
  PROVE  /\ f.state = "ReadKey" => OpenKey(WithKey(f, v, b))
         /\ f.state = "ReadObject" =>
              OpenKey(ForgetKey(f)) /\ OpenKey(ForgetKey(ObjectStore(f, b, v)))
         /\ WithKey(f, v, b).type = "Object" /\ ForgetKey(f).type = "Object"
         /\ ForgetKey(ObjectStore(f, b, v)).type = "Object"
<1>1. f.state = "ReadKey" => OpenKey(WithKey(f, v, b))
  BY DEF WithKey, OpenKey, ObjectFrame
<1>2. f.state = "ReadObject" => OpenKey(ForgetKey(f))
  BY DEF ForgetKey, OpenKey, ObjectFrame, NoValue
<1>3. WithKey(f, v, b).type = "Object" /\ ForgetKey(f).type = "Object"
  BY DEF WithKey, ForgetKey, ObjectFrame
<1>4. /\ f.state = "ReadObject" => OpenKey(ForgetKey(ObjectStore(f, b, v)))
      /\ ForgetKey(ObjectStore(f, b, v)).type = "Object"
  <2> DEFINE g == ObjectStore(f, b, v)
             k == ForgetKey(g)
  <2>1. /\ g.state = f.state /\ g.type = "Object"
        /\ DOMAIN g = DOMAIN f /\ "lpCurrentKey" \in DOMAIN f
        /\ "state" \in DOMAIN f /\ "type" \in DOMAIN f
    BY DEF ObjectStore, ObjectFrame
  <2> HIDE DEF g
  <2>2. k.state = f.state /\ k.lpCurrentKey = NoValue /\ k.type = "Object"
    BY <2>1 DEF ForgetKey
  <2> HIDE DEF k
  <2> QED
    BY <2>2 DEF OpenKey, NoValue, k, g
<1> QED
  BY <1>1, <1>2, <1>3, <1>4

LEMMA PopKeyed ==
  ASSUME KeyInv, bByte # None, lpStateStack # << >>,
         NEW v \in Value, v.mem # {}, NEW h \in SUBSET Block, NEW quiet \in BOOLEAN,
         quiet => Top.type # "String", StateStackPop(v, h, quiet)
  PROVE  KeysKept
<1> DEFINE rest == h \ {Top.elm}
<1>1. NestInv /\ Covered(Below) /\ AllStarted(Below)
  BY KeysInCall
<1>2. \/ PopToUniverse(v, rest, quiet)
      \/ \E b \in Seq(Frame), f \in Frame :
           /\ Below = Append(b, f)
           /\ \/ PopToKey(b, f, v, rest, quiet)
              \/ PopToMember(b, f, v, rest, quiet)
              \/ PopToElement(b, f, v, rest, quiet)
  BY <1>1, PopCases
<1> HIDE DEF rest
<1>3. CASE PopToUniverse(v, rest, quiet)
  <2>1. lpStateStack' = << >>
    BY <1>3 DEF PopToUniverse, Universe_PopNotify, State
  <2> QED
    BY <2>1, KeyedEmpty DEF KeysKept
<1>4. ASSUME NEW b \in Seq(Frame), NEW f \in Frame, Below = Append(b, f),
             \/ PopToKey(b, f, v, rest, quiet)
             \/ PopToMember(b, f, v, rest, quiet)
             \/ PopToElement(b, f, v, rest, quiet)
      PROVE  KeysKept
  <2>1. Covered(b) /\ CoveredKey(f) /\ AllStarted(b)
    BY <1>1, <1>4, KeyedAppend
  <2>2. ASSUME NEW g, g.type \in {"Object", "Array"}
        PROVE  /\ AllStarted(Append(b, g))
               /\ OpenKey(g) => Keyed(Append(b, g))
    <3>1. Started(g)
      BY <2>2 DEF Started
    <3> QED
      BY <2>1, <3>1, KeyedAppend
  <2>3. CASE PopToKey(b, f, v, rest, quiet)
    <3>1. f.type = "Object"
      BY <2>3 DEF PopToKey, ObjectFrame
    <3>2. /\ ~quiet /\ AllStarted(Append(b, f))
          /\ AllStarted(Append(b, WithKey(f, v, Fresh(rest))))
          /\ Keyed(Append(b, WithKey(f, v, Fresh(rest))))
      BY <2>2, <2>3, <3>1, NotifiedKeys DEF PopToKey
    <3> QED
      BY <2>3, <3>2, OutcomeKeyed, StopKeyed DEF PopToKey
  <2>4. CASE PopToMember(b, f, v, rest, quiet)
    <3>1. /\ AllStarted(Append(b, ForgetKey(f))) /\ Keyed(Append(b, ForgetKey(f)))
          /\ AllStarted(Append(b, ForgetKey(ObjectStore(f, Fresh(rest), v))))
          /\ Keyed(Append(b, ForgetKey(ObjectStore(f, Fresh(rest), v))))
      BY <2>2, <2>4, NotifiedKeys DEF PopToMember
    <3> QED
      BY <2>4, <3>1, OutcomeKeyed DEF PopToMember
  <2>5. CASE PopToElement(b, f, v, rest, quiet)
    <3>1. ASSUME NEW g, g.type = "Array" PROVE Keyed(Append(b, g)) /\ AllStarted(Append(b, g))
      BY <2>2, <3>1 DEF OpenKey
    <3>2. f.type = "Array" /\ \A page : ArrayStore(f, page, v).type = "Array"
      BY <2>5 DEF PopToElement, ArrayStore, ArrayFrame
    <3> QED
      BY <2>5, <3>1, <3>2, OutcomeKeyed DEF PopToElement
  <2> QED
    BY <1>4, <2>3, <2>4, <2>5
<1> QED
  BY <1>2, <1>3, <1>4

-----------------------------------------------------------------------------
(* What the _Push functions do: a new element of free blocks, or a failure.  *)
Newborn(f) ==
  /\ f.type = "Number" => f.state = "FirstSymbol"
  /\ f.type = "String" => f.mem = {} /\ f.buf = << >>
  /\ f.type = "Object" => /\ f.lpCurrentKey = NoValue /\ f.entries = {}
                          /\ f.state = "ExpectKey"
  /\ f.type \in {"Object", "Array"} => f.elm \notin f.mem

Pushed(stk, f, redeliver) ==
  /\ f \in Frame /\ Newborn(f)
  /\ FrameMem(f) \in SUBSET Block /\ FrameMem(f) \cap heap = {}
  /\ redeliver \in BOOLEAN
  /\ redeliver => f.type = "Number"
  /\ f.type = "Number" => redeliver /\ bByte \in Digit \cup {Minus}
  /\ Done(Append(stk, f), lpChildResult, heap \cup FrameMem(f), "Ok", redeliver)

LEMMA NewbornFrames ==
  ASSUME NEW b \in Block, NEW o \in Block, b # o
  PROVE  /\ \A t \in DOMAIN Literal :
              /\ NewConstant(b, t) \in Frame /\ Newborn(NewConstant(b, t))
              /\ FrameMem(NewConstant(b, t)) = {b} /\ NewConstant(b, t).type = "Constant"
         /\ NewObject(b, o) \in Frame /\ Newborn(NewObject(b, o))
         /\ FrameMem(NewObject(b, o)) = {b, o} /\ NewObject(b, o).type = "Object"
         /\ NewArray(b, o) \in Frame /\ Newborn(NewArray(b, o))
         /\ FrameMem(NewArray(b, o)) = {b, o} /\ NewArray(b, o).type = "Array"
<1>1. \A t \in DOMAIN Literal :
        /\ Newborn(NewConstant(b, t)) /\ FrameMem(NewConstant(b, t)) = {b}
        /\ NewConstant(b, t).type = "Constant"
  BY DEF NewConstant, Newborn, FrameMem
<1>2. /\ Newborn(NewObject(b, o)) /\ FrameMem(NewObject(b, o)) = {b, o}
      /\ NewObject(b, o).type = "Object"
  BY DEF NewObject, Newborn, FrameMem, NoValue
<1>3. /\ Newborn(NewArray(b, o)) /\ FrameMem(NewArray(b, o)) = {b, o}
      /\ NewArray(b, o).type = "Array"
  BY DEF NewArray, Newborn, FrameMem
<1> QED
  BY <1>1, <1>2, <1>3, NewFrames, BoundedFrames

LEMMA NewbornSmall ==
  ASSUME NEW b \in Block
  PROVE  /\ NewString(b) \in Frame /\ Newborn(NewString(b))
         /\ FrameMem(NewString(b)) = {b} /\ NewString(b).type = "String"
         /\ NewNumber(b) \in Frame /\ Newborn(NewNumber(b))
         /\ FrameMem(NewNumber(b)) = {b} /\ NewNumber(b).type = "Number"
         /\ \A t \in DOMAIN Literal :
              /\ NewConstant(b, t) \in Frame /\ Newborn(NewConstant(b, t))
              /\ FrameMem(NewConstant(b, t)) = {b} /\ NewConstant(b, t).type = "Constant"
<1>1. \A t \in DOMAIN Literal :
        /\ Newborn(NewConstant(b, t)) /\ FrameMem(NewConstant(b, t)) = {b}
        /\ NewConstant(b, t).type = "Constant"
  BY DEF NewConstant, Newborn, FrameMem
<1>2. /\ Newborn(NewString(b)) /\ FrameMem(NewString(b)) = {b}
      /\ NewString(b).type = "String"
  BY DEF NewString, Newborn, FrameMem
<1>3. /\ Newborn(NewNumber(b)) /\ FrameMem(NewNumber(b)) = {b}
      /\ NewNumber(b).type = "Number"
  BY DEF NewNumber, Newborn, FrameMem
<1> QED
  BY <1>1, <1>2, <1>3, NewFrames, BoundedFrames

LEMMA FreshBlocks ==
  ASSUME heap \in SUBSET Block
  PROVE  /\ CanAlloc(heap) => First \in Block /\ First \notin heap /\ Fresh(heap) = First
         /\ CanAllocBoth => /\ First \in Block /\ First \notin heap
                            /\ Second \in Block /\ Second \notin heap /\ First # Second
<1>1. CanAlloc(heap) => First \in Block /\ First \notin heap
  BY FreshIsFree DEF First
<1>2. CanAllocBoth => CanAlloc(heap) /\ CanAlloc(heap \cup {First})
  BY <1>1 DEF CanAllocBoth, CanAlloc
<1>3. CanAllocBoth => Second \in Block /\ Second \notin heap \cup {First}
  BY <1>2, FreshIsFree DEF Second
<1> QED
  BY <1>1, <1>2, <1>3 DEF First

PushedA(stk, t) == \E f, redeliver : Pushed(stk, f, redeliver) /\ f.type = t

LEMMA PushSucceeds ==
  ASSUME heap \in SUBSET Block, NEW stk, NEW f \in Frame, Newborn(f),
         NEW M \in SUBSET Block, FrameMem(f) = M, M \cap heap = {},
         NEW redeliver \in BOOLEAN, redeliver <=> f.type = "Number",
         f.type = "Number" => bByte \in Digit \cup {Minus},
         Push(stk, f, heap \cup M, redeliver)
  PROVE  PushedA(stk, f.type)
<1>1. Pushed(stk, f, redeliver)
  BY DEF Pushed, Push
<1> QED
  BY <1>1 DEF PushedA

LEMMA PushCases ==
  ASSUME TypeInv, bByte # None, NEW stk \in Seq(Frame),
         StartValue(stk, bByte) \/ String_Push(stk)
  PROVE  \/ OutOfMemory(stk, lpChildResult, heap, FALSE)
         \/ \E t : PushedA(stk, t) /\ (t = "String" \/ ~String_Push(stk))
<1> DEFINE Fails == OutOfMemory(stk, lpChildResult, heap, FALSE)
<1>1. heap \in SUBSET Block
  BY InCall
<1>2. ASSUME CanAlloc(heap)
      PROVE  /\ First \in Block /\ Fresh(heap) = First
             /\ {First} \in SUBSET Block /\ {First} \cap heap = {}
  BY <1>1, <1>2, FreshBlocks
<1>3. ASSUME CanAllocBoth
      PROVE  /\ First \in Block /\ Second \in Block /\ First # Second
             /\ {First, Second} \in SUBSET Block /\ {First, Second} \cap heap = {}
  BY <1>1, <1>3, FreshBlocks
<1>4. ASSUME String_Push(stk) PROVE Fails \/ PushedA(stk, "String")
  <2>1. CASE CanAlloc(heap) /\ Push(stk, NewString(First), heap \cup {First}, FALSE)
    <3>1. /\ NewString(First) \in Frame /\ Newborn(NewString(First))
          /\ FrameMem(NewString(First)) = {First} /\ NewString(First).type = "String"
      BY <1>2, <2>1, NewbornSmall
    <3> QED
      BY <1>1, <1>2, <2>1, <3>1, PushSucceeds
  <2> QED
    BY <1>2, <1>4, <2>1 DEF String_Push
<1>5. ASSUME NEW t \in DOMAIN Literal, Constant_Push(stk, t)
      PROVE  Fails \/ PushedA(stk, "Constant")
  <2>1. CASE CanAlloc(heap) /\ Push(stk, NewConstant(First, t), heap \cup {First}, FALSE)
    <3>1. /\ NewConstant(First, t) \in Frame /\ Newborn(NewConstant(First, t))
          /\ FrameMem(NewConstant(First, t)) = {First}
          /\ NewConstant(First, t).type = "Constant"
      BY <1>2, <2>1, NewbornSmall
    <3> QED
      BY <1>1, <1>2, <2>1, <3>1, PushSucceeds
  <2> QED
    BY <1>2, <1>5, <2>1 DEF Constant_Push
<1>6. ASSUME bByte \in Digit \cup {Minus}, Number_Push(stk)
      PROVE  Fails \/ PushedA(stk, "Number")
  <2>1. CASE CanAlloc(heap) /\ Push(stk, NewNumber(First), heap \cup {First}, TRUE)
    <3>1. /\ NewNumber(First) \in Frame /\ Newborn(NewNumber(First))
          /\ FrameMem(NewNumber(First)) = {First} /\ NewNumber(First).type = "Number"
      BY <1>2, <2>1, NewbornSmall
    <3> QED
      BY <1>1, <1>2, <1>6, <2>1, <3>1, PushSucceeds
  <2> QED
    BY <1>2, <1>6, <2>1 DEF Number_Push
<1>7. ASSUME Object_Push(stk) PROVE Fails \/ PushedA(stk, "Object")
  <2>1. CASE CanAllocBoth
             /\ Push(stk, NewObject(First, Second), heap \cup {First, Second}, FALSE)
    <3>1. /\ NewObject(First, Second) \in Frame /\ Newborn(NewObject(First, Second))
          /\ FrameMem(NewObject(First, Second)) = {First, Second}
          /\ NewObject(First, Second).type = "Object"
      BY <1>3, <2>1, NewbornFrames
    <3> QED
      BY <1>1, <1>3, <2>1, <3>1, PushSucceeds
  <2> QED
    BY <1>7, <2>1 DEF Object_Push, Container_Push
<1>8. ASSUME Array_Push(stk) PROVE Fails \/ PushedA(stk, "Array")
  <2>1. CASE CanAllocBoth
             /\ Push(stk, NewArray(First, Second), heap \cup {First, Second}, FALSE)
    <3>1. /\ NewArray(First, Second) \in Frame /\ Newborn(NewArray(First, Second))
          /\ FrameMem(NewArray(First, Second)) = {First, Second}
          /\ NewArray(First, Second).type = "Array"
      BY <1>3, <2>1, NewbornFrames
    <3> QED
      BY <1>1, <1>3, <2>1, <3>1, PushSucceeds
  <2> QED
    BY <1>8, <2>1 DEF Array_Push, Container_Push
<1> HIDE DEF Fails
<1>9. CASE String_Push(stk)
  BY <1>4, <1>9 DEF Fails
<1>10. CASE ~String_Push(stk)
  <2>1. {"True", "False", "Null"} \subseteq DOMAIN Literal
    BY DEF Literal
  <2>2. Fails \/ \E t : PushedA(stk, t)
    BY <1>5, <1>6, <1>7, <1>8, <1>10, <2>1 DEF StartValue
  <2> QED
    BY <1>10, <2>2 DEF Fails
<1> QED
  BY <1>9, <1>10

-----------------------------------------------------------------------------
(* The handlers. *)
LEMMA PushKeyed ==
  ASSUME KeyInv, bByte # None, NEW stk \in Seq(Frame), Covered(stk), AllStarted(stk),
         StartValue(stk, bByte) \/ String_Push(stk)
  PROVE  KeysKept
<1>1. \/ OutOfMemory(stk, lpChildResult, heap, FALSE)
      \/ \E t : PushedA(stk, t)
  BY KeysInCall, PushCases
<1>2. ASSUME NEW f, NEW redeliver, Pushed(stk, f, redeliver)
      PROVE  KeysKept
  <2>1. /\ lpStateStack' = Append(stk, f)
        /\ redeliver => bByte' = bByte
    BY <1>2 DEF Pushed, Done, State, Return
  <2>2. OpenKey(f)
    BY <1>2 DEF Pushed, Newborn, OpenKey, NoValue
  <2>3. Keyed(Append(stk, f))
    BY <2>2, KeyedAppend
  <2>4. f.type = "Number" => bByte' \in Digit \cup {Minus}
    BY <1>2, <2>1 DEF Pushed
  <2>5. f.type # "Number" => AllStarted(Append(stk, f))
    BY KeyedAppend DEF Started
  <2> QED
    BY <2>1, <2>3, <2>4, <2>5 DEF KeysKept
<1> QED
  BY <1>1, <1>2, StopKeyed DEF PushedA

LEMMA SetTopKeyed ==
  ASSUME KeyInv, bByte # None, lpStateStack # << >>, NEW g, OpenKey(g), Started(g)
  PROVE  /\ Keyed(SetTop(g)) /\ AllStarted(SetTop(g))
         /\ Accept(SetTop(g)) => KeysKept
         /\ \A v, h : /\ Done(SetTop(g), v, h, "Ok", FALSE) => KeysKept
                      /\ OutOfMemory(SetTop(g), v, h, FALSE) => KeysKept
<1>1. Keyed(SetTop(g)) /\ AllStarted(SetTop(g))
  <2>1. Below \in Seq(Frame) /\ Covered(Below) /\ AllStarted(Below) /\ SetTop(g) = Append(Below, g)
    BY KeysInCall
  <2> QED
    BY <2>1, KeyedAppend
<1> QED
  BY <1>1, OutcomeKeyed DEF Accept

LEMMA ShortAnswersKeyed ==
  ASSUME KeyInv, bByte # None, lpStateStack # << >> => Started(Top)
  PROVE  /\ AllStarted(lpStateStack)
         /\ Accept(lpStateStack) => KeysKept
         /\ Reject => KeysKept
         /\ \A v, h : OutOfMemory(lpStateStack, v, h, FALSE) => KeysKept
<1>1. Keyed(lpStateStack) /\ AllStarted(lpStateStack)
  BY KeysInCall, KeyedAppend, KeyedEmpty
<1> QED
  BY <1>1, OutcomeKeyed, StopKeyed DEF Accept, Reject

LEMMA UniverseKeyed ==
  ASSUME KeyInv, Universe_ProcessByte
  PROVE  KeysKept
<1>1. bByte # None /\ lpStateStack \in Seq(Frame) /\ lpStateStack = << >>
  BY KeysInCall DEF Universe_ProcessByte
<1>2. Covered(lpStateStack) /\ AllStarted(lpStateStack)
  BY <1>1, KeyedEmpty
<1> QED
  BY <1>1, <1>2, PushKeyed, ShortAnswersKeyed DEF Universe_ProcessByte

LEMMA ConstantKeyed ==
  ASSUME KeyInv, Constant_ProcessByte
  PROVE  KeysKept
<1> DEFINE n == Top.dwMatchedBytes
           g == [Top EXCEPT !.dwMatchedBytes = n + 1]
           h == heap \ lpChildResult.mem
<1>1. /\ Handling("Constant") /\ Top \in ConstantFrame /\ TypeInv
      /\ bByte # None /\ lpStateStack # << >> /\ Top.type = "Constant"
  BY TopOfStack, FrameByType DEF Constant_ProcessByte, KeyInv, NestInv
<1>2. OpenKey(g) /\ Started(g) /\ Started(Top)
  <2>1. g.type = "Constant"
    BY <1>1 DEF ConstantFrame
  <2> QED
    BY <1>1, <2>1 DEF OpenKey, Started
<1>3. \/ Reject
      \/ Accept(SetTop(g))
      \/ CanAlloc(h) /\ StateStackPop(Leaf(Fresh(h)), h \cup {Fresh(h)}, FALSE)
      \/ OutOfMemory(SetTop(g), NoValue, h, FALSE)
  BY DEF Constant_ProcessByte
<1>4. CASE CanAlloc(h) /\ StateStackPop(Leaf(Fresh(h)), h \cup {Fresh(h)}, FALSE)
  <2>1. h \in SUBSET Block /\ Fresh(h) \in Block
    BY <1>1, <1>4, TopOfStack, InCall, FreshIsFree
  <2>2. /\ Leaf(Fresh(h)) \in Value /\ Leaf(Fresh(h)).mem # {}
        /\ h \cup {Fresh(h)} \in SUBSET Block
    BY <2>1, Values DEF Leaf
  <2> HIDE DEF h
  <2> QED
    BY <1>1, <1>4, <2>2, PopKeyed
<1> HIDE DEF g, h
<1> QED
  BY <1>1, <1>2, <1>3, <1>4, SetTopKeyed, ShortAnswersKeyed

LEMMA PushBytesKeyed ==
  ASSUME KeyInv, bByte # None, lpStateStack # << >>, NEW f \in StringFrame,
         NEW bytes, NEW onFailure, PushBytes(f, bytes, onFailure)
  PROVE  KeysKept
<1>1. ASSUME NEW more, NEW page, NEW s
      PROVE  LET g == [Buffered(f, more, page) EXCEPT !.state = s]
             IN OpenKey(g) /\ Started(g)
  <2> DEFINE g == [Buffered(f, more, page) EXCEPT !.state = s]
  <2>1. g.type = "String"
    BY DEF Buffered, StringFrame
  <2> HIDE DEF g
  <2>2. OpenKey(g) /\ Started(g)
    BY <2>1 DEF OpenKey, Started
  <2> QED
    BY <2>2 DEF g
<1>2. \E more, page, s, v, h :
        LET g == [Buffered(f, more, page) EXCEPT !.state = s]
        IN \/ Done(SetTop(g), v, h, "Ok", FALSE)
           \/ OutOfMemory(SetTop(g), v, h, FALSE)
  BY DEF PushBytes, Accept
<1> QED
  BY <1>1, <1>2, SetTopKeyed

LEMMA StringKeyed ==
  ASSUME KeyInv, String_ProcessByte
  PROVE  KeysKept
<1>1. /\ Handling("String") /\ Top \in StringFrame /\ Top.type = "String" /\ TypeInv
      /\ bByte # None /\ lpStateStack # << >>
  BY TopOfStack, FrameByType DEF String_ProcessByte, KeyInv, NestInv
<1>2. \A bytes, onFailure : PushBytes(Top, bytes, onFailure) => KeysKept
  BY <1>1, PushBytesKeyed
<1>3. ASSUME NEW g, g.type = "String" PROVE Accept(SetTop(g)) => KeysKept
  BY <1>1, <1>3, SetTopKeyed DEF OpenKey, Started
<1>4. (Reject => KeysKept) /\ \A v, h : OutOfMemory(lpStateStack, v, h, FALSE) => KeysKept
  BY <1>1, ShortAnswersKeyed DEF Started
<1>5. CASE Top.state = "Normal" /\ String_Normal(Top)
  <2>1. [Top EXCEPT !.state = "Escaped"].type = "String"
    BY <1>1 DEF StringFrame
  <2>2. CASE String_Finish(Top)
    <3> DEFINE v == [str |-> Top.buf, mem |-> {First}]
               h == (heap \cup {First}) \ (lpChildResult.mem \cup Top.mem)
    <3>1. CanAlloc(heap) => v \in Value /\ v.mem # {} /\ h \in SUBSET Block
      <4>1. CanAlloc(heap) => First \in Block
        BY FreshIsFree DEF First
      <4> QED
        BY <1>1, <4>1, RoomInPage, Values, TopOfStack, InCall
    <3>2. \/ CanAlloc(heap) /\ StateStackPop(v, h, FALSE)
          \/ OutOfMemory(lpStateStack, lpChildResult, heap, FALSE)
      BY <2>2 DEF String_Finish
    <3> HIDE DEF v, h
    <3> QED
      BY <1>1, <1>4, <3>1, <3>2, PopKeyed
  <2> QED
    BY <1>2, <1>3, <1>5, <2>1, <2>2 DEF String_Normal
<1>6. CASE Top.state = "Escaped" /\ String_Escaped(Top)
  <2>1. StartCodepoint(Top).type = "String"
    BY <1>1 DEF StringFrame, StartCodepoint
  <2> QED
    BY <1>2, <1>3, <1>4, <1>6, <2>1 DEF String_Escaped
<1>7. CASE Top.state = "UTF16Codepoint" /\ String_UTF16Codepoint(Top)
  <2> DEFINE g == [Top EXCEPT !.dwUBytes = Top.dwUBytes + 1,
                              !.dwUCodepoint = Top.dwUCodepoint * 16 + HexValue(bByte)]
  <2>1. g.type = "String"
    BY <1>1 DEF StringFrame
  <2>2. \/ Reject
        \/ Accept(SetTop(g))
        \/ bByte \in HexDigit /\ PushBytes(g, Utf8(g.dwUCodepoint), "UTF16Codepoint")
    BY <1>7 DEF String_UTF16Codepoint
  <2>3. bByte \in HexDigit => g \in StringFrame
    BY <1>1, <1>7, CodepointStep
  <2> HIDE DEF g
  <2> QED
    BY <1>1, <1>3, <1>4, <2>1, <2>2, <2>3, PushBytesKeyed
<1> QED
  BY <1>5, <1>6, <1>7 DEF String_ProcessByte

(* The first symbol of a number is accepted and never comes back. *)
LEMMA FirstSymbolTaken ==
  ASSUME NEW s \in NumberState, NEW b
  PROVE  /\ NumberNext(s, b) # "FirstSymbol"
         /\ s = "FirstSymbol" /\ b \in Digit \cup {Minus} => NumberNext(s, b) \in NumberState
BY DEF NumberNext, NumberState

LEMMA NumberKeyed ==
  ASSUME KeyInv, Number_ProcessByte
  PROVE  KeysKept
<1> DEFINE next == NumberNext(Top.state, bByte)
           g == [Top EXCEPT !.state = next]
<1>1. /\ Handling("Number") /\ Top \in NumberFrame /\ TypeInv
      /\ bByte # None /\ lpStateStack # << >> /\ Top.type = "Number"
  BY TopOfStack, FrameByType DEF Number_ProcessByte, KeyInv, NestInv
<1>2. OpenKey(g) /\ Started(g)
  <2>1. g.type = "Number" /\ g.state = next /\ Top.state \in NumberState
    BY <1>1 DEF NumberFrame
  <2> QED
    BY <2>1, FirstSymbolTaken DEF OpenKey, Started
<1>3. \/ Accept(SetTop(g))
      \/ /\ next \notin NumberState
         /\ \/ CanAlloc(heap) /\ StateStackPop(Leaf(First), heap \cup {First}, TRUE)
            \/ OutOfMemory(lpStateStack, NoValue, heap, FALSE)
            \/ Reject
  <2>1. "finish" \notin NumberState /\ "error" \notin NumberState
    BY DEF NumberState
  <2> QED
    BY <2>1 DEF Number_ProcessByte, Number_Finish
<1>4. next \notin NumberState => Started(Top)
  <2>1. AllStarted(lpStateStack) \/ bByte \in Digit \cup {Minus}
    BY DEF KeyInv
  <2>2. AllStarted(lpStateStack) => Started(Top)
    BY <1>1, KeysInCall, KeyedAppend
  <2>3. Top.state \in NumberState
    BY <1>1 DEF NumberFrame
  <2> QED
    BY <2>1, <2>2, <2>3, FirstSymbolTaken DEF Started
<1> HIDE DEF g, next
<1>5. CASE CanAlloc(heap) /\ StateStackPop(Leaf(First), heap \cup {First}, TRUE)
  <2> DEFINE h == heap \cup {First}
  <2>1. Leaf(First) \in Value /\ Leaf(First).mem # {} /\ h \in SUBSET Block
    BY <1>1, <1>5, FreshIsFree, Values, InCall, TopOfStack DEF First, Leaf
  <2>2. StateStackPop(Leaf(First), h, TRUE)
    BY <1>5
  <2> HIDE DEF h
  <2> QED
    BY <1>1, <2>1, <2>2, PopKeyed
<1> QED
  BY <1>1, <1>2, <1>3, <1>4, <1>5, SetTopKeyed, ShortAnswersKeyed

LEMMA ContainerFinishKeyed ==
  ASSUME KeyInv, bByte # None, lpStateStack # << >>,
         Top \in ObjectFrame \cup ArrayFrame, Container_Finish(Top)
  PROVE  KeysKept
<1> DEFINE v == [str |-> <<>>, mem |-> Top.mem]
<1>1. /\ lpStateStack \in Seq(Frame) /\ heap \in SUBSET Block /\ Nest(lpStateStack)
  BY KeysInCall, InCall DEF NestInv
<1>2. Top.type \in {"Object", "Array"} /\ Top.mem \in SUBSET Block
  BY DEF ObjectFrame, ArrayFrame
<1>3. Sound(Top)
  <2>1. Len(lpStateStack) \in 1 .. Len(lpStateStack)
    BY <1>1, EmptySeq
  <2> QED
    BY <1>1, <2>1 DEF Nest, Top
<1>4. v \in Value /\ v.mem # {}
  BY <1>2, <1>3, Values DEF Sound
<1>5. StateStackPop(v, heap, FALSE)
  BY DEF Container_Finish
<1> HIDE DEF v
<1> QED
  BY <1>1, <1>4, <1>5, PopKeyed

LEMMA ObjectKeyed ==
  ASSUME KeyInv, Object_ProcessByte
  PROVE  KeysKept
<1>1. /\ bByte # None /\ lpStateStack # << >>
      /\ Top \in ObjectFrame /\ Top.type = "Object"
      /\ Below \in Seq(Frame) /\ Covered(Below) /\ AllStarted(Below) /\ OpenKey(Top)
      /\ \A g : SetTop(g) = Append(Below, g)
  BY TopOfStack, FrameByType, KeysInCall DEF Object_ProcessByte, KeyInv, NestInv
<1>2. ASSUME NEW s \in {"ExpectKey", "ReadKey", "ExpectObject", "ReadObject"}
      PROVE  LET g == [Top EXCEPT !.state = s]
             IN /\ SetTop(g) \in Seq(Frame) /\ g.type = "Object" /\ g.state = s
                /\ g.lpCurrentKey = Top.lpCurrentKey
  <2> DEFINE g == [Top EXCEPT !.state = s]
  <2>1. g \in ObjectFrame /\ g.type = "Object" /\ g.state = s
        /\ g.lpCurrentKey = Top.lpCurrentKey
    BY <1>1 DEF ObjectFrame
  <2> HIDE DEF g
  <2>2. SetTop(g) \in Seq(Frame)
    BY <1>1, <2>1, SubFrames, AppendProperties
  <2> QED
    BY <2>1, <2>2 DEF g
<1>3. ASSUME NEW g, g.type = "Object", CoveredKey(g)
      PROVE  Covered(SetTop(g)) /\ AllStarted(SetTop(g))
  BY <1>1, <1>3, KeyedAppend DEF Started
<1>4. ASSUME NEW g, g.type = "Object", OpenKey(g)
      PROVE  Accept(SetTop(g)) => KeysKept
  BY <1>1, <1>4, SetTopKeyed DEF Started
<1>5. /\ Accept(lpStateStack) => KeysKept
      /\ Reject => KeysKept
      /\ Container_Finish(Top) => KeysKept
  BY <1>1, ShortAnswersKeyed, ContainerFinishKeyed DEF Started
<1>6. CASE Top.state = "ExpectKey" /\ Object_ExpectKey(Top)
  <2>1. CASE String_Push(SetTop(AwaitKey(Top)))
    <3>1. CoveredKey(AwaitKey(Top)) /\ AwaitKey(Top).type = "Object"
      BY <1>1, <1>2, <1>6 DEF AwaitKey, CoveredKey, OpenKey
    <3>2. SetTop(AwaitKey(Top)) \in Seq(Frame)
      BY <1>2 DEF AwaitKey
    <3> QED
      BY <1>1, <1>3, <2>1, <3>1, <3>2, PushKeyed
  <2> QED
    BY <1>5, <1>6, <2>1 DEF Object_ExpectKey
<1>7. CASE Top.state = "ReadKey" /\ Object_ReadKey(Top)
  <2> DEFINE g == [Top EXCEPT !.state = "ExpectObject"]
  <2>1. g.type = "Object" /\ OpenKey(g)
    BY <1>1, <1>2, <1>7 DEF OpenKey
  <2> HIDE DEF g
  <2>2. Accept(SetTop(g)) => KeysKept
    BY <1>4, <2>1
  <2> QED
    BY <1>5, <1>7, <2>2 DEF Object_ReadKey, g
<1>8. CASE Top.state = "ExpectObject" /\ Object_ExpectObject(Top)
  <2> DEFINE g == [Top EXCEPT !.state = "ReadObject"]
  <2>1. CASE StartValue(SetTop(g), bByte)
    <3>1. g.type = "Object" /\ CoveredKey(g) /\ SetTop(g) \in Seq(Frame)
      BY <1>1, <1>2, <1>8 DEF OpenKey, CoveredKey
    <3> HIDE DEF g
    <3> QED
      BY <1>1, <1>3, <2>1, <3>1, PushKeyed
  <2> QED
    BY <1>5, <1>8, <2>1 DEF Object_ExpectObject
<1>9. CASE Top.state = "ReadObject" /\ Object_ReadObject(Top)
  <2> DEFINE g == [Top EXCEPT !.state = "ExpectKey"]
  <2>1. g.type = "Object" /\ OpenKey(g)
    BY <1>1, <1>2, <1>9 DEF OpenKey
  <2> HIDE DEF g
  <2>2. Accept(SetTop(g)) => KeysKept
    BY <1>4, <2>1
  <2> QED
    BY <1>5, <1>9, <2>2 DEF Object_ReadObject, g
<1> QED
  BY <1>6, <1>7, <1>8, <1>9 DEF Object_ProcessByte

LEMMA ArrayKeyed ==
  ASSUME KeyInv, Array_ProcessByte
  PROVE  KeysKept
<1>1. /\ bByte # None /\ lpStateStack # << >>
      /\ Top \in ArrayFrame /\ Top.type = "Array"
      /\ Below \in Seq(Frame) /\ Covered(Below) /\ AllStarted(Below)
      /\ \A g : SetTop(g) = Append(Below, g)
  BY TopOfStack, FrameByType, KeysInCall DEF Array_ProcessByte, KeyInv, NestInv
<1>2. ASSUME NEW s \in {"NoComma", "GotComma"}
      PROVE  LET g == [Top EXCEPT !.state = s]
             IN /\ SetTop(g) \in Seq(Frame) /\ Covered(SetTop(g)) /\ AllStarted(SetTop(g))
                /\ Accept(SetTop(g)) => KeysKept
  <2> DEFINE g == [Top EXCEPT !.state = s]
  <2>1. g \in ArrayFrame /\ g.type = "Array"
    BY <1>1 DEF ArrayFrame
  <2> HIDE DEF g
  <2>2. SetTop(g) \in Seq(Frame)
    BY <1>1, <2>1, SubFrames, AppendProperties
  <2>3. OpenKey(g) /\ CoveredKey(g) /\ Started(g)
    BY <2>1 DEF OpenKey, CoveredKey, Started
  <2>4. Covered(SetTop(g)) /\ AllStarted(SetTop(g)) /\ (Accept(SetTop(g)) => KeysKept)
    BY <1>1, <2>3, KeyedAppend, SetTopKeyed
  <2> QED
    BY <2>2, <2>4 DEF g
<1>3. /\ Accept(lpStateStack) => KeysKept
      /\ Reject => KeysKept
      /\ Container_Finish(Top) => KeysKept
  BY <1>1, ShortAnswersKeyed, ContainerFinishKeyed DEF Started
<1>4. CASE StartValue(SetTop([Top EXCEPT !.state = "NoComma"]), bByte)
  BY <1>1, <1>2, <1>4, PushKeyed
<1> QED
  BY <1>2, <1>3, <1>4 DEF Array_ProcessByte

-----------------------------------------------------------------------------
(* A call neither creates nor releases the parser, nor changes its callback. *)
Steady == lpParser' = lpParser /\ callback' = callback

LEMMA OutcomeSteady ==
  /\ \A stk, v, h, e, quiet : Done(stk, v, h, e, quiet) => Steady
  /\ \A stk, v, h, quiet : OutOfMemory(stk, v, h, quiet) => Steady
BY DEF Done, OutOfMemory, NoDelivery, Steady

LEMMA PopSteady ==
  ASSUME NEW v, NEW h, NEW quiet, StateStackPop(v, h, quiet)
  PROVE  Steady
<1> DEFINE rest == h \ {Top.elm}
<1>1. Universe_PopNotify(Below, v, rest, quiet) => Steady
  BY DEF Universe_PopNotify, Steady
<1>2. Object_PopNotify(Below, v, rest, quiet) => Steady
  BY OutcomeSteady DEF Object_PopNotify, Key_PopNotify, Member_PopNotify
<1>3. Array_PopNotify(Below, v, rest, quiet) => Steady
  BY OutcomeSteady DEF Array_PopNotify
<1> QED
  BY <1>1, <1>2, <1>3, OutcomeSteady DEF StateStackPop

LEMMA StartSteady ==
  /\ \A stk, b : StartValue(stk, b) => Steady
  /\ \A stk : String_Push(stk) => Steady
<1>1. \A stk, f, h, redeliver : Push(stk, f, h, redeliver) => Steady
  BY OutcomeSteady DEF Push
<1>2. \A stk : String_Push(stk) => Steady
  BY <1>1, OutcomeSteady DEF String_Push
<1>3. \A stk, t : Constant_Push(stk, t) => Steady
  BY <1>1, OutcomeSteady DEF Constant_Push
<1>4. \A stk : Number_Push(stk) => Steady
  BY <1>1, OutcomeSteady DEF Number_Push
<1>5. \A stk, f : Container_Push(stk, f) => Steady
  BY <1>1, OutcomeSteady DEF Container_Push
<1>6. \A stk, b : StartValue(stk, b) => Steady
  BY <1>2, <1>3, <1>4, <1>5 DEF StartValue, Object_Push, Array_Push
<1> QED
  BY <1>2, <1>6

LEMMA CallSteady ==
  ASSUME ProcessOne
  PROVE  bByte # None /\ Steady
<1>1. /\ \A stk : Accept(stk) => Steady
      /\ Reject => Steady
  BY OutcomeSteady DEF Accept, Reject
<1>2. /\ \A f : Container_Finish(f) => Steady
      /\ \A f : String_Finish(f) => Steady
      /\ Number_Finish => Steady
      /\ \A f, bytes, s : PushBytes(f, bytes, s) => Steady
  <2>1. /\ \A f : Container_Finish(f) => Steady
        /\ \A f : String_Finish(f) => Steady
        /\ Number_Finish => Steady
    BY PopSteady, OutcomeSteady DEF Container_Finish, String_Finish, Number_Finish
  <2>2. \A f, bytes, s : PushBytes(f, bytes, s) => Steady
    BY <1>1, OutcomeSteady DEF PushBytes
  <2> QED
    BY <2>1, <2>2
<1>3. CASE Universe_ProcessByte
  BY <1>1, <1>3, StartSteady DEF Universe_ProcessByte
<1>4. CASE Constant_ProcessByte
  <2>1. bByte # None
    BY <1>4 DEF Constant_ProcessByte, Handling
  <2> QED
    BY <1>1, <1>4, <2>1, PopSteady, OutcomeSteady DEF Constant_ProcessByte
<1>5. CASE String_ProcessByte
  <2>1. bByte # None
    BY <1>5 DEF String_ProcessByte, Handling
  <2>2. String_Normal(Top) => Steady
    BY <1>1, <1>2 DEF String_Normal
  <2>3. String_Escaped(Top) => Steady
    BY <1>1, <1>2 DEF String_Escaped
  <2>4. String_UTF16Codepoint(Top) => Steady
    BY <1>1, <1>2 DEF String_UTF16Codepoint
  <2> QED
    BY <1>5, <2>1, <2>2, <2>3, <2>4 DEF String_ProcessByte
<1>6. CASE Number_ProcessByte
  <2>1. bByte # None
    BY <1>6 DEF Number_ProcessByte, Handling
  <2> QED
    BY <1>1, <1>2, <1>6, <2>1 DEF Number_ProcessByte
<1>7. CASE Object_ProcessByte
  <2>1. bByte # None
    BY <1>7 DEF Object_ProcessByte, Handling
  <2>2. Object_ExpectKey(Top) \/ Object_ReadKey(Top) => Steady
    BY <1>1, <1>2, StartSteady DEF Object_ExpectKey, Object_ReadKey
  <2>3. Object_ExpectObject(Top) \/ Object_ReadObject(Top) => Steady
    BY <1>1, <1>2, StartSteady DEF Object_ExpectObject, Object_ReadObject
  <2> QED
    BY <1>7, <2>1, <2>2, <2>3 DEF Object_ProcessByte
<1>8. CASE Array_ProcessByte
  <2>1. bByte # None
    BY <1>8 DEF Array_ProcessByte, Handling
  <2> QED
    BY <1>1, <1>2, <1>8, <2>1, StartSteady DEF Array_ProcessByte
<1> QED
  BY <1>3, <1>4, <1>5, <1>6, <1>7, <1>8 DEF ProcessOne

-----------------------------------------------------------------------------
(* The specification. *)
LEMMA InitKeys ==
  ASSUME Init
  PROVE  KeyInv
BY InitNest, KeyedEmpty DEF KeyInv, Init, ParserGone

LEMMA StepKeys ==
  ASSUME KeyInv, [Next]_vars
  PROVE  KeyInv'
<1>1. NestInv'
  BY StepNest DEF KeyInv
<1>2. lpParser = {} => ParserGone
  BY DEF KeyInv
<1> DEFINE Stays == KeysKept /\ (lpParser' = {} => ParserGone')
<1> SUFFICES Stays
  BY <1>1 DEF KeysKept, KeyInv
<1>3. None \notin Digit \cup {Minus}
  BY DEF None, Digit, Minus
<1>4. bByte = None => AllStarted(lpStateStack)
  BY <1>3 DEF KeyInv
<1>5. ASSUME NEW c \in Config, cjsonParserCreate(c) PROVE Stays
  <2>1. /\ lpStateStack' = << >> /\ lpChildResult' = NoValue /\ bByte' = None
    BY <1>2, <1>5 DEF cjsonParserCreate, ParserGone
  <2> QED
    BY <2>1, KeyedEmpty DEF KeysKept, ParserGone
<1>6. ASSUME NEW b \in Byte, cjsonParserProcessByte(b) PROVE Stays
  <2>1. lpParser' # {} /\ lpStateStack' = lpStateStack /\ status \in Resumable
    BY <1>6 DEF cjsonParserProcessByte, Idle
  <2>2. Keyed(lpStateStack) /\ AllStarted(lpStateStack)
    BY <1>4, <1>6, <2>1 DEF cjsonParserProcessByte, Idle, KeyInv
  <2> QED
    BY <2>1, <2>2 DEF KeysKept
<1>7. ASSUME ProcessOne PROVE Stays
  <2>1. KeysKept
    BY <1>7, UniverseKeyed, ConstantKeyed, StringKeyed, NumberKeyed, ObjectKeyed, ArrayKeyed
       DEF ProcessOne
  <2>2. lpParser' # {}
    BY <1>2, <1>7, CallSteady DEF Steady, ParserGone
  <2> QED
    BY <2>1, <2>2
<1>8. ASSUME cjsonParserRelease PROVE Stays
  BY <1>8, KeyedEmpty DEF cjsonParserRelease, Idle, KeysKept, ParserGone
<1>9. ASSUME NEW d \in documents, cjsonReleaseValue(d) PROVE Stays
  BY <1>2, <1>4, <1>9 DEF cjsonReleaseValue, KeysKept, KeyInv, ParserGone
<1>10. ASSUME UNCHANGED vars PROVE Stays
  BY <1>2, <1>10 DEF vars, KeysKept, KeyInv, ParserGone
<1> HIDE DEF Stays
<1> QED
  BY <1>5, <1>6, <1>7, <1>8, <1>9, <1>10 DEF Next

LEMMA KeyInvHolds == Spec => []KeyInv
<1>1. Init => KeyInv
  BY InitKeys
<1>2. KeyInv /\ [Next]_vars => KeyInv'
  BY StepKeys
<1> QED
  BY <1>1, <1>2, PTL DEF Spec

(* The key copy of cjsonParserObject lives exactly from the end of the key   *)
(* to the moment cjsonObject_Set reads it: in every reachable state after    *)
(* which the client goes on, it is there when it is read and gone when the   *)
(* next key or the end of the object would overwrite it.                     *)
THEOREM KeyCopyHeld == Spec => []KeyHeld
<1>1. KeyInv => KeyHeld
  <2> SUFFICES ASSUME KeyInv, status \in Resumable, NEW i \in 1 .. Len(lpStateStack),
                      lpStateStack[i].type = "Object"
               PROVE  lpStateStack[i].lpCurrentKey.mem # {} <=>
                        \/ lpStateStack[i].state = "ExpectObject"
                        \/ lpStateStack[i].state = "ReadKey" /\ IsTop(i)
                        \/ lpStateStack[i].state = "ReadObject" /\ ~IsTop(i)
    BY DEF KeyHeld
  <2>1. Keyed(lpStateStack) /\ Len(lpStateStack) \in Nat
    BY LenProperties DEF KeyInv, NestInv, TypeInv, TypeOK
  <2>2. i < Len(lpStateStack) <=> ~IsTop(i)
    BY <2>1 DEF IsTop
  <2> QED
    BY <2>1, <2>2 DEF Keyed, CoveredKey, OpenKey
<1> QED
  BY <1>1, KeyInvHolds, PTL

(* cjsonParser_Number_Push leaves a number without a first symbol only for   *)
(* the redelivery of the byte that started it, and the automaton takes that  *)
(* byte: between calls no number waits for its first symbol.                 *)
THEOREM NumbersStart == Spec => []NumberStarts
<1>1. KeyInv => NumberStarts
  BY DEF KeyInv, AllStarted, Started, NumberStarts
<1> QED
  BY <1>1, KeyInvHolds, PTL

-----------------------------------------------------------------------------
(* Every iteration of a call ends in one of three ways; only the end of a    *)
(* number has its byte redelivered after a pop.                              *)
Answered == \E stk, v, h, e, quiet : Done(stk, v, h, e, quiet)
Starved  == \E stk, v, h : OutOfMemory(stk, v, h, FALSE)
Popped   == \E v, h, quiet :
              /\ ~IsNull(v) /\ StateStackPop(v, h, quiet)
              /\ lpStateStack # << >>
              /\ quiet \in BOOLEAN /\ (quiet => Top.type = "Number" /\ bByte \notin Digit)
Ended == Answered \/ Starved \/ Popped

LEMMA ShortEnds ==
  /\ \A stk : Accept(stk) => Ended
  /\ Reject => Ended
  /\ \A stk, v, h : OutOfMemory(stk, v, h, FALSE) => Ended
  /\ \A f, bytes, s : PushBytes(f, bytes, s) => Ended
<1>1. \A stk, v, h, e, quiet : Done(stk, v, h, e, quiet) => Ended
  BY DEF Ended, Answered
<1>2. \A stk, v, h : OutOfMemory(stk, v, h, FALSE) => Ended
  BY DEF Ended, Starved
<1>3. \A stk : Accept(stk) => Ended
  BY <1>1 DEF Accept
<1>4. Reject => Ended
  BY <1>1 DEF Reject
<1>5. \A f, bytes, s : PushBytes(f, bytes, s) => Ended
  BY <1>1, <1>2, <1>3 DEF PushBytes
<1> QED
  BY <1>2, <1>3, <1>4, <1>5

LEMMA StartEnds ==
  /\ \A stk, b : StartValue(stk, b) => Ended
  /\ \A stk : String_Push(stk) => Ended
<1>1. \A stk, f, h, redeliver : Push(stk, f, h, redeliver) => Ended
  BY DEF Push, Ended, Answered
<1>2. \A stk : String_Push(stk) => Ended
  BY <1>1, ShortEnds DEF String_Push
<1>3. \A stk, t : Constant_Push(stk, t) => Ended
  BY <1>1, ShortEnds DEF Constant_Push
<1>4. \A stk : Number_Push(stk) => Ended
  BY <1>1, ShortEnds DEF Number_Push
<1>5. \A stk, f : Container_Push(stk, f) => Ended
  BY <1>1, ShortEnds DEF Container_Push
<1>6. \A stk, b : StartValue(stk, b) => Ended
  BY <1>2, <1>3, <1>4, <1>5 DEF StartValue, Object_Push, Array_Push
<1> QED
  BY <1>2, <1>6

LEMMA PopEnds ==
  ASSUME NEW v, v.mem # {}, NEW h, StateStackPop(v, h, FALSE), lpStateStack # << >>
  PROVE  Ended
BY DEF Ended, Popped, IsNull

LEMMA NumberEnds ==
  ASSUME NestInv, Number_ProcessByte
  PROVE  Ended
<1> DEFINE next == NumberNext(Top.state, bByte)
<1>1. Top.type = "Number" /\ lpStateStack # << >> /\ Top.state \in NumberState
  <2>1. Top \in NumberFrame
    BY TopOfStack, FrameByType DEF Number_ProcessByte, NestInv
  <2> QED
    BY <2>1 DEF Number_ProcessByte, Handling, NumberFrame
<1>2. CASE next = "finish" /\ Number_Finish
  <2>1. bByte \notin Digit
    BY <1>1, <1>2 DEF NumberNext, NumberState
  <2>2. ASSUME StateStackPop(Leaf(First), heap \cup {First}, TRUE) PROVE Popped
    <3>1. ~IsNull(Leaf(First))
      BY DEF Leaf, IsNull
    <3> QED
      BY <1>1, <2>1, <2>2, <3>1 DEF Popped
  <2> QED
    BY <1>2, <2>2, ShortEnds DEF Number_Finish, Ended
<1> QED
  BY <1>2, ShortEnds DEF Number_ProcessByte

LEMMA ContainerEnds ==
  ASSUME NestInv, bByte # None, lpStateStack # << >>,
         Top \in ObjectFrame \cup ArrayFrame, Container_Finish(Top)
  PROVE  Ended
<1>1. Sound(Top)
  <2>1. lpStateStack \in Seq(Frame) /\ Nest(lpStateStack)
    BY InCall, BoundedFrames DEF NestInv
  <2>2. Len(lpStateStack) \in 1 .. Len(lpStateStack)
    BY <2>1, EmptySeq
  <2> QED
    BY <2>1, <2>2 DEF Nest, Top
<1>2. Top.mem # {}
  BY <1>1 DEF Sound, ObjectFrame, ArrayFrame
<1> QED
  BY <1>2, PopEnds DEF Container_Finish

LEMMA StringEnds ==
  ASSUME String_ProcessByte
  PROVE  Ended
<1>1. lpStateStack # << >>
  BY DEF String_ProcessByte, Handling
<1>2. \A f : String_Finish(f) => Ended
  BY <1>1, PopEnds, ShortEnds DEF String_Finish
<1>3. String_Normal(Top) => Ended
  BY <1>2, ShortEnds DEF String_Normal
<1>4. String_Escaped(Top) => Ended
  BY ShortEnds DEF String_Escaped
<1>5. String_UTF16Codepoint(Top) => Ended
  BY ShortEnds DEF String_UTF16Codepoint
<1> QED
  BY <1>3, <1>4, <1>5 DEF String_ProcessByte

LEMMA CallEnds ==
  ASSUME NestInv, ProcessOne
  PROVE  Ended
<1>1. CASE Universe_ProcessByte
  BY <1>1, ShortEnds, StartEnds DEF Universe_ProcessByte
<1>2. CASE Constant_ProcessByte
  <2>1. lpStateStack # << >> /\ \A b : Leaf(b).mem # {}
    BY <1>2 DEF Constant_ProcessByte, Handling, Leaf
  <2> QED
    BY <1>2, <2>1, ShortEnds, PopEnds DEF Constant_ProcessByte
<1>3. CASE Object_ProcessByte
  <2>1. /\ bByte # None /\ lpStateStack # << >> /\ Top \in ObjectFrame
    BY <1>3, TopOfStack, FrameByType DEF Object_ProcessByte, NestInv
  <2>2. Container_Finish(Top) => Ended
    BY <2>1, ContainerEnds
  <2>3. Object_ExpectKey(Top) \/ Object_ReadKey(Top) => Ended
    BY <2>2, ShortEnds, StartEnds DEF Object_ExpectKey, Object_ReadKey
  <2>4. Object_ExpectObject(Top) \/ Object_ReadObject(Top) => Ended
    BY <2>2, ShortEnds, StartEnds DEF Object_ExpectObject, Object_ReadObject
  <2> QED
    BY <1>3, <2>3, <2>4 DEF Object_ProcessByte
<1>4. CASE Array_ProcessByte
  <2>1. /\ bByte # None /\ lpStateStack # << >> /\ Top \in ArrayFrame
    BY <1>4, TopOfStack, FrameByType DEF Array_ProcessByte, NestInv
  <2> QED
    BY <1>4, <2>1, ContainerEnds, ShortEnds, StartEnds DEF Array_ProcessByte
<1> QED
  BY <1>1, <1>2, <1>3, <1>4, StringEnds, NumberEnds DEF ProcessOne

-----------------------------------------------------------------------------
(* Failed allocations. *)
Told == oom' /\ ~oom => status' = "OutOfMemory"

LEMMA OutcomeTold ==
  /\ \A stk, v, h, e, quiet : Done(stk, v, h, e, quiet) => Told
  /\ \A stk, v, h : OutOfMemory(stk, v, h, FALSE) => Told
BY DEF Done, OutOfMemory, Return, Told

LEMMA PopTold ==
  ASSUME NEW v, NEW h, StateStackPop(v, h, FALSE)
  PROVE  Told
<1> DEFINE rest == h \ {Top.elm}
<1>1. Universe_PopNotify(Below, v, rest, FALSE) => Told
  BY DEF Universe_PopNotify, Told
<1>2. Object_PopNotify(Below, v, rest, FALSE) => Told
  BY OutcomeTold DEF Object_PopNotify, Key_PopNotify, Member_PopNotify
<1>3. Array_PopNotify(Below, v, rest, FALSE) => Told
  BY OutcomeTold DEF Array_PopNotify
<1> QED
  BY <1>1, <1>2, <1>3, OutcomeTold DEF StateStackPop

(* Outside cjsonParser_Number_ProcessByte, which does not look at what        *)
(* StateStackPop returns, no call of cjsonParserProcessByte or                *)
(* cjsonParserCreate hides an allocation that failed under it.                *)
THEOREM FailuresReported == Spec => AllocFailureReported
<1>1. ASSUME NestInv, Next, lpStateStack = << >> \/ Top.type # "Number"
      PROVE  Told
  <2>1. CASE ProcessOne
    <3>1. Ended
      BY <1>1, <2>1, CallEnds
    <3>2. Popped => Told
      BY <1>1, PopTold DEF Popped
    <3> QED
      BY <3>1, <3>2, OutcomeTold DEF Ended, Answered, Starved
  <2>2. ASSUME NEW c \in Config, cjsonParserCreate(c) PROVE Told
    BY <2>2 DEF cjsonParserCreate, Told
  <2>3. ASSUME NEW b \in Byte, cjsonParserProcessByte(b) PROVE Told
    BY <2>3 DEF cjsonParserProcessByte, Told
  <2>4. CASE cjsonParserRelease
    BY <2>4 DEF cjsonParserRelease, Told
  <2>5. ASSUME NEW d \in documents, cjsonReleaseValue(d) PROVE Told
    BY <2>5 DEF cjsonReleaseValue, Told
  <2> QED
    BY <1>1, <2>1, <2>2, <2>3, <2>4, <2>5 DEF Next
<1>2. NestInv /\ [Next]_vars
      => [oom' /\ ~oom /\ (lpStateStack = << >> \/ Top.type # "Number")
          => status' = "OutOfMemory"]_vars
  BY <1>1 DEF Told
<1>3. Spec => []NestInv
  <2>1. KeyInv => NestInv
    BY DEF KeyInv
  <2> QED
    BY <2>1, KeyInvHolds, PTL
<1> QED
  BY <1>2, <1>3, PTL DEF Spec, AllocFailureReported

-----------------------------------------------------------------------------
(* The one root.  A parser that is done has an empty stack, or one element    *)
(* on it which a byte redelivered by the end of a root number has started     *)
(* past the check of INTERNAL_DONE; no number, because that byte is no digit  *)
(* and a minus is excluded.  From then on it sees only whitespace.            *)
Spent == IF lpStateStack = << >> THEN bByte \notin Digit \cup {Minus}
         ELSE /\ Len(lpStateStack) = 1 /\ Top.type # "Number"
              /\ bByte \in Whitespace \cup {None}

OneRoot == "STREAMINGMODE" \notin dwFlags =>
             IF "INTERNAL_DONE" \in dwFlags THEN roots <= 1 /\ Spent ELSE roots = 0

RootInv == /\ NestInv
           /\ IF lpParser = {} THEN lpStateStack = << >> /\ dwFlags = {} ELSE callback
           /\ OneRoot

LEMMA Blanks ==
  ASSUME NEW b \in Whitespace
  PROVE  /\ b \notin ValueStart \cup {Quote, Backslash, Colon, Comma, RBrace, RBracket, None}
         /\ \A t \in DOMAIN Literal : b # Literal[t][Len(Literal[t])]
<1>1. b \in {9, 10, 13, 32}
  BY DEF Whitespace
<1>2. \A t \in DOMAIN Literal : b # Literal[t][Len(Literal[t])]
  <2>1. DOMAIN Literal = {"True", "False", "Null"}
    BY DEF Literal
  <2>2. /\ Literal["True"] = <<116, 114, 117, 101>>
        /\ Literal["False"] = <<102, 97, 108, 115, 101>>
        /\ Literal["Null"] = <<110, 117, 108, 108>>
    BY DEF Literal
  <2>3. /\ Literal["True"][Len(Literal["True"])] = 101
        /\ Literal["False"][Len(Literal["False"])] = 101
        /\ Literal["Null"][Len(Literal["Null"])] = 108
    BY <2>2
  <2> QED
    BY <1>1, <2>1, <2>3
<1>3. b \notin ValueStart \cup {Quote, Backslash, Colon, Comma, RBrace, RBracket, None}
  BY <1>1 DEF ValueStart, LBrace, LBracket, Quote, LetterT, LetterF, LetterN, Minus, Digit,
              Backslash, Colon, Comma, RBrace, RBracket, None
<1> QED
  BY <1>2, <1>3

(* The single element of a parser that is done, after one more byte. *)
Waits == /\ dwFlags' = dwFlags /\ roots' = roots /\ bByte' = None
         /\ Len(lpStateStack') = 1 /\ lpStateStack'[1].type # "Number"

LEMMA SingleWaits ==
  ASSUME lpStateStack \in Seq(Frame), Len(lpStateStack) = 1, Top.type # "Number"
  PROVE  /\ Accept(lpStateStack) => Waits
         /\ Reject => Waits
         /\ \A v, h : OutOfMemory(lpStateStack, v, h, FALSE) => Waits
         /\ \A g : g.type # "Number" =>
              /\ Accept(SetTop(g)) => Waits
              /\ \A v, h : /\ Done(SetTop(g), v, h, "Ok", FALSE) => Waits
                           /\ OutOfMemory(SetTop(g), v, h, FALSE) => Waits
<1>1. ASSUME NEW stk, Len(stk) = 1, stk[1].type # "Number"
      PROVE  /\ \A v, h, e : Done(stk, v, h, e, FALSE) => Waits
             /\ \A v, h : OutOfMemory(stk, v, h, FALSE) => Waits
  BY <1>1 DEF Done, OutOfMemory, State, Return, NoDelivery, Waits
<1>2. Len(lpStateStack) = 1 /\ lpStateStack[1].type # "Number"
  BY DEF Top
<1>3. ASSUME NEW g, g.type # "Number"
      PROVE  Len(SetTop(g)) = 1 /\ SetTop(g)[1].type # "Number"
  <2>1. lpStateStack \in Seq(Frame \cup {g}) /\ 1 \in 1 .. Len(lpStateStack)
    BY SeqMonotonic
  <2>2. Len(SetTop(g)) = 1 /\ SetTop(g)[1] = g
    BY <2>1, ExceptSeq DEF SetTop
  <2> QED
    BY <1>3, <2>2
<1> QED
  BY <1>1, <1>2, <1>3 DEF Accept, Reject

LEMMA DoneWaits ==
  ASSUME NestInv, ProcessOne, Len(lpStateStack) = 1, Top.type # "Number", bByte \in Whitespace
  PROVE  Waits
<1>1. /\ bByte # None /\ lpStateStack # << >> /\ lpStateStack \in Seq(Frame) /\ TypeInv
      /\ Top \in Frame
  <2>1. bByte # None
    BY Blanks
  <2>2. lpStateStack \in Seq(Frame)
    BY <2>1, InCall, BoundedFrames DEF NestInv
  <2>3. lpStateStack # << >>
    BY <2>2, EmptySeq
  <2> QED
    BY <2>1, <2>2, <2>3, TopAsAppend DEF NestInv
<1>2. /\ bByte \notin ValueStart
      /\ bByte \notin {Quote, Backslash, Colon, Comma, RBrace, RBracket}
  BY Blanks
<1>3. \A stk : ~StartValue(stk, bByte)
  BY <1>2 DEF StartValue, ValueStart
<1>4. (Accept(lpStateStack) => Waits) /\ (Reject => Waits)
  BY <1>1, SingleWaits
<1>5. CASE Constant_ProcessByte
  <2> DEFINE n == Top.dwMatchedBytes
             g == [Top EXCEPT !.dwMatchedBytes = n + 1]
             literal == Literal[Top.elmType]
  <2>1. Top \in ConstantFrame
    BY <1>1, <1>5, FrameByType DEF Constant_ProcessByte, Handling
  <2>2. g.type # "Number"
    BY <2>1 DEF ConstantFrame
  <2>3. ~(bByte = literal[n + 1] /\ n + 1 = Len(literal))
    <3>1. Top.elmType \in DOMAIN Literal
      BY <2>1 DEF ConstantFrame
    <3> QED
      BY <3>1, Blanks
  <2>4. Reject \/ Accept(SetTop(g))
    BY <1>5, <2>3 DEF Constant_ProcessByte
  <2> HIDE DEF g
  <2> QED
    BY <1>1, <1>4, <2>2, <2>4, SingleWaits
<1>6. CASE String_ProcessByte
  <2>1. Top \in StringFrame
    BY <1>1, <1>6, FrameByType DEF String_ProcessByte, Handling
  <2>2. ASSUME NEW f \in StringFrame, NEW bytes, NEW s, PushBytes(f, bytes, s)
        PROVE  Waits
    <3>1. \A more, page, t : [Buffered(f, more, page) EXCEPT !.state = t].type # "Number"
      BY DEF Buffered, StringFrame
    <3>2. \E more, page, t, v, h :
            LET g == [Buffered(f, more, page) EXCEPT !.state = t]
            IN Done(SetTop(g), v, h, "Ok", FALSE) \/ OutOfMemory(SetTop(g), v, h, FALSE)
      BY <2>2 DEF PushBytes, Accept
    <3> QED
      BY <1>1, <3>1, <3>2, SingleWaits
  <2>3. CASE Top.state = "Normal" /\ String_Normal(Top)
    BY <1>2, <2>1, <2>2, <2>3 DEF String_Normal
  <2>4. CASE Top.state = "Escaped" /\ String_Escaped(Top)
    <3>1. StartCodepoint(Top).type # "Number"
      BY <2>1 DEF StartCodepoint, StringFrame
    <3> QED
      BY <1>1, <1>4, <2>1, <2>2, <2>4, <3>1, SingleWaits DEF String_Escaped
  <2>5. CASE Top.state = "UTF16Codepoint" /\ String_UTF16Codepoint(Top)
    <3> DEFINE g == [Top EXCEPT !.dwUBytes = Top.dwUBytes + 1,
                                !.dwUCodepoint = Top.dwUCodepoint * 16 + HexValue(bByte)]
    <3>1. bByte \notin HexDigit
      BY DEF Whitespace, HexDigit, Digit
    <3> QED
      BY <1>4, <2>5, <3>1 DEF String_UTF16Codepoint
  <2> QED
    BY <1>6, <2>3, <2>4, <2>5 DEF String_ProcessByte
<1>7. CASE Object_ProcessByte
  BY <1>2, <1>3, <1>4, <1>7 DEF Object_ProcessByte, Object_ExpectKey, Object_ReadKey,
                                Object_ExpectObject, Object_ReadObject
<1>8. CASE Array_ProcessByte
  BY <1>2, <1>3, <1>4, <1>8 DEF Array_ProcessByte
<1> QED
  BY <1>1, <1>5, <1>6, <1>7, <1>8
     DEF ProcessOne, Universe_ProcessByte, Number_ProcessByte, Handling

LEMMA DoneStarts ==
  ASSUME NestInv, ProcessOne, lpStateStack = << >>, bByte \notin Digit \cup {Minus}
  PROVE  /\ dwFlags' = dwFlags /\ roots' = roots
         /\ Spent'
<1> DEFINE Starts == dwFlags' = dwFlags /\ roots' = roots /\ Spent'
<1>1. Universe_ProcessByte /\ bByte # None /\ TypeInv /\ lpStateStack \in Seq(Frame)
  BY InCall, BoundedFrames
     DEF ProcessOne, Universe_ProcessByte, Constant_ProcessByte, String_ProcessByte,
         Number_ProcessByte, Object_ProcessByte, Array_ProcessByte, Handling, NestInv
<1>2. None \notin Digit \cup {Minus}
  BY DEF None, Digit, Minus
<1>3. /\ \A v, h, e : Done(lpStateStack, v, h, e, FALSE) => Starts
      /\ \A v, h : OutOfMemory(lpStateStack, v, h, FALSE) => Starts
  BY <1>2 DEF Done, OutOfMemory, State, Return, NoDelivery, Spent
<1>4. ASSUME StartValue(lpStateStack, bByte) PROVE Starts
  <2>1. \/ OutOfMemory(lpStateStack, lpChildResult, heap, FALSE)
        \/ \E t : PushedA(lpStateStack, t)
    BY <1>1, <1>4, PushCases
  <2>2. ASSUME NEW f, NEW redeliver, Pushed(lpStateStack, f, redeliver) PROVE Starts
    <3>1. f.type # "Number" /\ redeliver = FALSE
      BY <2>2 DEF Pushed
    <3>2. /\ lpStateStack' = Append(<< >>, f) /\ bByte' = None
          /\ dwFlags' = dwFlags /\ roots' = roots
      BY <2>2, <3>1 DEF Pushed, Done, State, Return, NoDelivery
    <3>3. Len(lpStateStack') = 1 /\ lpStateStack'[1] = f /\ lpStateStack' # << >>
      BY <3>2
    <3>4. (Top)' = f
      BY <3>3 DEF Top
    <3> QED
      BY <3>1, <3>2, <3>3, <3>4 DEF Spent
  <2> QED
    BY <1>3, <2>1, <2>2 DEF PushedA
<1> QED
  BY <1>1, <1>3, <1>4 DEF Universe_ProcessByte, Accept, Reject

LEMMA DoneStays ==
  ASSUME NestInv, ProcessOne, Spent
  PROVE  dwFlags' = dwFlags /\ roots' = roots /\ Spent'
<1>1. CASE lpStateStack = << >>
  BY <1>1, DoneStarts DEF Spent
<1>2. CASE lpStateStack # << >>
  <2>1. bByte # None
    BY CallSteady
  <2>2. Waits
    BY <1>2, <2>1, DoneWaits DEF Spent
  <2>3. lpStateStack' # << >> /\ (Top)' = lpStateStack'[1]
    BY <2>2 DEF Waits, Top
  <2> QED
    BY <2>2, <2>3 DEF Waits, Spent
<1> QED
  BY <1>1, <1>2

(* The step that completes the first root of a parser with a callback. *)
LEMMA FirstRoot ==
  ASSUME NestInv, ProcessOne, callback, bByte # Minus,
         "STREAMINGMODE" \notin dwFlags, roots = 0
  PROVE  \/ dwFlags' = dwFlags /\ roots' = roots
         \/ dwFlags' = dwFlags \cup {"INTERNAL_DONE"} /\ roots' = 1 /\ Spent'
<1> DEFINE Goes == dwFlags' = dwFlags /\ roots' = roots
           Completes == dwFlags' = dwFlags \cup {"INTERNAL_DONE"} /\ roots' = 1 /\ Spent'
<1>1. /\ \A stk, v, h, e, quiet : Done(stk, v, h, e, quiet) => Goes
      /\ \A stk, v, h, quiet : OutOfMemory(stk, v, h, quiet) => Goes
  BY DEF Done, OutOfMemory, NoDelivery
<1>2. ASSUME NEW v, NEW h, NEW quiet \in BOOLEAN, ~IsNull(v), StateStackPop(v, h, quiet),
             quiet => bByte \notin Digit
      PROVE  Goes \/ Completes
  <2> DEFINE rest == h \ {Top.elm}
  <2>1. CASE Below = << >>
    <3>1. Universe_PopNotify(<< >>, v, rest, quiet)
      BY <1>2, <2>1 DEF StateStackPop
    <3>2. /\ dwFlags' = dwFlags \cup {"INTERNAL_DONE"} /\ roots' = 1
          /\ lpStateStack' = << >> /\ bByte' \in {None} \cup (IF quiet THEN {bByte} ELSE {})
      BY <1>2, <3>1 DEF Universe_PopNotify, State, Return
    <3>3. bByte' \notin Digit \cup {Minus}
      BY <1>2, <3>2 DEF None, Digit, Minus
    <3> QED
      BY <3>2, <3>3 DEF Spent
  <2>2. CASE Below # << >>
    <3>1. Object_PopNotify(Below, v, rest, quiet) => Goes
      BY <1>1 DEF Object_PopNotify, Key_PopNotify, Member_PopNotify
    <3>2. Array_PopNotify(Below, v, rest, quiet) => Goes
      BY <1>1 DEF Array_PopNotify
    <3> HIDE DEF Goes, Completes
    <3> QED
      BY <1>1, <1>2, <2>2, <3>1, <3>2 DEF StateStackPop
  <2> QED
    BY <2>1, <2>2
<1>3. Ended
  BY CallEnds
<1> QED
  BY <1>1, <1>2, <1>3 DEF Ended, Answered, Starved, Popped

LEMMA StepRoot ==
  ASSUME RootInv, [Next]_vars, Minus \notin Byte, \A c \in Config : c.callback
  PROVE  RootInv'
<1>1. NestInv'
  BY StepNest DEF RootInv
<1> DEFINE Owned == IF lpParser = {} THEN lpStateStack = << >> /\ dwFlags = {} ELSE callback
<1> SUFFICES Owned' /\ OneRoot'
  BY <1>1 DEF RootInv
<1>2. Owned /\ OneRoot /\ NestInv /\ bByte # Minus
  BY DEF RootInv, NestInv, TypeInv, TypeOK, None, Minus
<1>3. ASSUME NEW c \in Config, cjsonParserCreate(c) PROVE Owned' /\ OneRoot'
  <2>1. "INTERNAL_DONE" \notin c.flags /\ c.callback
    BY ConfigAssumption
  <2>2. lpStateStack' = << >> /\ roots' = 0
    BY <1>2, <1>3 DEF cjsonParserCreate
  <2>3. \/ lpParser' = {} /\ dwFlags' = {}
        \/ lpParser' # {} /\ dwFlags' = c.flags /\ callback'
    BY <1>2, <1>3, <2>1 DEF cjsonParserCreate
  <2> QED
    BY <2>1, <2>2, <2>3 DEF OneRoot
<1>4. ASSUME NEW b \in Byte, cjsonParserProcessByte(b) PROVE Owned' /\ OneRoot'
  <2>1. /\ lpParser' = lpParser /\ dwFlags' = dwFlags /\ callback' = callback
        /\ lpStateStack' = lpStateStack /\ roots' = roots
        /\ bByte' = None \/ (bByte' = b /\ ~AlreadyDone(b))
    BY <1>4 DEF cjsonParserProcessByte
  <2>2. "INTERNAL_DONE" \in dwFlags => bByte' \in Whitespace \cup {None}
    BY <2>1 DEF AlreadyDone
  <2>3. (Whitespace \cup {None}) \cap (Digit \cup {Minus}) = {}
    BY DEF Whitespace, None, Digit, Minus
  <2>4. Spent /\ bByte' \in Whitespace \cup {None} => Spent'
    BY <2>1, <2>3 DEF Spent, Top
  <2> QED
    BY <1>2, <2>1, <2>2, <2>4 DEF OneRoot
<1>5. ASSUME ProcessOne PROVE Owned' /\ OneRoot'
  <2>1. lpParser' = lpParser /\ callback' = callback /\ bByte # None
    BY <1>5, CallSteady DEF Steady
  <2>2. lpParser # {}
    BY <1>2, <2>1 DEF NestInv, TypeInv
  <2>3. Owned'
    BY <1>2, <2>1, <2>2
  <2>4. CASE "STREAMINGMODE" \in dwFlags
    <3>1. dwFlags \subseteq dwFlags'
      <4>1. /\ \A stk, v, h, e, quiet : Done(stk, v, h, e, quiet) => dwFlags' = dwFlags
            /\ \A stk, v, h, quiet : OutOfMemory(stk, v, h, quiet) => dwFlags' = dwFlags
        BY DEF Done, OutOfMemory, NoDelivery
      <4>2. \A v, h, quiet : StateStackPop(v, h, quiet) => dwFlags \subseteq dwFlags'
        BY <4>1 DEF StateStackPop, Universe_PopNotify, Object_PopNotify, Key_PopNotify,
                    Member_PopNotify, Array_PopNotify
      <4>3. Ended
        BY <1>2, <1>5, CallEnds
      <4> QED
        BY <4>1, <4>2, <4>3 DEF Ended, Answered, Starved, Popped
    <3> QED
      BY <2>3, <2>4, <3>1 DEF OneRoot
  <2>5. CASE "STREAMINGMODE" \notin dwFlags /\ "INTERNAL_DONE" \in dwFlags
    <3>1. roots <= 1 /\ Spent
      BY <1>2, <2>5 DEF OneRoot
    <3> QED
      BY <1>2, <1>5, <2>3, <2>5, <3>1, DoneStays DEF OneRoot
  <2>6. CASE "STREAMINGMODE" \notin dwFlags /\ "INTERNAL_DONE" \notin dwFlags
    <3>1. roots = 0 /\ callback
      BY <1>2, <2>2, <2>6 DEF OneRoot
    <3> QED
      BY <1>2, <1>5, <2>3, <2>6, <3>1, FirstRoot DEF OneRoot
  <2> QED
    BY <2>4, <2>5, <2>6
<1>6. CASE cjsonParserRelease
  BY <1>6 DEF cjsonParserRelease, OneRoot
<1>7. ASSUME UNCHANGED <<lpParser, dwFlags, callback, lpStateStack, bByte, roots>>
      PROVE  Owned' /\ OneRoot'
  BY <1>2, <1>7 DEF OneRoot, Spent, Top
<1>8. ASSUME NEW d \in documents, cjsonReleaseValue(d) PROVE Owned' /\ OneRoot'
  BY <1>7, <1>8 DEF cjsonReleaseValue
<1> HIDE DEF Owned
<1> QED
  BY <1>3, <1>4, <1>5, <1>6, <1>7, <1>8 DEF Next, vars

(* A parser outside streaming mode hands its client at most one document, if *)
(* it has a callback and the text has no minus: INTERNAL_DONE, set by        *)
(* cjsonParser_Universe_PopNotify and looked at by cjsonParserProcessByte,   *)
(* keeps out every byte that could complete another root, also the one that  *)
(* the end of a root number redelivers.                                      *)
THEOREM OneRootOnly ==
  ASSUME Minus \notin Byte, \A c \in Config : c.callback
  PROVE  Spec => []AtMostOneRoot
<1>1. Init => RootInv
  BY InitNest DEF Init, RootInv, OneRoot
<1>2. RootInv /\ [Next]_vars => RootInv'
  BY StepRoot
<1>3. RootInv => AtMostOneRoot
  BY DEF RootInv, OneRoot, AtMostOneRoot
<1> QED
  BY <1>1, <1>2, <1>3, PTL DEF Spec
=============================================================================
