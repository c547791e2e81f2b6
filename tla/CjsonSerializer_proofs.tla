---------------------- MODULE CjsonSerializer_proofs ----------------------
(***************************************************************************)
(* The serializer: its types, the copy of the key that is being written,   *)
(* and the memory it holds, from one inductive invariant.                  *)
(*                                                                         *)
(* A stack that is not empty is its top appended to what is below; every   *)
(* action replaces the top, pops it, or pushes one element above it.       *)
(***************************************************************************)
EXTENDS CjsonSerializer, CjsonInduction_proofs, FiniteSetTheorems

-----------------------------------------------------------------------------
(* The invariant, as predicates of any stack; p tells whether it is written   *)
(* prettily.  Depth is the indentation of an element at position i when it is *)
(* the top.                                                                   *)
Depth(i, p) == IF p THEN i ELSE 0

(* What holds of an element at position i whatever is above it: a string is   *)
(* only ever escaped or spelled out at a byte it has, an object has an entry  *)
(* while it writes one, and its copy of the key exists from its creation to   *)
(* the byte counted when the string above it is gone.                         *)
SoundString(f) == /\ f.state = "Unicode" => Len(f.bUnicodeBytes) = 4
                  /\ f.state = "Escaped" => f.dwCurrentIndex < Len(f.bData)
SoundObject(f, i, p) ==
  /\ Tree[f.lpObject].type = "Object"
  /\ f.state = "Header" => f.lpTempString = Wild
  /\ f.state = "Key" =>
       /\ f.lpCurrentBucketEntry \in 1 .. Len(Members(f)) /\ f.lpTempString # Wild
       /\ f.dwBytesWritten = Depth(i, p) + 1 => f.lpTempString # Null
       /\ f.dwBytesWritten > Depth(i, p) + 1 => f.lpTempString = Null
  /\ f.state = "Value" =>
       /\ f.lpCurrentBucketEntry <= Len(Members(f)) /\ f.lpTempString = Null
       /\ f.dwBytesWritten = 0 => f.lpCurrentBucketEntry # 0
  /\ f.state = "Trailer" => f.lpTempString \notin Block
Sound(f, i, p) == /\ f.type = "String" => SoundString(f)
                  /\ f.type = "Array" => Tree[f.lpArray].type = "Array"
                  /\ f.type = "Object" => SoundObject(f, i, p)

(* What an element at position i may have above it: the string that writes    *)
(* the key of an object, or anything else than such a string.                 *)
Unkeyed(g) == g.type = "String" => g.temp = Null
Carries(f, i, g, p) ==
  \/ f.type = "Array" /\ Unkeyed(g)
  \/ f.type = "Object" /\ f.state = "Value" /\ Unkeyed(g)
  \/ /\ f.type = "Object" /\ f.state = "Key" /\ f.dwBytesWritten = Depth(i, p) + 1
     /\ g.type = "String" /\ g.temp = f.lpTempString

Fit(s, p) ==
  /\ \A i \in 1 .. Len(s) : Sound(s[i], i, p)
  /\ \A i \in 1 .. Len(s) : i < Len(s) => Carries(s[i], i, s[i + 1], p)
  /\ s # << >> => Unkeyed(s[1])

(* Whose block is whose. *)
KeyMem(f) == IF f.type = "Object" THEN {f.lpTempString} \cap Block ELSE {}
FrameMem(f) == {f.elm} \cup KeyMem(f)
Tidy(f) == f.elm \notin KeyMem(f)
StackMem(s) == UNION {FrameMem(s[i]) : i \in 1 .. Len(s)}
Own(s) == /\ \A i \in 1 .. Len(s) : Tidy(s[i])
          /\ \A i, j \in 1 .. Len(s) : i # j => FrameMem(s[i]) \cap FrameMem(s[j]) = {}

Account == /\ heap = lpSerializer \cup StackMem(lpTopOfStack)
           /\ lpSerializer \cap StackMem(lpTopOfStack) = {}
           /\ Own(lpTopOfStack)
           /\ lpSerializer = {} \/ \E b : lpSerializer = {b}

SerInv == /\ TypeOK
          /\ Fit(lpTopOfStack, pretty)
          /\ Account
          /\ Running => lpTopOfStack # << >>
          /\ lpSerializer = {} => lpTopOfStack = << >> /\ ~Running

-----------------------------------------------------------------------------
(* The bytes of a string are bytes. *)
LEMMA FlattenType ==
  ASSUME NEW S, NEW s \in Seq(Seq(S))
  PROVE  FlattenSeq(s) \in Seq(S)
<1> DEFINE n == Len(s)
           f == CHOOSE f : Flattens(f, s, n)
           T == {k \in Nat : k \in 1 .. n => f[k] \in Seq(S)}
<1>1. n \in Nat /\ \A i \in 1 .. n : s[i] \in Seq(S)
  BY ElementOfSeq
<1>2. Flattens(f, s, n)
  BY <1>1, FlattenExists
<1> HIDE DEF f
<1>3. 0 \in T
  OBVIOUS
<1>4. ASSUME NEW k \in T PROVE k + 1 \in T
  <2> SUFFICES ASSUME k + 1 \in 1 .. n PROVE f[k + 1] \in Seq(S)
    OBVIOUS
  <2>1. f[k + 1] = IF k + 1 = 1 THEN s[k + 1] ELSE f[k] \o s[k + 1]
    <3>1. \A i \in 1 .. n : f[i] = IF i = 1 THEN s[i] ELSE f[i - 1] \o s[i]
      BY <1>2 DEF Flattens
    <3>2. k \in Nat /\ k + 1 - 1 = k
      BY <1>4
    <3> HIDE DEF n
    <3> QED
      BY <3>1, <3>2
  <2>2. k # 0 => f[k] \in Seq(S)
    BY <1>1
  <2> QED
    BY <1>1, <2>1, <2>2, ConcatProperties
<1>5. T = Nat
  <2> HIDE DEF T
  <2>1. T \in SUBSET Nat
    BY DEF T
  <2> QED
    BY <1>3, <1>4, <2>1, SetInduction
<1>6. n # 0 => f[n] \in Seq(S)
  BY <1>1, <1>5
<1>7. n # 0 => FlattenSeq(s) = f[n]
  BY DEF FlattenSeq, f, Flattens
<1>8. n = 0 => FlattenSeq(s) = << >>
  BY EmptySeq DEF FlattenSeq
<1> QED
  BY <1>6, <1>7, <1>8

-----------------------------------------------------------------------------
(* The stack as its top on what is below it. *)
LEMMA FrameByType ==
  ASSUME NEW f \in Frame
  PROVE  /\ f.type \in {"Constant", "Number", "String", "Array", "Object"}
         /\ f.elm \in Block
         /\ f.type = "Constant" => f \in ConstantFrame
         /\ f.type = "Number" => f \in NumberFrame
         /\ f.type = "String" => f \in StringFrame
         /\ f.type = "Array" => f \in ArrayFrame
         /\ f.type = "Object" => f \in ObjectFrame
BY DEF Frame, ConstantFrame, NumberFrame, StringFrame, ArrayFrame, ObjectFrame

LEMMA OwnAppend ==
  ASSUME NEW b \in Seq(Frame), NEW f
  PROVE  /\ StackMem(Append(b, f)) = StackMem(b) \cup FrameMem(f)
         /\ Own(Append(b, f)) <=>
              Own(b) /\ Tidy(f) /\ StackMem(b) \cap FrameMem(f) = {}
<1> DEFINE t == Append(b, f)
           n == Len(b)
<1>1. b \in Seq(Frame \cup {f}) /\ n \in Nat
  BY SeqMonotonic, LenProperties
<1>2. Len(t) = n + 1 /\ (\A i \in 1 .. n : t[i] = b[i]) /\ t[n + 1] = f
  BY <1>1, AppendProperties
<1> HIDE DEF t, n
<1>3. 1 .. n + 1 = (1 .. n) \cup {n + 1} /\ n + 1 \notin 1 .. n
  BY <1>1
<1>4. StackMem(t) = StackMem(b) \cup FrameMem(f)
  <2>1. \A x : x \in StackMem(t) <=> \E i \in 1 .. n + 1 : x \in FrameMem(t[i])
    BY <1>2 DEF StackMem
  <2>2. \A x : x \in StackMem(b) <=> \E i \in 1 .. n : x \in FrameMem(b[i])
    BY DEF StackMem, n
  <2>3. \A x : x \in StackMem(t) <=> x \in StackMem(b) \/ x \in FrameMem(f)
    BY <1>2, <1>3, <2>1, <2>2, Zenon
  <2> QED
    BY <2>3
<1>5. (\A i \in 1 .. n + 1 : Tidy(t[i])) <=> (\A i \in 1 .. n : Tidy(b[i])) /\ Tidy(f)
  BY <1>2, <1>3, Zenon
<1>6. StackMem(b) \cap FrameMem(f) = {} <=>
        \A i \in 1 .. n : FrameMem(b[i]) \cap FrameMem(f) = {}
  <2>1. \A x : x \in StackMem(b) <=> \E i \in 1 .. n : x \in FrameMem(b[i])
    BY DEF StackMem, n
  <2>2. StackMem(b) \cap FrameMem(f) = {} <=> ~\E x : x \in StackMem(b) /\ x \in FrameMem(f)
    OBVIOUS
  <2>3. \A i \in 1 .. n : FrameMem(b[i]) \cap FrameMem(f) = {}
                          <=> ~\E x : x \in FrameMem(b[i]) /\ x \in FrameMem(f)
    OBVIOUS
  <2> QED
    BY <2>1, <2>2, <2>3, Zenon
<1>7. (\A i, j \in 1 .. n + 1 : i # j => FrameMem(t[i]) \cap FrameMem(t[j]) = {}) <=>
        /\ \A i, j \in 1 .. n : i # j => FrameMem(b[i]) \cap FrameMem(b[j]) = {}
        /\ \A i \in 1 .. n : FrameMem(b[i]) \cap FrameMem(f) = {}
  <2> DEFINE D(x, y) == FrameMem(x) \cap FrameMem(y) = {}
  <2>1. \A x, y : D(x, y) <=> D(y, x)
    OBVIOUS
  <2> HIDE DEF D
  <2>2. (\A i, j \in 1 .. n + 1 : i # j => D(t[i], t[j])) <=>
          /\ \A i, j \in 1 .. n : i # j => D(b[i], b[j])
          /\ \A i \in 1 .. n : D(b[i], f)
    <3>1. ASSUME \A i, j \in 1 .. n + 1 : i # j => D(t[i], t[j])
          PROVE  /\ \A i, j \in 1 .. n : i # j => D(b[i], b[j])
                 /\ \A i \in 1 .. n : D(b[i], f)
      BY <1>2, <1>3, <3>1
    <3>2. ASSUME \A i, j \in 1 .. n : i # j => D(b[i], b[j]),
                 \A i \in 1 .. n : D(b[i], f),
                 NEW i \in 1 .. n + 1, NEW j \in 1 .. n + 1, i # j
          PROVE  D(t[i], t[j])
      BY <1>2, <1>3, <2>1, <3>2
    <3> QED
      BY <3>1, <3>2
  <2> QED
    BY <2>2 DEF D
<1>8. Own(t) <=> Own(b) /\ Tidy(f) /\ StackMem(b) \cap FrameMem(f) = {}
  BY <1>2, <1>5, <1>6, <1>7 DEF Own, n
<1> QED
  BY <1>4, <1>8 DEF t

LEMMA OwnEmpty == StackMem(<< >>) = {} /\ Own(<< >>)
<1>1. Len(<< >>) = 0 /\ 1 .. 0 = {}
  BY EmptySeq
<1> QED
  BY <1>1 DEF StackMem, Own

(* What a new top has to be for the stack to fit. *)
Above(b, g, p) == IF b = << >> THEN Unkeyed(g) ELSE Carries(b[Len(b)], Len(b), g, p)

LEMMA FitAppend ==
  ASSUME NEW b \in Seq(Frame), NEW f, NEW p
  PROVE  Fit(Append(b, f), p) <=> Fit(b, p) /\ Sound(f, Len(b) + 1, p) /\ Above(b, f, p)
<1> DEFINE t == Append(b, f)
           n == Len(b)
<1>1. b \in Seq(Frame \cup {f}) /\ n \in Nat /\ (b = << >> <=> n = 0)
  BY SeqMonotonic, LenProperties, EmptySeq
<1>2. Len(t) = n + 1 /\ (\A i \in 1 .. n : t[i] = b[i]) /\ t[n + 1] = f /\ t # << >>
  BY <1>1, AppendProperties
<1> HIDE DEF t, n
<1>3. 1 .. n + 1 = (1 .. n) \cup {n + 1} /\ n + 1 \notin 1 .. n
  BY <1>1
<1>4. (\A i \in 1 .. n + 1 : Sound(t[i], i, p)) <=>
        (\A i \in 1 .. n : Sound(b[i], i, p)) /\ Sound(f, n + 1, p)
  BY <1>2, <1>3, Zenon
<1>5. (\A i \in 1 .. n + 1 : i < n + 1 => Carries(t[i], i, t[i + 1], p)) <=>
        /\ \A i \in 1 .. n : i < n => Carries(b[i], i, b[i + 1], p)
        /\ b # << >> => Carries(b[n], n, f, p)
  <2> DEFINE C(i, x, y) == Carries(x, i, y, p)
  <2> HIDE DEF C
  <2>1. (\A i \in 1 .. n + 1 : i < n + 1 => C(i, t[i], t[i + 1])) <=>
          /\ \A i \in 1 .. n : i < n => C(i, b[i], b[i + 1])
          /\ b # << >> => C(n, b[n], f)
    <3>1. ASSUME \A i \in 1 .. n + 1 : i < n + 1 => C(i, t[i], t[i + 1])
          PROVE  /\ \A i \in 1 .. n : i < n => C(i, b[i], b[i + 1])
                 /\ b # << >> => C(n, b[n], f)
      <4>1. \A i \in 1 .. n : C(i, t[i], t[i + 1])
        BY <1>1, <3>1
      <4>2. \A i \in 1 .. n : i < n => t[i + 1] = b[i + 1]
        BY <1>1, <1>2
      <4> QED
        BY <1>1, <1>2, <4>1, <4>2
    <3>2. ASSUME \A i \in 1 .. n : i < n => C(i, b[i], b[i + 1]), b # << >> => C(n, b[n], f),
                 NEW i \in 1 .. n + 1, i < n + 1
          PROVE  C(i, t[i], t[i + 1])
      <4>1. CASE i = n
        BY <1>1, <1>2, <3>2, <4>1
      <4>2. CASE i < n
        BY <1>1, <1>2, <3>2, <4>2
      <4> QED
        BY <1>1, <3>2, <4>1, <4>2
    <3> QED
      BY <3>1, <3>2
  <2> QED
    BY <2>1 DEF C
<1>6. t[1] = IF b = << >> THEN f ELSE b[1]
  BY <1>1, <1>2
<1>7. Fit(t, p) <=> Fit(b, p) /\ Sound(f, n + 1, p) /\ Above(b, f, p)
  <2>1. CASE b = << >>
    BY <1>2, <1>4, <1>5, <1>6, <2>1 DEF Fit, Above, n
  <2>2. CASE b # << >>
    BY <1>2, <1>4, <1>5, <1>6, <2>2 DEF Fit, Above, n
  <2> QED
    BY <2>1, <2>2
<1> QED
  BY <1>7 DEF t, n

LEMMA FitEmpty == \A p : Fit(<< >>, p)
<1>1. Len(<< >>) = 0 /\ 1 .. 0 = {}
  BY EmptySeq
<1> QED
  BY <1>1 DEF Fit

-----------------------------------------------------------------------------
(* What a running call finds. *)
Place == Len(Below) + 1

LEMMA RunningTop ==
  ASSUME SerInv, Running
  PROVE  /\ Below \in Seq(Frame) /\ Top \in Frame /\ lpTopOfStack # << >>
         /\ lpTopOfStack = Append(Below, Top) /\ \A g : SetTop(g) = Append(Below, g)
         /\ Fit(Below, pretty) /\ Sound(Top, Place, pretty) /\ Above(Below, Top, pretty)
         /\ Own(Below) /\ Tidy(Top) /\ StackMem(Below) \cap FrameMem(Top) = {}
         /\ heap = lpSerializer \cup StackMem(Below) \cup FrameMem(Top)
         /\ lpSerializer \cap (StackMem(Below) \cup FrameMem(Top)) = {}
         /\ lpSerializer # {} /\ Place \in Nat \ {0} /\ IndentDepth = Depth(Place, pretty)
<1>1. lpTopOfStack \in Seq(Frame) /\ lpTopOfStack # << >>
  BY DEF SerInv, TypeOK
<1>2. /\ Below \in Seq(Frame) /\ Top \in Frame
      /\ lpTopOfStack = Append(Below, Top) /\ \A g : SetTop(g) = Append(Below, g)
  BY <1>1, AsAppend DEF Below, Top, SetTop
<1>3. Fit(Below, pretty) /\ Sound(Top, Place, pretty) /\ Above(Below, Top, pretty)
  BY <1>2, FitAppend DEF SerInv, Place
<1>4. /\ StackMem(lpTopOfStack) = StackMem(Below) \cup FrameMem(Top)
      /\ Own(Below) /\ Tidy(Top) /\ StackMem(Below) \cap FrameMem(Top) = {}
  BY <1>2, OwnAppend DEF SerInv, Account
<1>5. /\ heap = lpSerializer \cup StackMem(Below) \cup FrameMem(Top)
      /\ lpSerializer \cap (StackMem(Below) \cup FrameMem(Top)) = {}
  BY <1>4 DEF SerInv, Account
<1>6. Len(lpTopOfStack) = Place /\ Place \in Nat \ {0}
  <2>1. Len(Below) \in Nat /\ Len(Append(Below, Top)) = Len(Below) + 1
    BY <1>2, AppendProperties, LenProperties
  <2> QED
    BY <1>2, <2>1 DEF Place
<1>7. IndentDepth = Depth(Place, pretty)
  BY <1>6 DEF IndentDepth, Depth
<1> QED
  BY <1>1, <1>2, <1>3, <1>4, <1>5, <1>6, <1>7 DEF SerInv

(* A block that is allocated is none of those that are held. *)
LEMMA FreshBlock ==
  ASSUME TypeOK, CanAlloc
  PROVE  Fresh \in Block /\ Fresh \notin heap /\ Fresh # Null /\ Fresh # Wild
<1>1. \E b \in Block : b \notin heap
  BY DEF CanAlloc
<1> QED
  BY <1>1, BlockAssumption DEF Fresh

LEMMA KeyMemory ==
  ASSUME NEW f \in Frame
  PROVE  /\ FrameMem(f) \in SUBSET Block
         /\ f.type # "Object" => KeyMem(f) = {}
         /\ f.type = "Object" /\ f.lpTempString \notin Block => KeyMem(f) = {}
BY FrameByType DEF KeyMem, FrameMem

(* How the steps of a running call preserve the invariant: the call goes on   *)
(* or returns, and the top is replaced, popped, or covered.                   *)
Answers == /\ status' \in Status /\ at' \in {"enter", "spin", "behind"}
           /\ out' \in Seq(Octet) /\ Fixed

LEMMA ReplaceKept ==
  ASSUME SerInv, Running, Answers,
         NEW g \in Frame, lpTopOfStack' = SetTop(g),
         Sound(g, Place, pretty), Above(Below, g, pretty),
         Tidy(g), StackMem(Below) \cap FrameMem(g) = {}, lpSerializer \cap FrameMem(g) = {},
         heap' = lpSerializer \cup StackMem(Below) \cup FrameMem(g)
  PROVE  SerInv'
<1> DEFINE s == Append(Below, g)
<1>1. /\ Below \in Seq(Frame) /\ Fit(Below, pretty) /\ Own(Below)
      /\ lpSerializer \cap StackMem(Below) = {} /\ lpSerializer # {}
      /\ lpTopOfStack' = s
  BY RunningTop
<1>2. s \in Seq(Frame) /\ s # << >>
  BY <1>1, AppendProperties
<1>3. /\ StackMem(s) = StackMem(Below) \cup FrameMem(g) /\ Own(s)
  BY <1>1, OwnAppend
<1>4. Fit(s, pretty)
  BY <1>1, FitAppend DEF Place
<1> HIDE DEF s
<1>5. client' = client /\ pretty' = pretty /\ lpSerializer' = lpSerializer /\ doc' = doc
  BY DEF Answers, Fixed, pretty
<1>6. heap' \in SUBSET Block
  <2>1. StackMem(Below) \in SUBSET Block /\ lpSerializer \in SUBSET Block
    BY RunningTop DEF SerInv, TypeOK
  <2> QED
    BY <2>1, KeyMemory
<1>7. TypeOK'
  BY <1>1, <1>2, <1>5, <1>6 DEF SerInv, TypeOK, Answers
<1>8. Account'
  <2>1. heap' = lpSerializer \cup StackMem(s) /\ lpSerializer \cap StackMem(s) = {}
    BY <1>1, <1>3
  <2> QED
    BY <1>1, <1>3, <1>5, <2>1 DEF SerInv, Account
<1>9. Fit(lpTopOfStack, pretty)'
  BY <1>1, <1>4, <1>5
<1> QED
  BY <1>1, <1>2, <1>5, <1>7, <1>8, <1>9 DEF SerInv

(* An element of the same kind that holds the same blocks. *)
Like(g, f) == /\ g.type = f.type /\ g.elm = f.elm
              /\ f.type = "String" => g.temp = f.temp
              /\ f.type = "Object" => g.lpTempString = f.lpTempString

LEMMA LikeHolds ==
  ASSUME NEW f, NEW g, Like(g, f), NEW b, NEW p
  PROVE  /\ FrameMem(g) = FrameMem(f) /\ KeyMem(g) = KeyMem(f) /\ (Tidy(f) => Tidy(g))
         /\ Above(b, f, p) => Above(b, g, p)
BY DEF Like, FrameMem, KeyMem, Tidy, Above, Carries, Unkeyed

LEMMA LikeKept ==
  ASSUME SerInv, Running, Answers, heap' = heap,
         NEW g \in Frame, lpTopOfStack' = SetTop(g), Like(g, Top), Sound(g, Place, pretty)
  PROVE  SerInv'
<1>1. /\ FrameMem(g) = FrameMem(Top) /\ Tidy(g) /\ Above(Below, g, pretty)
  BY LikeHolds, RunningTop
<1>2. /\ heap' = lpSerializer \cup StackMem(Below) \cup FrameMem(g)
      /\ StackMem(Below) \cap FrameMem(g) = {} /\ lpSerializer \cap FrameMem(g) = {}
  BY <1>1, RunningTop
<1> QED
  BY <1>1, <1>2, ReplaceKept

LEMMA StayKept ==
  ASSUME SerInv, Running, Answers, heap' = heap, lpTopOfStack' = lpTopOfStack
  PROVE  SerInv'
<1>1. lpTopOfStack' = SetTop(Top) /\ Top \in Frame /\ Sound(Top, Place, pretty)
  BY RunningTop
<1>2. Like(Top, Top)
  BY DEF Like
<1> QED
  BY <1>1, <1>2, LikeKept

LEMMA PopKept ==
  ASSUME SerInv, Running, Pop, Fixed, out' \in Seq(Octet), KeyMem(Top) = {}
  PROVE  SerInv'
<1>1. /\ Below \in Seq(Frame) /\ Top \in Frame /\ Fit(Below, pretty) /\ Own(Below)
      /\ lpSerializer # {}
      /\ StackMem(Below) \cap FrameMem(Top) = {}
      /\ heap = lpSerializer \cup StackMem(Below) \cup FrameMem(Top)
      /\ lpSerializer \cap (StackMem(Below) \cup FrameMem(Top)) = {}
  BY RunningTop
<1>2. FrameMem(Top) = {Top.elm}
  BY DEF FrameMem
<1>3. /\ lpTopOfStack' = Below /\ heap' = heap \ {Top.elm}
      /\ at' \in {"enter", "spin", "behind"} /\ status' \in Status
      /\ Running' => Below # << >>
  BY DEF Pop, SerInv, TypeOK, Status, Running
<1>4. client' = client /\ pretty' = pretty /\ lpSerializer' = lpSerializer /\ doc' = doc
  BY DEF Fixed, pretty
<1>5. /\ heap' = lpSerializer \cup StackMem(Below) /\ lpSerializer \cap StackMem(Below) = {}
      /\ heap' \in SUBSET Block
  <2>1. heap \in SUBSET Block
    BY DEF SerInv, TypeOK
  <2> QED
    BY <1>1, <1>2, <1>3, <2>1
<1>6. TypeOK'
  BY <1>1, <1>3, <1>4, <1>5 DEF SerInv, TypeOK
<1>7. Account'
  BY <1>1, <1>3, <1>4, <1>5 DEF SerInv, Account
<1>8. Fit(lpTopOfStack, pretty)'
  BY <1>1, <1>3, <1>4
<1> QED
  BY <1>1, <1>3, <1>4, <1>6, <1>7, <1>8 DEF SerInv

LEMMA CoverKept ==
  ASSUME SerInv, Running, CanAlloc, Fixed, UNCHANGED <<at, status, out>>,
         NEW g \in Frame, Like(g, Top), Sound(g, Place, pretty),
         NEW h \in Frame, h.elm = Fresh, KeyMem(h) = {}, Sound(h, Place + 1, pretty),
         Carries(g, Place, h, pretty),
         lpTopOfStack' = Append(SetTop(g), h), heap' = heap \cup {Fresh}
  PROVE  SerInv'
<1> DEFINE b == SetTop(g)
           s == Append(b, h)
<1>1. /\ FrameMem(g) = FrameMem(Top) /\ Tidy(g) /\ Above(Below, g, pretty)
  BY LikeHolds, RunningTop
<1>2. /\ Below \in Seq(Frame) /\ Fit(Below, pretty) /\ Own(Below) /\ b = Append(Below, g)
      /\ StackMem(Below) \cap FrameMem(Top) = {} /\ lpSerializer # {}
      /\ heap = lpSerializer \cup StackMem(Below) \cup FrameMem(Top)
      /\ lpSerializer \cap (StackMem(Below) \cup FrameMem(Top)) = {}
  BY RunningTop
<1>3. /\ b \in Seq(Frame) /\ b # << >> /\ Len(b) = Place /\ b[Len(b)] = g
      /\ s \in Seq(Frame) /\ s # << >>
  BY <1>2, AppendProperties DEF Place
<1>4. Fit(b, pretty)
  BY <1>1, <1>2, FitAppend DEF Place
<1>5. Own(b) /\ StackMem(b) = StackMem(Below) \cup FrameMem(Top)
  BY <1>1, <1>2, OwnAppend
<1> HIDE DEF b
<1>6. Fit(s, pretty)
  <2>1. Above(b, h, pretty)
    BY <1>3 DEF Above
  <2> QED
    BY <1>3, <1>4, <2>1, FitAppend
<1>7. Fresh \in Block /\ Fresh \notin heap
  BY FreshBlock DEF SerInv
<1>8. FrameMem(h) = {Fresh} /\ Tidy(h)
  BY DEF FrameMem, Tidy
<1>9. Own(s) /\ StackMem(s) = StackMem(b) \cup {Fresh}
  <2>1. StackMem(b) \cap FrameMem(h) = {}
    BY <1>2, <1>5, <1>7, <1>8
  <2> QED
    BY <1>3, <1>5, <1>8, <2>1, OwnAppend
<1>10. /\ heap' = lpSerializer \cup StackMem(s) /\ lpSerializer \cap StackMem(s) = {}
       /\ heap' \in SUBSET Block
  <2>1. heap \in SUBSET Block
    BY DEF SerInv, TypeOK
  <2>2. heap = lpSerializer \cup StackMem(b) /\ lpSerializer \cap StackMem(b) = {}
    BY <1>2, <1>5
  <2> QED
    BY <1>7, <1>9, <2>1, <2>2
<1>11. lpTopOfStack' = s
  BY DEF b
<1> HIDE DEF s
<1>12. client' = client /\ pretty' = pretty /\ lpSerializer' = lpSerializer /\ doc' = doc
  BY DEF Fixed, pretty
<1>13. TypeOK'
  BY <1>3, <1>10, <1>11, <1>12 DEF SerInv, TypeOK
<1>14. Account'
  BY <1>9, <1>10, <1>11, <1>12 DEF SerInv, Account
<1>15. Fit(lpTopOfStack, pretty)'
  BY <1>6, <1>11, <1>12
<1> QED
  BY <1>2, <1>3, <1>11, <1>12, <1>13, <1>14, <1>15 DEF SerInv

-----------------------------------------------------------------------------
(* The writes.  A write takes k bytes of the text and leaves the element g;   *)
(* the last write of an element may pop it instead.                           *)
Wrote(text, k, g) ==
  /\ out' = out \o Visible(text, k) /\ lpTopOfStack' = SetTop(g)
  /\ UNCHANGED <<at, status>> \/ Return("UserError")
  /\ Fixed /\ UNCHANGED heap
WroteLast(text, k) == out' = out \o Visible(text, k) /\ Pop /\ Fixed

IsText(text) == text = <<Blank>> \/ text \in Seq(Octet)

LEMMA AnswerRange ==
  ASSUME TypeOK, NEW n \in Nat, NEW a \in Answer(n)
  PROVE  /\ a.taken \in 0 .. n /\ a.e \in {"Ok", "UserError"}
<1>1. client.failure \in {"never", "early", "late"}
  BY WriterAssumption DEF TypeOK, Nobody
<1>2. CASE client.failure = "never"
  BY <1>2 DEF Answer
<1>3. CASE client.failure = "early"
  BY <1>3 DEF Answer
<1>4. CASE client.failure = "late"
  BY <1>4 DEF Answer
<1> QED
  BY <1>1, <1>2, <1>3, <1>4

LEMMA OutType ==
  ASSUME TypeOK, NEW text, IsText(text), NEW k \in 0 .. Len(text),
         out' = out \o Visible(text, k)
  PROVE  out' \in Seq(Octet)
<1>1. Visible(text, k) \in Seq(Octet)
  <2>1. CASE text = <<Blank>>
    BY <2>1 DEF Visible
  <2>2. CASE text # <<Blank>>
    <3>1. text \in Seq(Octet) /\ k \in Nat /\ k <= Len(text)
      BY <2>2, LenProperties DEF IsText
    <3> QED
      BY <2>2, <3>1, Prefix DEF Visible
  <2> QED
    BY <2>1, <2>2
<1> QED
  BY <1>1, ConcatProperties DEF TypeOK

LEMMA WroteKept ==
  ASSUME SerInv, Running, NEW text, IsText(text), NEW k \in 0 .. Len(text),
         NEW g \in Frame, Wrote(text, k, g), Like(g, Top), Sound(g, Place, pretty)
  PROVE  SerInv'
<1>1. out' \in Seq(Octet)
  BY OutType DEF SerInv, Wrote
<1>2. status' \in Status /\ at' \in {"enter", "spin", "behind"}
  BY DEF Wrote, Return, SerInv, TypeOK, Status
<1> QED
  BY <1>1, <1>2, LikeKept DEF Wrote, Answers

LEMMA WroteLastKept ==
  ASSUME SerInv, Running, NEW text, IsText(text), NEW k \in 0 .. Len(text),
         WroteLast(text, k), KeyMem(Top) = {}
  PROVE  SerInv'
<1>1. out' \in Seq(Octet)
  BY OutType DEF SerInv, WroteLast
<1> QED
  BY <1>1, PopKept DEF WroteLast

-----------------------------------------------------------------------------
(* The elements that are pushed. *)
LEMMA Utf8Bytes ==
  ASSUME NEW u \in CodeUnit
  PROVE  Utf8(u) \in Seq(Octet)
<1>1. u \in Nat /\ u < 65536
  BY DEF CodeUnit
<1>2. CASE u <= 127
  BY <1>1, <1>2 DEF Utf8, Octet
<1>3. CASE u > 127 /\ u <= 2047
  <2> DEFINE a == 192 + (u \div 64)
             b == 128 + (u % 64)
  <2>1. a \in Octet /\ b \in Octet
    BY <1>1, <1>3 DEF Octet
  <2>2. Utf8(u) = <<a, b>>
    BY <1>1, <1>3 DEF Utf8
  <2> HIDE DEF a, b
  <2> QED
    BY <2>1, <2>2
<1>4. CASE u > 2047
  <2> DEFINE a == 224 + (u \div 4096)
             b == 128 + ((u \div 64) % 64)
             c == 128 + (u % 64)
  <2>1. a \in Octet /\ b \in Octet /\ c \in Octet
    BY <1>1, <1>4 DEF Octet
  <2>2. Utf8(u) = <<a, b, c>>
    BY <1>1, <1>4 DEF Utf8
  <2> HIDE DEF a, b, c
  <2> QED
    BY <2>1, <2>2
<1> QED
  BY <1>1, <1>2, <1>3, <1>4

LEMMA BytesType ==
  ASSUME NEW v \in StringValue
  PROVE  Bytes(v) \in Seq(Octet)
<1> DEFINE s == [i \in DOMAIN v.units |-> Utf8(v.units[i])]
<1>1. v.units \in Seq(CodeUnit) /\ v.tail \in Seq(Octet)
  BY DEF StringValue
<1>2. DOMAIN v.units = 1 .. Len(v.units) /\ Len(v.units) \in Nat
  BY <1>1, LenProperties
<1>3. \A i \in 1 .. Len(v.units) : Utf8(v.units[i]) \in Seq(Octet)
  BY <1>1, ElementOfSeq, Utf8Bytes
<1>4. s \in Seq(Seq(Octet))
  BY <1>2, <1>3
<1>5. FlattenSeq(s) \in Seq(Octet)
  BY <1>4, FlattenType
<1> QED
  BY <1>1, <1>5, ConcatProperties DEF Bytes

LEMMA NewStringSound ==
  ASSUME NEW b \in Block, NEW t, t = Null \/ t \in Block, NEW w \in Seq(Octet), NEW i, NEW p
  PROVE  /\ NewString(b, t, w) \in Frame
         /\ NewString(b, t, w).type = "String" /\ NewString(b, t, w).temp = t
         /\ NewString(b, t, w).elm = b /\ KeyMem(NewString(b, t, w)) = {}
         /\ Sound(NewString(b, t, w), i, p)
<1> DEFINE h == NewString(b, t, w)
<1>1. << >> \in Seq(Octet) /\ 0 \in 0 .. 6
  OBVIOUS
<1>2. h \in StringFrame
  BY <1>1 DEF NewString, StringFrame
<1>3. h.type = "String" /\ h.temp = t /\ h.elm = b /\ h.state = "LeadingQuote"
  BY DEF NewString
<1> HIDE DEF h
<1>4. h \in Frame /\ KeyMem(h) = {} /\ Sound(h, i, p)
  BY <1>2, <1>3 DEF Frame, KeyMem, Sound, SoundString
<1> QED
  BY <1>3, <1>4 DEF h

LEMMA NewFrameSound ==
  ASSUME NEW n \in Node, NEW b \in Block, NEW i, NEW p
  PROVE  /\ NewFrame(n, b) \in Frame /\ Unkeyed(NewFrame(n, b))
         /\ NewFrame(n, b).elm = b /\ KeyMem(NewFrame(n, b)) = {}
         /\ Sound(NewFrame(n, b), i, p)
<1> DEFINE v == Tree[n]
           h == NewFrame(n, b)
<1>1. CASE v.type = "Constant"
  <2>1. Literal[v.value] \in Seq(Octet)
    <3>1. /\ Literal["True"] = <<116, 114, 117, 101>>
          /\ Literal["False"] = <<102, 97, 108, 115, 101>>
          /\ Literal["Null"] = <<110, 117, 108, 108>>
      BY DEF Literal
    <3>2. /\ <<116, 114, 117, 101>> \in Seq(Octet)
          /\ <<102, 97, 108, 115, 101>> \in Seq(Octet)
          /\ <<110, 117, 108, 108>> \in Seq(Octet)
      BY DEF Octet
    <3>3. Literal["True"] \in Seq(Octet) /\ Literal["False"] \in Seq(Octet)
          /\ Literal["Null"] \in Seq(Octet)
      BY ONLY <3>1, <3>2
    <3>4. v.value \in {"True", "False", "Null"}
      BY <1>1, TreeAssumption DEF Literal
    <3>5. \A x \in {"True", "False", "Null"} : Literal[x] \in Seq(Octet)
      BY ONLY <3>3, Zenon
    <3> QED
      BY <3>4, <3>5
  <2>2. h = [type |-> "Constant", elm |-> b, text |-> Literal[v.value], dwBytesWritten |-> 0]
    BY <1>1 DEF NewFrame
  <2> HIDE DEF h
  <2>3. h \in ConstantFrame /\ h.type = "Constant" /\ h.elm = b
    BY <2>1, <2>2 DEF ConstantFrame
  <2> QED
    BY <2>3 DEF Frame, Unkeyed, KeyMem, Sound, h
<1>2. CASE v.type = "Number"
  <2>1. Printed(v.digits) \in Seq(Octet)
    <3>1. v.digits \in Seq(Octet) /\ v.digits # << >>
      BY <1>2, TreeAssumption
    <3>2. SubSeq(v.digits, 1, Len(v.digits) - 1) \in Seq(Octet)
      BY <3>1, AsAppend
    <3>3. <<0>> \in Seq(Octet)
      BY DEF Octet
    <3> QED
      BY <3>2, <3>3, ConcatProperties DEF Printed
  <2>2. h = [type |-> "Number", elm |-> b, bString |-> Printed(v.digits), dwWritten |-> 0]
    BY <1>2 DEF NewFrame
  <2> HIDE DEF h
  <2>3. h \in NumberFrame /\ h.type = "Number" /\ h.elm = b
    BY <2>1, <2>2 DEF NumberFrame
  <2> QED
    BY <2>3 DEF Frame, Unkeyed, KeyMem, Sound, h
<1>3. CASE v.type = "String"
  <2>1. h = NewString(b, Null, Bytes(v))
    BY <1>3 DEF NewFrame
  <2>2. v \in StringValue
    BY <1>3, TreeAssumption
  <2>3. Bytes(v) \in Seq(Octet)
    BY <2>2, BytesType
  <2> QED
    BY <2>1, <2>3, NewStringSound DEF Unkeyed
<1>4. CASE v.type = "Array"
  <2>1. h = [type |-> "Array", elm |-> b, lpArray |-> n, dwBytesWritten |-> 0,
             dwCurrentIndex |-> 0, dwWrittenIndent |-> 0, dwWrittenPast |-> 0]
    BY <1>4 DEF NewFrame
  <2> HIDE DEF h
  <2>2. h \in ArrayFrame /\ h.type = "Array" /\ h.elm = b /\ h.lpArray = n
    BY <2>1 DEF ArrayFrame
  <2> QED
    BY <1>4, <2>2 DEF Frame, Unkeyed, KeyMem, Sound, h
<1>5. CASE v.type = "Object"
  <2>1. h = [type |-> "Object", elm |-> b, lpObject |-> n, lpTempString |-> Wild,
             dwBytesWritten |-> 0, state |-> "Header", lpCurrentBucketEntry |-> 0]
    BY <1>5 DEF NewFrame
  <2> HIDE DEF h
  <2>2. /\ h \in ObjectFrame /\ h.type = "Object" /\ h.elm = b /\ h.lpObject = n
        /\ h.lpTempString = Wild /\ h.state = "Header"
    BY <2>1 DEF ObjectFrame
  <2> QED
    BY <1>5, <2>2, BlockAssumption DEF Frame, Unkeyed, KeyMem, Sound, SoundObject, h
<1> QED
  BY <1>1, <1>2, <1>3, <1>4, <1>5, TreeAssumption

-----------------------------------------------------------------------------
(* The ways a step goes on or returns. *)
Covered(g, h) == /\ CanAlloc /\ lpTopOfStack' = Append(SetTop(g), h)
                 /\ heap' = heap \cup {Fresh} /\ Fixed /\ UNCHANGED <<at, status, out>>
Refused(g, e) == lpTopOfStack' = SetTop(g) /\ Return(e) /\ Fixed /\ UNCHANGED <<heap, out>>

LEMMA RefusedKept ==
  ASSUME SerInv, Running, NEW g \in Frame, NEW e \in Status, Refused(g, e),
         Like(g, Top), Sound(g, Place, pretty)
  PROVE  SerInv'
<1>1. status' \in Status /\ at' \in {"enter", "spin", "behind"} /\ out' \in Seq(Octet)
  BY DEF Refused, Return, SerInv, TypeOK
<1> QED
  BY <1>1, LikeKept DEF Refused, Answers

LEMMA FailKept ==
  ASSUME SerInv, Running, NEW e \in Status, Fail(e)
  PROVE  SerInv'
<1>1. status' \in Status /\ at' \in {"enter", "spin", "behind"} /\ out' \in Seq(Octet)
  BY DEF Fail, Return, SerInv, TypeOK
<1> QED
  BY <1>1, StayKept DEF Fail, Answers

LEMMA GoOnKept ==
  ASSUME SerInv, Running, NEW g \in Frame, GoOn(g), Like(g, Top), Sound(g, Place, pretty)
  PROVE  SerInv'
<1>1. status' \in Status /\ at' \in {"enter", "spin", "behind"} /\ out' \in Seq(Octet)
  BY DEF GoOn, SerInv, TypeOK
<1> QED
  BY <1>1, LikeKept DEF GoOn, Answers

-----------------------------------------------------------------------------
(* Constants and numbers. *)
LEMMA Suffix ==
  ASSUME NEW w \in Seq(Octet), NEW k \in Nat
  PROVE  SubSeq(w, k + 1, Len(w)) \in Seq(Octet)
<1>1. Len(w) \in Nat /\ k + 1 \in Int
  BY LenProperties
<1>2. \A i \in k + 1 .. Len(w) : w[i] \in Octet
  BY <1>1, ElementOfSeq
<1> QED
  BY <1>1, <1>2, SubSeqProperties

LEMMA ConstantKept ==
  ASSUME SerInv, Running, Continue_Constant
  PROVE  SerInv'
<1> DEFINE left == SubSeq(Top.text, Top.dwBytesWritten + 1, Len(Top.text))
           g(k) == [Top EXCEPT !.dwBytesWritten = @ + k]
<1>1. Top.type = "Constant" /\ Top \in ConstantFrame /\ Top \in Frame
  BY RunningTop, FrameByType DEF Continue_Constant, Handling
<1>2. left \in Seq(Octet) /\ Len(left) \in Nat
  BY <1>1, Suffix, LenProperties DEF ConstantFrame
<1>3. KeyMem(Top) = {}
  BY <1>1 DEF KeyMem
<1>4. ASSUME NEW k \in Nat
      PROVE  g(k) \in Frame /\ Like(g(k), Top) /\ Sound(g(k), Place, pretty)
  <2>1. g(k) \in ConstantFrame /\ g(k).type = "Constant" /\ g(k).elm = Top.elm
    BY <1>1 DEF ConstantFrame
  <2> QED
    BY <1>1, <2>1 DEF Like, Sound, Frame
<1>5. \/ \E k \in 0 .. Len(left) : WroteLast(left, k) \/ Wrote(left, k, g(k))
      \/ Pop /\ Fixed /\ UNCHANGED out
  <2>1. \/ left # << >> /\ WriteLast(left, g)
        \/ left = << >> /\ Pop /\ Fixed /\ UNCHANGED out
    BY DEF Continue_Constant
  <2> HIDE DEF left
  <2> QED
    BY <1>2, <2>1, AnswerRange DEF SerInv, WriteLast, Wrote, WroteLast
<1> HIDE DEF left, g
<1>6. CASE \E k \in 0 .. Len(left) : WroteLast(left, k)
  BY <1>2, <1>3, <1>6, WroteLastKept DEF IsText
<1>7. CASE \E k \in 0 .. Len(left) : Wrote(left, k, g(k))
  BY <1>2, <1>4, <1>7, WroteKept DEF IsText
<1>8. CASE Pop /\ Fixed /\ UNCHANGED out
  BY <1>3, <1>8, PopKept DEF SerInv, TypeOK
<1> QED
  BY <1>5, <1>6, <1>7, <1>8

LEMMA NumberKept ==
  ASSUME SerInv, Running, Continue_Number
  PROVE  SerInv'
<1> DEFINE left == SubSeq(Top.bString, Top.dwWritten + 1, Len(Top.bString))
           g(k) == [Top EXCEPT !.dwWritten = @ + k]
<1>1. Top.type = "Number" /\ Top \in NumberFrame /\ Top \in Frame
  BY RunningTop, FrameByType DEF Continue_Number, Handling
<1>2. left \in Seq(Octet) /\ Len(left) \in Nat
  BY <1>1, Suffix, LenProperties DEF NumberFrame
<1>3. KeyMem(Top) = {}
  BY <1>1 DEF KeyMem
<1>4. ASSUME NEW k \in Nat
      PROVE  g(k) \in Frame /\ Like(g(k), Top) /\ Sound(g(k), Place, pretty)
  <2>1. g(k) \in NumberFrame /\ g(k).type = "Number" /\ g(k).elm = Top.elm
    BY <1>1 DEF NumberFrame
  <2> QED
    BY <1>1, <2>1 DEF Like, Sound, Frame
<1>5. \E k \in 0 .. Len(left) : WroteLast(left, k) \/ Wrote(left, k, g(k))
  <2>1. WriteLast(left, g)
    BY DEF Continue_Number
  <2> HIDE DEF left
  <2> QED
    BY <1>2, <2>1, AnswerRange DEF SerInv, WriteLast, Wrote, WroteLast
<1> HIDE DEF left, g
<1>6. CASE \E k \in 0 .. Len(left) : WroteLast(left, k)
  BY <1>2, <1>3, <1>6, WroteLastKept DEF IsText
<1>7. CASE \E k \in 0 .. Len(left) : Wrote(left, k, g(k))
  BY <1>2, <1>4, <1>7, WroteKept DEF IsText
<1> QED
  BY <1>5, <1>6, <1>7

-----------------------------------------------------------------------------
(* Arrays. *)
LEMMA SingleBytes ==
  /\ IsText(<<Blank>>) /\ Len(<<Blank>>) = 1
  /\ \A c \in Octet : IsText(<<c>>) /\ Len(<<c>>) = 1
  /\ {LBracket, RBracket, LBrace, RBrace, Comma, Colon, Quote, Backslash} \subseteq Octet
BY DEF IsText, Octet, LBracket, RBracket, LBrace, RBrace, Comma, Colon, Quote, Backslash

(* An array element whose counters have changed. *)
SameArray(g, f) == /\ g.type = f.type /\ g.elm = f.elm /\ g.lpArray = f.lpArray
LEMMA ArrayTop ==
  ASSUME SerInv, Handling("Array")
  PROVE  /\ Running /\ Top.type = "Array" /\ Top \in ArrayFrame /\ Top \in Frame
         /\ KeyMem(Top) = {} /\ Sound(Top, Place, pretty)
         /\ \A g \in ArrayFrame : SameArray(g, Top) =>
              g \in Frame /\ Like(g, Top) /\ Sound(g, Place, pretty)
         /\ Elements(Top) \in Seq(Node)
<1>1. Running /\ Top.type = "Array" /\ Top \in Frame /\ Sound(Top, Place, pretty)
  BY RunningTop DEF Handling
<1>2. Top \in ArrayFrame /\ KeyMem(Top) = {}
  BY <1>1, FrameByType DEF KeyMem
<1>3. Tree[Top.lpArray].type = "Array" /\ Top.lpArray \in Node
  BY <1>1, <1>2 DEF Sound, ArrayFrame
<1>4. Elements(Top) \in Seq(Node)
  BY <1>3, TreeAssumption DEF Elements
<1>5. \A g \in ArrayFrame : SameArray(g, Top) =>
        g \in Frame /\ Like(g, Top) /\ Sound(g, Place, pretty)
  BY <1>1, <1>3 DEF SameArray, Frame, Like, Sound
<1> QED
  BY <1>1, <1>2, <1>4, <1>5

LEMMA ArrayCounts ==
  ASSUME NEW f \in ArrayFrame, f.type = "Array", NEW k \in Nat
  PROVE  /\ [f EXCEPT !.dwBytesWritten = @ + k] \in ArrayFrame
         /\ [f EXCEPT !.dwWrittenIndent = @ + k] \in ArrayFrame
         /\ f.dwWrittenPast + k <= 2 => [f EXCEPT !.dwWrittenPast = @ + k] \in ArrayFrame
         /\ ArrayNext(f) \in ArrayFrame
         /\ SameArray([f EXCEPT !.dwBytesWritten = @ + k], f)
         /\ SameArray([f EXCEPT !.dwWrittenIndent = @ + k], f)
         /\ SameArray([f EXCEPT !.dwWrittenPast = @ + k], f)
         /\ SameArray(ArrayNext(f), f)
<1>1. /\ [f EXCEPT !.dwBytesWritten = @ + k] \in ArrayFrame
      /\ SameArray([f EXCEPT !.dwBytesWritten = @ + k], f)
  BY DEF ArrayFrame, SameArray
<1>2. /\ [f EXCEPT !.dwWrittenIndent = @ + k] \in ArrayFrame
      /\ SameArray([f EXCEPT !.dwWrittenIndent = @ + k], f)
  BY DEF ArrayFrame, SameArray
<1>3. /\ f.dwWrittenPast + k <= 2 => [f EXCEPT !.dwWrittenPast = @ + k] \in ArrayFrame
      /\ SameArray([f EXCEPT !.dwWrittenPast = @ + k], f)
  BY DEF ArrayFrame, SameArray
<1>4. ArrayNext(f) \in ArrayFrame /\ SameArray(ArrayNext(f), f)
  <2>1. 0 \in Nat /\ 0 \in 0 .. 2 /\ f.dwCurrentIndex + 1 \in Nat
    BY DEF ArrayFrame
  <2>2. \A m \in Nat, z \in 0 .. 2, y \in Nat :
          [f EXCEPT !.dwWrittenPast = z, !.dwWrittenIndent = y, !.dwCurrentIndex = m] \in ArrayFrame
    BY DEF ArrayFrame
  <2>3. ArrayNext(f) \in ArrayFrame
    BY <2>1, <2>2 DEF ArrayNext
  <2>4. SameArray(ArrayNext(f), f)
    BY DEF ArrayFrame, SameArray, ArrayNext
  <2> QED
    BY <2>3, <2>4
<1> QED
  BY <1>1, <1>2, <1>3, <1>4

LEMMA ArrayHeaderKept ==
  ASSUME SerInv, Array_Header
  PROVE  SerInv'
<1>1. Handling("Array")
  BY DEF Array_Header
<1>2. PICK text \in {<<LBracket>>, <<Blank>>}, k \in 0 .. 1 : Wrote(text, k, CountBytes(k))
  BY AnswerRange, Len(<<LBracket>>) = 1 /\ Len(<<Blank>>) = 1
  DEF Array_Header, Write, CountBytes, Wrote, SerInv
<1>3. IsText(text) /\ k \in 0 .. Len(text)
  BY <1>2, SingleBytes
<1>4. CountBytes(k) \in ArrayFrame /\ SameArray(CountBytes(k), Top)
  <2>1. Top \in ArrayFrame /\ Top.type = "Array" /\ k \in Nat
    BY <1>1, ArrayTop
  <2> QED
    BY <2>1, ArrayCounts DEF CountBytes
<1> QED
  BY <1>1, <1>2, <1>3, <1>4, ArrayTop, WroteKept

LEMMA ArraySeparatorKept ==
  ASSUME SerInv, Array_Separator
  PROVE  SerInv'
<1> DEFINE g(k) == [Top EXCEPT !.dwWrittenPast = @ + k]
<1>1. Handling("Array") /\ ~SeparatorDone(Top)
  BY DEF Array_Separator
<1>2. PICK text \in {<<Comma>>, <<Blank>>}, k \in 0 .. 1 : Wrote(text, k, g(k))
  BY AnswerRange, Len(<<Comma>>) = 1 /\ Len(<<Blank>>) = 1
  DEF Array_Separator, Write, Wrote, SerInv
<1>3. IsText(text) /\ k \in 0 .. Len(text)
  BY <1>2, SingleBytes
<1>4. Top.dwWrittenPast + k <= 2
  <2>1. Top.dwWrittenPast \in 0 .. 2
    BY <1>1, ArrayTop DEF ArrayFrame
  <2>2. ~(Top.dwWrittenPast >= IF pretty THEN 2 ELSE 1)
    BY <1>1 DEF SeparatorDone
  <2> QED
    BY <2>1, <2>2
<1>5. g(k) \in ArrayFrame /\ SameArray(g(k), Top)
  <2>1. Top \in ArrayFrame /\ Top.type = "Array" /\ k \in Nat
    BY <1>1, ArrayTop
  <2> QED
    BY <1>4, <2>1, ArrayCounts
<1> HIDE DEF g
<1> QED
  BY <1>1, <1>2, <1>3, <1>5, ArrayTop, WroteKept

LEMMA ArrayElementKept ==
  ASSUME SerInv, Array_Element
  PROVE  SerInv'
<1> DEFINE f(k) == [Top EXCEPT !.dwWrittenIndent = @ + k]
           h == NewFrame(Elements(Top)[Top.dwCurrentIndex + 1], Fresh)
<1>1. Handling("Array") /\ Top.dwCurrentIndex < Len(Elements(Top))
  BY DEF Array_Element, HasNext
<1>2. PICK k \in 0 .. 1 : \/ Covered(ArrayNext(f(k)), h)
                          \/ \E e \in {"OutOfMemory", "UserError"} : Refused(f(k), e)
  <2>1. TypeOK
    BY DEF SerInv
  <2>2. ASSUME NEW a \in Answer(1) PROVE a.taken \in 0 .. 1 /\ a.e \in {"Ok", "UserError"}
    BY <2>1, AnswerRange
  <2>3. PICK a : /\ a \in Answer(1) \/ a = [taken |-> 0, e |-> "Ok"]
                 /\ \/ a.e = "Ok" /\ Covered(ArrayNext(f(a.taken)), h)
                    \/ a.e = "Ok" /\ Refused(f(a.taken), "OutOfMemory")
                    \/ a.e # "Ok" /\ Refused(f(a.taken), a.e)
    BY DEF Array_Element, PushAbove, Covered, Refused
  <2> HIDE DEF f, h
  <2> QED
    BY <2>2, <2>3
<1>3. f(k) \in ArrayFrame /\ SameArray(f(k), Top) /\ f(k).type = "Array"
  <2>1. Top \in ArrayFrame /\ Top.type = "Array" /\ k \in Nat
    BY <1>1, ArrayTop
  <2>2. f(k) \in ArrayFrame /\ SameArray(f(k), Top)
    BY <2>1, ArrayCounts
  <2> HIDE DEF f
  <2> QED
    BY <2>1, <2>2 DEF SameArray
<1> HIDE DEF f
<1>4. ArrayNext(f(k)) \in ArrayFrame /\ SameArray(ArrayNext(f(k)), Top)
  BY <1>3, ArrayCounts DEF SameArray
<1>5. CASE Covered(ArrayNext(f(k)), h)
  <2>1. Elements(Top)[Top.dwCurrentIndex + 1] \in Node
    <3>1. Top.dwCurrentIndex \in Nat /\ Elements(Top) \in Seq(Node)
      BY <1>1, ArrayTop DEF ArrayFrame
    <3>2. Len(Elements(Top)) \in Nat
      BY <3>1, LenProperties
    <3>3. Top.dwCurrentIndex + 1 \in 1 .. Len(Elements(Top))
      BY <1>1, <3>1, <3>2
    <3> QED
      BY <3>1, <3>3, ElementOfSeq
  <2>2. Fresh \in Block
    BY <1>5, FreshBlock DEF Covered, SerInv
  <2>3. /\ h \in Frame /\ Unkeyed(h) /\ h.elm = Fresh /\ KeyMem(h) = {}
        /\ Sound(h, Place + 1, pretty)
    BY <2>1, <2>2, NewFrameSound
  <2> DEFINE g == ArrayNext(f(k))
  <2>4. g \in Frame /\ Like(g, Top) /\ Sound(g, Place, pretty) /\ g.type = "Array" /\ Running
    BY <1>1, <1>4, ArrayTop DEF SameArray
  <2> HIDE DEF g, h
  <2>5. Carries(g, Place, h, pretty)
    BY <2>3, <2>4 DEF Carries
  <2>6. Covered(g, h)
    BY <1>5 DEF g
  <2> QED
    BY <2>3, <2>4, <2>5, <2>6, CoverKept DEF Covered
<1>6. CASE \E e \in {"OutOfMemory", "UserError"} : Refused(f(k), e)
  <2>1. {"OutOfMemory", "UserError"} \subseteq Status
    BY DEF Status
  <2> QED
    BY <1>1, <1>3, <1>6, <2>1, ArrayTop, RefusedKept
<1> QED
  BY <1>2, <1>5, <1>6

LEMMA ArrayTrailerKept ==
  ASSUME SerInv, Array_Trailer
  PROVE  SerInv'
<1>1. Handling("Array")
  BY DEF Array_Trailer
<1>2. \/ \E k \in 0 .. 1 : Wrote(<<Blank>>, k, CountBytes(k))
      \/ \E k \in 0 .. 1 : Wrote(<<RBracket>>, k, CountBytes(k)) \/ WroteLast(<<RBracket>>, k)
  BY AnswerRange, Len(<<RBracket>>) = 1 /\ Len(<<Blank>>) = 1
  DEF Array_Trailer, Write, WriteLast, CountBytes, Wrote, WroteLast, SerInv
<1>3. \A k \in 0 .. 1 : CountBytes(k) \in ArrayFrame /\ SameArray(CountBytes(k), Top)
  <2>1. Top \in ArrayFrame /\ Top.type = "Array" /\ \A k \in 0 .. 1 : k \in Nat
    BY <1>1, ArrayTop
  <2> QED
    BY <2>1, ArrayCounts DEF CountBytes
<1>4. ASSUME NEW text \in {<<RBracket>>, <<Blank>>}, NEW k \in 0 .. 1,
             Wrote(text, k, CountBytes(k))
      PROVE  SerInv'
  <2>1. IsText(text) /\ k \in 0 .. Len(text)
    BY SingleBytes
  <2> QED
    BY <1>1, <1>3, <1>4, <2>1, ArrayTop, WroteKept
<1>5. ASSUME NEW k \in 0 .. 1, WroteLast(<<RBracket>>, k) PROVE SerInv'
  <2>1. IsText(<<RBracket>>) /\ k \in 0 .. Len(<<RBracket>>)
    BY SingleBytes
  <2> QED
    BY <1>1, <1>5, <2>1, ArrayTop, WroteLastKept
<1> QED
  BY <1>2, <1>4, <1>5

-----------------------------------------------------------------------------
(* Objects. *)
SameObject(g, f) == /\ g.type = f.type /\ g.elm = f.elm /\ g.lpObject = f.lpObject
                    /\ g.lpTempString = f.lpTempString
LEMMA ObjectTop ==
  ASSUME SerInv, Handling("Object")
  PROVE  /\ Running /\ Top.type = "Object" /\ Top \in ObjectFrame /\ Top \in Frame
         /\ SoundObject(Top, Place, pretty)
         /\ \A g \in ObjectFrame : SameObject(g, Top) /\ SoundObject(g, Place, pretty) =>
              g \in Frame /\ Like(g, Top) /\ Sound(g, Place, pretty)
         /\ Members(Top) \in Seq([key : StringValue, value : Node])
         /\ Len(Members(Top)) \in Nat
         /\ IndentDepth = Depth(Place, pretty) /\ IndentDepth \in Nat
<1>1. /\ Running /\ Top.type = "Object" /\ Top \in Frame /\ Sound(Top, Place, pretty)
      /\ IndentDepth = Depth(Place, pretty) /\ IndentDepth \in Nat
  BY RunningTop DEF Handling, Depth
<1>2. Top \in ObjectFrame /\ SoundObject(Top, Place, pretty)
  BY <1>1, FrameByType DEF Sound
<1>3. Tree[Top.lpObject].type = "Object" /\ Top.lpObject \in Node
  BY <1>2 DEF SoundObject, ObjectFrame
<1>4. Members(Top) \in Seq([key : StringValue, value : Node])
  BY <1>3, TreeAssumption DEF Members
<1>5. \A g \in ObjectFrame : SameObject(g, Top) /\ SoundObject(g, Place, pretty) =>
        g \in Frame /\ Like(g, Top) /\ Sound(g, Place, pretty)
  BY <1>1 DEF SameObject, Frame, Like, Sound
<1> QED
  BY <1>1, <1>2, <1>4, <1>5, LenProperties

(* The counter of an object is all that its writes change. *)
LEMMA ObjectCounts ==
  ASSUME SerInv, Handling("Object"), NEW k \in Nat
  PROVE  /\ CountBytes(k) \in ObjectFrame /\ SameObject(CountBytes(k), Top)
         /\ CountBytes(k).dwBytesWritten = Top.dwBytesWritten + k
         /\ CountBytes(k).state = Top.state
         /\ CountBytes(k).lpCurrentBucketEntry = Top.lpCurrentBucketEntry
         /\ Members(CountBytes(k)) = Members(Top)
         /\ Top.dwBytesWritten \in Nat
<1>1. Top \in ObjectFrame
  BY ObjectTop
<1>2. CountBytes(k) = [Top EXCEPT !.dwBytesWritten = Top.dwBytesWritten + k]
  BY DEF CountBytes
<1> QED
  BY <1>1, <1>2 DEF ObjectFrame, SameObject, Members

LEMMA ObjectWrote ==
  ASSUME SerInv, Handling("Object"), NEW text, IsText(text), Len(text) = 1, NEW k \in 0 .. 1,
         Wrote(text, k, CountBytes(k)), SoundObject(CountBytes(k), Place, pretty)
  PROVE  SerInv'
<1>1. CountBytes(k) \in ObjectFrame /\ SameObject(CountBytes(k), Top)
  BY ObjectCounts
<1>2. /\ Running /\ CountBytes(k) \in Frame /\ Like(CountBytes(k), Top)
      /\ Sound(CountBytes(k), Place, pretty) /\ k \in 0 .. Len(text)
  BY <1>1, ObjectTop
<1> QED
  BY <1>2, WroteKept

LEMMA ObjectHeaderKept ==
  ASSUME SerInv, Object_Header
  PROVE  SerInv'
<1>1. Handling("Object") /\ Top.state = "Header"
  BY DEF Object_Header, InState
<1>2. PICK text \in {<<LBrace>>, <<Blank>>}, k \in 0 .. 1 : Wrote(text, k, CountBytes(k))
  BY AnswerRange, Len(<<LBrace>>) = 1 /\ Len(<<Blank>>) = 1
  DEF Object_Header, Write, CountBytes, Wrote, SerInv
<1>3. IsText(text) /\ Len(text) = 1 /\ k \in Nat
  BY <1>2, SingleBytes
<1>4. SoundObject(CountBytes(k), Place, pretty)
  BY <1>1, <1>3, ObjectTop, ObjectCounts DEF SoundObject, SameObject
<1> QED
  BY <1>1, <1>2, <1>3, <1>4, ObjectWrote

LEMMA ObjectIndentKept ==
  ASSUME SerInv, Object_Indent
  PROVE  SerInv'
<1>1. Handling("Object") /\ Top.state = "Key" /\ Top.dwBytesWritten < IndentDepth
  BY DEF Object_Indent, InState
<1>2. PICK k \in 0 .. 1 : Wrote(<<Blank>>, k, CountBytes(k))
  BY AnswerRange, Len(<<Blank>>) = 1
  DEF Object_Indent, Write, CountBytes, Wrote, SerInv
<1>3. IsText(<<Blank>>) /\ Len(<<Blank>>) = 1 /\ k \in Nat
  BY <1>2, SingleBytes
<1>4. SoundObject(CountBytes(k), Place, pretty)
  <2>1. /\ CountBytes(k).dwBytesWritten = Top.dwBytesWritten + k /\ Top.dwBytesWritten \in Nat
        /\ CountBytes(k).state = Top.state /\ Members(CountBytes(k)) = Members(Top)
        /\ CountBytes(k).lpCurrentBucketEntry = Top.lpCurrentBucketEntry
        /\ SameObject(CountBytes(k), Top)
    BY <1>1, <1>3, ObjectCounts
  <2>2. /\ IndentDepth = Depth(Place, pretty) /\ IndentDepth \in Nat
        /\ SoundObject(Top, Place, pretty)
    BY <1>1, ObjectTop
  <2>3. /\ CountBytes(k).dwBytesWritten <= Depth(Place, pretty)
        /\ CountBytes(k).dwBytesWritten \in Nat /\ Depth(Place, pretty) \in Nat
    BY ONLY <1>1, <1>2, <2>1, <2>2
  <2> QED
    BY <1>1, <2>1, <2>2, <2>3 DEF SoundObject, SameObject
<1> QED
  BY <1>1, <1>2, <1>3, <1>4, ObjectWrote

LEMMA ObjectColonKept ==
  ASSUME SerInv, Object_Colon
  PROVE  SerInv'
<1>1. Handling("Object") /\ Top.state = "Key" /\ Top.dwBytesWritten = IndentDepth + 2
  BY DEF Object_Colon, InState
<1>2. PICK k \in 0 .. 1 : Wrote(<<Colon>>, k, CountBytes(k))
  BY AnswerRange, Len(<<Colon>>) = 1
  DEF Object_Colon, Write, CountBytes, Wrote, SerInv
<1>3. IsText(<<Colon>>) /\ Len(<<Colon>>) = 1 /\ k \in Nat
  BY <1>2, SingleBytes
<1>4. SoundObject(CountBytes(k), Place, pretty)
  <2>1. /\ CountBytes(k).dwBytesWritten = Top.dwBytesWritten + k /\ Top.dwBytesWritten \in Nat
        /\ CountBytes(k).state = Top.state /\ Members(CountBytes(k)) = Members(Top)
        /\ CountBytes(k).lpCurrentBucketEntry = Top.lpCurrentBucketEntry
        /\ SameObject(CountBytes(k), Top)
    BY <1>1, <1>3, ObjectCounts
  <2>2. /\ IndentDepth = Depth(Place, pretty) /\ IndentDepth \in Nat
        /\ SoundObject(Top, Place, pretty)
    BY <1>1, ObjectTop
  <2>3. /\ CountBytes(k).dwBytesWritten >= Depth(Place, pretty) + 2
        /\ CountBytes(k).dwBytesWritten \in Nat /\ Depth(Place, pretty) \in Nat
        /\ Top.dwBytesWritten > Depth(Place, pretty) + 1
    BY ONLY <1>1, <1>2, <2>1, <2>2
  <2> QED
    BY <1>1, <2>1, <2>2, <2>3 DEF SoundObject, SameObject
<1> QED
  BY <1>1, <1>2, <1>3, <1>4, ObjectWrote

(* In the states behind the members the counter may only grow. *)
LEMMA LaterCounts ==
  ASSUME SerInv, Handling("Object"), NEW k \in Nat,
         Top.state = "Trailer" \/ (Top.state = "Value" /\ Top.dwBytesWritten > 0)
  PROVE  SoundObject(CountBytes(k), Place, pretty)
<1>1. Top.dwBytesWritten > 0 => CountBytes(k).dwBytesWritten # 0
  BY ObjectCounts
<1> QED
  BY <1>1, ObjectTop, ObjectCounts DEF SoundObject, SameObject

LEMMA ObjectSeparatorKept ==
  ASSUME SerInv, Object_Separator
  PROVE  SerInv'
<1>1. /\ Handling("Object") /\ Top.state = "Value" /\ Top.dwBytesWritten > 0
      /\ Top.lpCurrentBucketEntry # 0
  BY DEF Object_Separator, InState
<1> DEFINE g == [Top EXCEPT !.state = "Key", !.dwBytesWritten = 0]
<1>2. \/ \E k \in 0 .. 1, text \in {<<Comma>>, <<Blank>>} : Wrote(text, k, CountBytes(k))
      \/ GoOn(g)
  BY AnswerRange, Len(<<Comma>>) = 1 /\ Len(<<Blank>>) = 1
  DEF Object_Separator, Write, CountBytes, Wrote, SerInv
<1>3. ASSUME NEW k \in 0 .. 1, NEW text \in {<<Comma>>, <<Blank>>}, Wrote(text, k, CountBytes(k))
      PROVE  SerInv'
  <2>1. IsText(text) /\ Len(text) = 1 /\ k \in Nat
    BY SingleBytes
  <2> QED
    BY <1>1, <1>3, <2>1, LaterCounts, ObjectWrote
<1>4. CASE GoOn(g)
  <2>1. Top \in ObjectFrame /\ SoundObject(Top, Place, pretty) /\ Depth(Place, pretty) \in Nat
    BY <1>1, ObjectTop
  <2>2. /\ g \in ObjectFrame /\ SameObject(g, Top) /\ g.state = "Key" /\ g.dwBytesWritten = 0
        /\ g.lpCurrentBucketEntry = Top.lpCurrentBucketEntry /\ Members(g) = Members(Top)
    BY <2>1 DEF ObjectFrame, SameObject, Members
  <2> HIDE DEF g
  <2>3. /\ Top.lpCurrentBucketEntry \in Nat /\ Len(Members(Top)) \in Nat
        /\ Top.lpCurrentBucketEntry <= Len(Members(Top)) /\ Top.lpTempString = Null
    BY <1>1, <2>1, ObjectTop DEF SoundObject, ObjectFrame
  <2>4. SoundObject(g, Place, pretty)
    <3>1. Null # Wild
      BY DEF Null, Wild
    <3> QED
      BY <1>1, <2>1, <2>2, <2>3, <3>1 DEF SoundObject, SameObject
  <2> QED
    BY <1>1, <1>4, <2>2, <2>4, ObjectTop, GoOnKept
<1> QED
  BY <1>2, <1>3, <1>4

LEMMA ObjectNextEntryKept ==
  ASSUME SerInv, Object_NextEntry
  PROVE  SerInv'
<1> DEFINE g == Advanced(Top)
<1>1. /\ Handling("Object") /\ Top.state = "Value" /\ GoOn(g)
  BY DEF Object_NextEntry, InState
<1>2. Top \in ObjectFrame /\ SoundObject(Top, Place, pretty) /\ Len(Members(Top)) \in Nat
  BY <1>1, ObjectTop
<1>3. EntryAfter(Top) \in Nat /\ EntryAfter(Top) <= Len(Members(Top))
  BY <1>2 DEF EntryAfter, ObjectFrame
<1>4. /\ g \in ObjectFrame /\ SameObject(g, Top) /\ g.state = Top.state /\ g.dwBytesWritten = 1
      /\ g.lpCurrentBucketEntry = EntryAfter(Top) /\ Members(g) = Members(Top)
  BY <1>2, <1>3 DEF ObjectFrame, SameObject, Members, Advanced
<1> HIDE DEF g
<1>5. SoundObject(g, Place, pretty)
  BY <1>1, <1>2, <1>3, <1>4 DEF SoundObject, SameObject
<1> QED
  BY <1>1, <1>4, <1>5, ObjectTop, GoOnKept

LEMMA ObjectLeaveKept ==
  ASSUME SerInv, Object_Leave
  PROVE  SerInv'
<1>1. Handling("Object") /\ Top.state = "Value" /\ Top.dwBytesWritten > 0
  BY DEF Object_Leave, InState
<1> DEFINE g == [Top EXCEPT !.state = "Trailer", !.dwBytesWritten = 0]
<1>2. \/ \E k \in 0 .. 1 : Wrote(<<Blank>>, k, CountBytes(k))
      \/ lpTopOfStack' = SetTop(g) /\ at' = "behind" /\ Fixed /\ UNCHANGED <<status, heap, out>>
  BY AnswerRange, Len(<<Blank>>) = 1
  DEF Object_Leave, Write, CountBytes, Wrote, SerInv
<1>3. ASSUME NEW k \in 0 .. 1, Wrote(<<Blank>>, k, CountBytes(k)) PROVE SerInv'
  <2>1. k \in Nat
    OBVIOUS
  <2> QED
    BY <1>1, <1>3, <2>1, SingleBytes, LaterCounts, ObjectWrote
<1>4. CASE lpTopOfStack' = SetTop(g) /\ at' = "behind" /\ Fixed /\ UNCHANGED <<status, heap, out>>
  <2>1. Top \in ObjectFrame /\ SoundObject(Top, Place, pretty)
    BY <1>1, ObjectTop
  <2>2. /\ g \in ObjectFrame /\ SameObject(g, Top) /\ g.state = "Trailer"
        /\ Members(g) = Members(Top)
    BY <2>1 DEF ObjectFrame, SameObject, Members
  <2>3. SoundObject(g, Place, pretty)
    BY <1>1, <2>1, <2>2, BlockAssumption DEF SoundObject, SameObject
  <2>4. Answers
    BY <1>4 DEF Answers, SerInv, TypeOK
  <2> HIDE DEF g
  <2>5. Running /\ g \in Frame /\ Like(g, Top) /\ Sound(g, Place, pretty)
    BY <1>1, <2>2, <2>3, ObjectTop
  <2> QED
    BY <1>4, <2>4, <2>5, LikeKept
<1> QED
  BY <1>2, <1>3, <1>4

LEMMA ObjectTrailerKept ==
  ASSUME SerInv, Object_Trailer
  PROVE  SerInv'
<1>1. Handling("Object") /\ Top.state = "Trailer"
  BY DEF Object_Trailer, InState
<1>2. \/ \E k \in 0 .. 1, text \in {<<Blank>>, <<RBrace>>} : Wrote(text, k, CountBytes(k))
      \/ \E k \in 0 .. 1 : WroteLast(<<RBrace>>, k)
  BY AnswerRange, Len(<<RBrace>>) = 1 /\ Len(<<Blank>>) = 1
  DEF Object_Trailer, Write, WriteLast, CountBytes, Wrote, WroteLast, SerInv
<1>3. ASSUME NEW k \in 0 .. 1, NEW text \in {<<Blank>>, <<RBrace>>}, Wrote(text, k, CountBytes(k))
      PROVE  SerInv'
  <2>1. IsText(text) /\ Len(text) = 1 /\ k \in Nat
    BY SingleBytes
  <2> QED
    BY <1>1, <1>3, <2>1, LaterCounts, ObjectWrote
<1>4. ASSUME NEW k \in 0 .. 1, WroteLast(<<RBrace>>, k) PROVE SerInv'
  <2>1. IsText(<<RBrace>>) /\ k \in 0 .. Len(<<RBrace>>)
    BY SingleBytes
  <2>2. KeyMem(Top) = {}
    BY <1>1, ObjectTop DEF SoundObject, KeyMem
  <2> QED
    BY <1>1, <1>4, <2>1, <2>2, ObjectTop, WroteLastKept
<1> QED
  BY <1>2, <1>3, <1>4

LEMMA ObjectSpinKept ==
  ASSUME SerInv, Object_Spin
  PROVE  SerInv'
<1>1. Running /\ Answers
  BY DEF Object_Spin, InState, Handling, Answers, SerInv, TypeOK
<1> QED
  BY <1>1, StayKept DEF Object_Spin

(* The steps that change which copy of a key an object holds: it loses the    *)
(* one it had, or gets one when it had none.                                  *)
LEMMA TempKept ==
  ASSUME SerInv, Handling("Object"), Answers,
         NEW g \in ObjectFrame, g.type = "Object", g.elm = Top.elm,
         lpTopOfStack' = SetTop(g), SoundObject(g, Place, pretty),
         \/ KeyMem(g) = {} /\ heap' = heap \ KeyMem(Top)
         \/ KeyMem(Top) = {} /\ KeyMem(g) = {Fresh} /\ CanAlloc /\ heap' = heap \cup {Fresh}
  PROVE  SerInv'
<1>1. Running /\ Top.type = "Object" /\ g \in Frame /\ Sound(g, Place, pretty)
  BY ObjectTop DEF Frame, Sound
<1>2. Above(Below, g, pretty)
  <2>1. Above(Below, Top, pretty)
    BY <1>1, RunningTop
  <2> QED
    BY <1>1, <2>1 DEF Above, Carries, Unkeyed
<1>3. /\ Tidy(Top) /\ StackMem(Below) \cap FrameMem(Top) = {}
      /\ heap = lpSerializer \cup StackMem(Below) \cup FrameMem(Top)
      /\ lpSerializer \cap (StackMem(Below) \cup FrameMem(Top)) = {}
  BY <1>1, RunningTop
<1>4. FrameMem(Top) = {Top.elm} \cup KeyMem(Top) /\ FrameMem(g) = {Top.elm} \cup KeyMem(g)
  BY DEF FrameMem
<1>5. /\ Tidy(g) /\ StackMem(Below) \cap FrameMem(g) = {} /\ lpSerializer \cap FrameMem(g) = {}
      /\ heap' = lpSerializer \cup StackMem(Below) \cup FrameMem(g)
  <2>1. CASE KeyMem(g) = {} /\ heap' = heap \ KeyMem(Top)
    <3>1. Top.elm \notin KeyMem(Top)
      BY <1>3 DEF Tidy
    <3>2. Tidy(g)
      BY <2>1 DEF Tidy
    <3>3. StackMem(Below) \cap FrameMem(g) = {} /\ lpSerializer \cap FrameMem(g) = {}
      BY <1>3, <1>4, <2>1
    <3>4. heap' = lpSerializer \cup StackMem(Below) \cup FrameMem(g)
      BY <1>3, <1>4, <2>1, <3>1
    <3> QED
      BY <3>2, <3>3, <3>4
  <2>2. CASE KeyMem(Top) = {} /\ KeyMem(g) = {Fresh} /\ CanAlloc /\ heap' = heap \cup {Fresh}
    <3>1. Fresh \notin heap
      BY <2>2, FreshBlock DEF SerInv
    <3>2. Tidy(g)
      BY <1>3, <1>4, <2>2, <3>1 DEF Tidy
    <3>3. StackMem(Below) \cap FrameMem(g) = {} /\ lpSerializer \cap FrameMem(g) = {}
      BY <1>3, <1>4, <2>2, <3>1
    <3>4. heap' = lpSerializer \cup StackMem(Below) \cup FrameMem(g)
      BY <1>3, <1>4, <2>2
    <3> QED
      BY <3>2, <3>3, <3>4
  <2> QED
    BY <2>1, <2>2
<1> QED
  BY <1>1, <1>2, <1>5, ReplaceKept

LEMMA ObjectSelectKept ==
  ASSUME SerInv, Object_Select
  PROVE  SerInv'
<1> DEFINE t == [Top EXCEPT !.state = "Trailer", !.dwBytesWritten = 0]
           g == [Top EXCEPT !.state = "Key", !.dwBytesWritten = 0,
                            !.lpTempString = Null, !.lpCurrentBucketEntry = 1]
<1>1. Handling("Object") /\ Top.state = "Header"
  BY DEF Object_Select, InState
<1>2. /\ Top \in ObjectFrame /\ SoundObject(Top, Place, pretty) /\ Top.type = "Object"
      /\ Depth(Place, pretty) \in Nat /\ Len(Members(Top)) \in Nat
  BY <1>1, ObjectTop
<1>3. Top.lpTempString = Wild
  BY <1>1, <1>2 DEF SoundObject
<1>4. GoOn(t) \/ (Members(Top) # << >> /\ GoOn(g))
  <2>1. CASE Members(Top) = << >>
    BY <2>1 DEF Object_Select
  <2>2. CASE Members(Top) # << >>
    BY <2>2 DEF Object_Select
  <2> QED
    BY <2>1, <2>2
<1>5. CASE GoOn(t)
  <2>1. /\ t \in ObjectFrame /\ SameObject(t, Top) /\ t.state = "Trailer"
        /\ Members(t) = Members(Top)
    BY <1>2 DEF ObjectFrame, SameObject, Members
  <2> HIDE DEF t
  <2>2. SoundObject(t, Place, pretty)
    BY <1>2, <1>3, <2>1, BlockAssumption DEF SoundObject, SameObject
  <2> QED
    BY <1>1, <1>5, <2>1, <2>2, ObjectTop, GoOnKept
<1>6. CASE Members(Top) # << >> /\ GoOn(g)
  <2>1. /\ g \in ObjectFrame /\ g.type = "Object" /\ g.elm = Top.elm /\ g.state = "Key"
        /\ g.lpObject = Top.lpObject /\ g.dwBytesWritten = 0
        /\ g.lpTempString = Null /\ g.lpCurrentBucketEntry = 1 /\ Members(g) = Members(Top)
    BY <1>2 DEF ObjectFrame, Members
  <2> HIDE DEF g
  <2>2. Len(Members(Top)) # 0
    BY <1>1, <1>6, ObjectTop, EmptySeq
  <2>3. SoundObject(g, Place, pretty)
    <3>1. Null # Wild
      BY DEF Null, Wild
    <3> QED
      BY <1>2, <2>1, <2>2, <3>1 DEF SoundObject
  <2>4. KeyMem(g) = {} /\ KeyMem(Top) = {}
    BY <1>3, <2>1, BlockAssumption DEF KeyMem
  <2>5. heap' = heap \ KeyMem(Top) /\ Answers /\ lpTopOfStack' = SetTop(g)
    BY <1>6, <2>4 DEF GoOn, Answers, SerInv, TypeOK
  <2> QED
    BY <1>1, <2>1, <2>3, <2>4, <2>5, TempKept
<1> QED
  BY <1>4, <1>5, <1>6

LEMMA ObjectCreateKeyKept ==
  ASSUME SerInv, Object_CreateKey
  PROVE  SerInv'
<1> DEFINE g == [Top EXCEPT !.lpTempString = Fresh]
<1>1. /\ Handling("Object") /\ Top.state = "Key" /\ Top.dwBytesWritten = IndentDepth
      /\ Top.lpTempString = Null
  BY DEF Object_CreateKey, InState
<1>2. /\ Top \in ObjectFrame /\ SoundObject(Top, Place, pretty) /\ Top.type = "Object"
      /\ Depth(Place, pretty) \in Nat /\ IndentDepth = Depth(Place, pretty) /\ Running
  BY <1>1, ObjectTop
<1>3. \/ /\ CanAlloc /\ lpTopOfStack' = SetTop(g) /\ heap' = heap \cup {Fresh}
         /\ Fixed /\ UNCHANGED <<at, status, out>>
      \/ Fail("OutOfMemory")
  BY DEF Object_CreateKey
<1>4. ASSUME CanAlloc, lpTopOfStack' = SetTop(g), heap' = heap \cup {Fresh},
             Fixed, UNCHANGED <<at, status, out>>
      PROVE  SerInv'
  <2>1. Fresh \in Block /\ Fresh # Null /\ Fresh # Wild
    BY <1>4, FreshBlock DEF SerInv
  <2>2. /\ g \in ObjectFrame /\ g.type = "Object" /\ g.elm = Top.elm /\ g.state = "Key"
        /\ g.lpObject = Top.lpObject /\ g.dwBytesWritten = Top.dwBytesWritten
        /\ g.lpTempString = Fresh /\ g.lpCurrentBucketEntry = Top.lpCurrentBucketEntry
        /\ Members(g) = Members(Top)
    BY <1>1, <1>2, <2>1 DEF ObjectFrame, Members
  <2> HIDE DEF g
  <2>3. SoundObject(g, Place, pretty)
    BY <1>1, <1>2, <2>1, <2>2 DEF SoundObject
  <2>4. KeyMem(g) = {Fresh} /\ KeyMem(Top) = {}
    BY <1>1, <2>1, <2>2, BlockAssumption DEF KeyMem
  <2>5. Answers
    BY <1>4 DEF Answers, SerInv, TypeOK
  <2> QED
    BY <1>1, <1>4, <2>2, <2>3, <2>4, <2>5, TempKept
<1>5. CASE Fail("OutOfMemory")
  <2>1. "OutOfMemory" \in Status
    BY DEF Status
  <2> QED
    BY <1>2, <1>5, <2>1, FailKept
<1> QED
  BY <1>3, <1>4, <1>5

LEMMA ObjectReleaseKeyKept ==
  ASSUME SerInv, Object_ReleaseKey
  PROVE  SerInv'
<1> DEFINE g == ForgetTemp(CountBytes(1))
<1>1. Handling("Object") /\ Top.state = "Key" /\ Top.dwBytesWritten = IndentDepth + 1
  BY DEF Object_ReleaseKey, InState
<1>2. /\ Top \in ObjectFrame /\ SoundObject(Top, Place, pretty) /\ Top.type = "Object"
      /\ Depth(Place, pretty) \in Nat /\ IndentDepth = Depth(Place, pretty)
  BY <1>1, ObjectTop
<1>3. Top.lpTempString \in Block
  <2>1. Top.lpTempString # Null /\ Top.lpTempString # Wild
    BY <1>1, <1>2 DEF SoundObject
  <2> QED
    BY <1>2, <2>1 DEF ObjectFrame
<1>4. g = [Top EXCEPT !.dwBytesWritten = Top.dwBytesWritten + 1, !.lpTempString = Null]
  BY <1>2 DEF ForgetTemp, CountBytes, ObjectFrame
<1>5. /\ g \in ObjectFrame /\ g.type = "Object" /\ g.elm = Top.elm /\ g.state = "Key"
      /\ g.lpObject = Top.lpObject /\ g.dwBytesWritten = Top.dwBytesWritten + 1
      /\ g.lpTempString = Null /\ g.lpCurrentBucketEntry = Top.lpCurrentBucketEntry
      /\ Members(g) = Members(Top)
  <2> HIDE DEF g
  <2>1. Top.dwBytesWritten + 1 \in Nat
    BY <1>2 DEF ObjectFrame
  <2>2. \A n \in Nat : [Top EXCEPT !.dwBytesWritten = n, !.lpTempString = Null] \in ObjectFrame
    BY <1>2 DEF ObjectFrame
  <2>3. g \in ObjectFrame
    BY <1>4, <2>1, <2>2
  <2>4. /\ g.type = Top.type /\ g.elm = Top.elm /\ g.state = Top.state
        /\ g.lpObject = Top.lpObject /\ g.dwBytesWritten = Top.dwBytesWritten + 1
        /\ g.lpTempString = Null /\ g.lpCurrentBucketEntry = Top.lpCurrentBucketEntry
    BY <1>2, <1>4 DEF ObjectFrame
  <2> QED
    BY <1>1, <1>2, <2>3, <2>4 DEF Members
<1>6. /\ lpTopOfStack' = SetTop(g) /\ heap' = heap \ {Top.lpTempString} /\ Answers
  BY DEF Object_ReleaseKey, Answers, SerInv, TypeOK
<1> HIDE DEF g
<1>7. SoundObject(g, Place, pretty)
  <2>1. Null # Wild /\ g.dwBytesWritten # Depth(Place, pretty) + 1
    BY <1>1, <1>2, <1>5 DEF Null, Wild
  <2> QED
    BY <1>1, <1>2, <1>5, <2>1 DEF SoundObject
<1>8. KeyMem(g) = {} /\ KeyMem(Top) = {Top.lpTempString}
  BY <1>2, <1>3, <1>5, BlockAssumption DEF KeyMem
<1> QED
  BY <1>1, <1>5, <1>6, <1>7, <1>8, TempKept

LEMMA ObjectMember ==
  ASSUME SerInv, Handling("Object"), Top.state = "Key"
  PROVE  Member(Top).key \in StringValue /\ Member(Top).value \in Node
<1>1. Top.lpCurrentBucketEntry \in 1 .. Len(Members(Top))
  BY ObjectTop DEF SoundObject
<1>2. Members(Top) \in Seq([key : StringValue, value : Node])
  BY ObjectTop
<1>3. Members(Top)[Top.lpCurrentBucketEntry] \in [key : StringValue, value : Node]
  BY <1>1, <1>2, ElementOfSeq
<1>4. Member(Top) \in [key : StringValue, value : Node]
  BY <1>3 DEF Member
<1> QED
  BY <1>4

LEMMA ObjectStarvedKept ==
  ASSUME SerInv, Handling("Object"), Refused(Top, "OutOfMemory")
  PROVE  SerInv'
<1>1. "OutOfMemory" \in Status /\ Like(Top, Top)
  BY DEF Status, Like
<1>2. Running /\ Top \in Frame /\ Sound(Top, Place, pretty)
  BY RunningTop DEF Handling
<1> QED
  BY <1>1, <1>2, RefusedKept

LEMMA ObjectPushKeyKept ==
  ASSUME SerInv, Object_PushKey
  PROVE  SerInv'
<1> DEFINE g == CountBytes(1)
           h == NewString(Fresh, Top.lpTempString, Bytes(Member(Top).key))
<1>1. /\ Handling("Object") /\ Top.state = "Key" /\ Top.dwBytesWritten = IndentDepth
      /\ Top.lpTempString # Null
  BY DEF Object_PushKey, InState
<1>2. /\ Top \in ObjectFrame /\ SoundObject(Top, Place, pretty) /\ Top.type = "Object"
      /\ Depth(Place, pretty) \in Nat /\ IndentDepth = Depth(Place, pretty) /\ Running
  BY <1>1, ObjectTop
<1>3. Covered(g, h) \/ Refused(Top, "OutOfMemory")
  BY DEF Object_PushKey, PushAbove, Covered, Refused
<1>4. CASE Covered(g, h)
  <2>1. Fresh \in Block
    BY <1>4, FreshBlock DEF Covered, SerInv
  <2>2. Top.lpTempString = Null \/ Top.lpTempString \in Block
    <3>1. Top.lpTempString # Wild
      BY <1>1, <1>2 DEF SoundObject
    <3> QED
      BY <1>2, <3>1 DEF ObjectFrame
  <2>3. Bytes(Member(Top).key) \in Seq(Octet)
    BY <1>1, ObjectMember, BytesType
  <2>4. /\ h \in Frame /\ h.type = "String" /\ h.temp = Top.lpTempString /\ h.elm = Fresh
        /\ KeyMem(h) = {} /\ Sound(h, Place + 1, pretty)
    <3> HIDE DEF h
    <3>1. ASSUME NEW b, NEW t, NEW w, NEW i, b \in Block, t = Null \/ t \in Block, w \in Seq(Octet),
                 h = NewString(b, t, w)
          PROVE  /\ h \in Frame /\ h.type = "String" /\ h.temp = t /\ h.elm = b
                 /\ KeyMem(h) = {} /\ Sound(h, i, pretty)
      BY <3>1, NewStringSound
    <3>2. h = NewString(Fresh, Top.lpTempString, Bytes(Member(Top).key))
      BY DEF h
    <3>3. /\ h \in Frame /\ h.type = "String" /\ h.temp = Top.lpTempString /\ h.elm = Fresh
          /\ KeyMem(h) = {}
      BY <2>1, <2>2, <2>3, <3>1, <3>2
    <3>4. Sound(h, Place + 1, pretty)
      BY <2>1, <2>2, <2>3, <3>1, <3>2
    <3> QED
      BY <3>3, <3>4
  <2>5. /\ g \in ObjectFrame /\ SameObject(g, Top) /\ g.state = "Key"
        /\ g.dwBytesWritten = Depth(Place, pretty) + 1
        /\ g.lpCurrentBucketEntry = Top.lpCurrentBucketEntry /\ Members(g) = Members(Top)
    BY <1>1, <1>2, ObjectCounts
  <2> HIDE DEF g, h
  <2>6. SoundObject(g, Place, pretty)
    BY <1>1, <1>2, <2>5 DEF SoundObject, SameObject
  <2>7. g \in Frame /\ Like(g, Top) /\ Sound(g, Place, pretty)
    BY <1>1, <2>5, <2>6, ObjectTop
  <2>8. Carries(g, Place, h, pretty)
    BY <1>2, <2>4, <2>5 DEF Carries, SameObject
  <2> QED
    BY <1>2, <1>4, <2>4, <2>7, <2>8, CoverKept DEF Covered
<1> QED
  BY <1>1, <1>3, <1>4, ObjectStarvedKept

LEMMA ObjectPushMemberKept ==
  ASSUME SerInv, Object_PushMember
  PROVE  SerInv'
<1> DEFINE g == [Top EXCEPT !.state = "Value", !.dwBytesWritten = 0]
           h == NewFrame(Member(Top).value, Fresh)
<1>1. Handling("Object") /\ Top.state = "Key" /\ Top.dwBytesWritten = IndentDepth + 3
  BY DEF Object_PushMember, InState
<1>2. /\ Top \in ObjectFrame /\ SoundObject(Top, Place, pretty) /\ Top.type = "Object"
      /\ Depth(Place, pretty) \in Nat /\ IndentDepth = Depth(Place, pretty) /\ Running
      /\ Len(Members(Top)) \in Nat
  BY <1>1, ObjectTop
<1>3. Covered(g, h) \/ Refused(Top, "OutOfMemory")
  BY DEF Object_PushMember, PushAbove, Covered, Refused
<1>4. CASE Covered(g, h)
  <2>1. Fresh \in Block
    BY <1>4, FreshBlock DEF Covered, SerInv
  <2>2. /\ h \in Frame /\ Unkeyed(h) /\ h.elm = Fresh
        /\ KeyMem(h) = {} /\ Sound(h, Place + 1, pretty)
    BY <1>1, <2>1, ObjectMember, NewFrameSound
  <2>3. /\ g \in ObjectFrame /\ SameObject(g, Top) /\ g.state = "Value"
        /\ g.lpCurrentBucketEntry = Top.lpCurrentBucketEntry /\ Members(g) = Members(Top)
    BY <1>2 DEF ObjectFrame, SameObject, Members
  <2> HIDE DEF g, h
  <2>4. Top.dwBytesWritten > Depth(Place, pretty) + 1
    BY <1>1, <1>2
  <2>5. /\ Top.lpTempString = Null /\ Top.lpCurrentBucketEntry \in 1 .. Len(Members(Top))
    BY <1>1, <1>2, <2>4 DEF SoundObject
  <2>6. SoundObject(g, Place, pretty)
    BY <1>2, <2>3, <2>5 DEF SoundObject, SameObject
  <2>7. g \in Frame /\ Like(g, Top) /\ Sound(g, Place, pretty)
    BY <1>1, <2>3, <2>6, ObjectTop
  <2>8. Carries(g, Place, h, pretty)
    BY <1>2, <2>2, <2>3 DEF Carries, SameObject
  <2> QED
    BY <1>2, <1>4, <2>2, <2>7, <2>8, CoverKept DEF Covered
<1> QED
  BY <1>1, <1>3, <1>4, ObjectStarvedKept

-----------------------------------------------------------------------------
(* Strings. *)
SameString(g, f) == g.type = f.type /\ g.elm = f.elm /\ g.temp = f.temp
LEMMA StringTop ==
  ASSUME SerInv, Handling("String")
  PROVE  /\ Running /\ Top.type = "String" /\ Top \in StringFrame /\ Top \in Frame
         /\ SoundString(Top) /\ KeyMem(Top) = {}
         /\ Left(Top) \in Seq(Octet)
         /\ Top.dwCurrentIndex \in Nat /\ Top.bData \in Seq(Octet) /\ Len(Top.bData) \in Nat
         /\ Left(Top) # << >> =>
              Top.dwCurrentIndex < Len(Top.bData) /\ Head(Left(Top)) \in Octet
<1>1. Running /\ Top.type = "String" /\ Top \in Frame /\ Sound(Top, Place, pretty)
  BY RunningTop DEF Handling
<1>2. Top \in StringFrame /\ SoundString(Top) /\ KeyMem(Top) = {}
  BY <1>1, FrameByType DEF Sound, KeyMem
<1>3. Top.dwCurrentIndex \in Nat /\ Top.bData \in Seq(Octet)
  BY <1>2 DEF StringFrame
<1>4. Left(Top) \in Seq(Octet) /\ Len(Top.bData) \in Nat
  BY <1>3, Suffix, LenProperties DEF Left
<1>5. Left(Top) # << >> => Top.dwCurrentIndex < Len(Top.bData) /\ Head(Left(Top)) \in Octet
  <2> DEFINE n == Len(Top.bData)
             m == Top.dwCurrentIndex + 1
  <2>1. Left(Top) = SubSeq(Top.bData, m, n) /\ m \in Int /\ n \in Int
    BY <1>3, <1>4 DEF Left
  <2>2. \A i \in m .. n : Top.bData[i] \in Octet
    BY <1>3, ElementOfSeq
  <2>3. Len(Left(Top)) = IF m <= n THEN n - m + 1 ELSE 0
    <3> HIDE DEF m, n
    <3> QED
      BY <2>1, <2>2, SubSeqProperties
  <2>4. Left(Top) # << >> => Len(Left(Top)) # 0
    BY <1>4, EmptySeq
  <2>5. Left(Top) # << >> => Head(Left(Top)) \in Octet
    BY <1>4, HeadTailProperties
  <2> QED
    BY <1>3, <1>4, <2>3, <2>4, <2>5
<1> QED
  BY <1>1, <1>2, <1>3, <1>4, <1>5

LEMMA StringLike ==
  ASSUME SerInv, Handling("String"), NEW g \in StringFrame, SameString(g, Top), SoundString(g)
  PROVE  Running /\ g \in Frame /\ Like(g, Top) /\ Sound(g, Place, pretty)
<1>1. Running /\ Top.type = "String"
  BY DEF Handling
<1> QED
  BY <1>1 DEF SameString, Frame, Like, Sound

LEMMA StringWrote ==
  ASSUME SerInv, Handling("String"), NEW c \in Octet, NEW k \in 0 .. 1, NEW g \in StringFrame,
         Wrote(<<c>>, k, g), SameString(g, Top), SoundString(g)
  PROVE  SerInv'
<1>1. IsText(<<c>>) /\ k \in 0 .. Len(<<c>>)
  BY SingleBytes
<1> QED
  BY <1>1, StringLike, WroteKept

(* The updates of an element. *)
StringState == {"LeadingQuote", "Normal", "Escaped", "Unicode"}
LEMMA StringUpdates ==
  ASSUME NEW f \in StringFrame, NEW x \in StringState, NEW k \in Nat
  PROVE  /\ [f EXCEPT !.state = x] \in StringFrame
         /\ SameString([f EXCEPT !.state = x], f)
         /\ [f EXCEPT !.state = x].state = x
         /\ [f EXCEPT !.state = x].dwCurrentIndex = f.dwCurrentIndex
         /\ [f EXCEPT !.state = x].bData = f.bData
         /\ [f EXCEPT !.dwCurrentIndex = @ + k] \in StringFrame
         /\ SameString([f EXCEPT !.dwCurrentIndex = @ + k], f)
         /\ [f EXCEPT !.dwCurrentIndex = @ + k].state = f.state
         /\ [f EXCEPT !.dwCurrentIndex = @ + k].bUnicodeBytes = f.bUnicodeBytes
<1>1. /\ [f EXCEPT !.state = x] \in StringFrame
      /\ SameString([f EXCEPT !.state = x], f)
      /\ [f EXCEPT !.state = x].state = x
      /\ [f EXCEPT !.state = x].dwCurrentIndex = f.dwCurrentIndex
      /\ [f EXCEPT !.state = x].bData = f.bData
  BY DEF StringFrame, SameString, StringState
<1>2. /\ [f EXCEPT !.dwCurrentIndex = @ + k] \in StringFrame
      /\ SameString([f EXCEPT !.dwCurrentIndex = @ + k], f)
      /\ [f EXCEPT !.dwCurrentIndex = @ + k].state = f.state
      /\ [f EXCEPT !.dwCurrentIndex = @ + k].bUnicodeBytes = f.bUnicodeBytes
  <2>1. f.dwCurrentIndex + k \in Nat
    BY DEF StringFrame
  <2>2. \A n \in Nat : /\ [f EXCEPT !.dwCurrentIndex = n] \in StringFrame
                       /\ SameString([f EXCEPT !.dwCurrentIndex = n], f)
                       /\ [f EXCEPT !.dwCurrentIndex = n].state = f.state
                       /\ [f EXCEPT !.dwCurrentIndex = n].bUnicodeBytes = f.bUnicodeBytes
    BY DEF StringFrame, SameString
  <2> QED
    BY <2>1, <2>2
<1> QED
  BY <1>1, <1>2

LEMMA StringLeadingQuoteKept ==
  ASSUME SerInv, String_LeadingQuote
  PROVE  SerInv'
<1>1. Handling("String") /\ Top.state = "LeadingQuote"
  BY DEF String_LeadingQuote, StringIn
<1>2. PICK k \in 0 .. 1 : Wrote(<<Quote>>, k, Enter("Normal", k))
  <2>1. PICK a \in Answer(1) : \E k : k = a.taken /\ Wrote(<<Quote>>, k, Enter("Normal", k))
    BY AnswerRange, Len(<<Quote>>) = 1
    DEF String_LeadingQuote, Write, Wrote, SerInv
  <2>2. a.taken \in 0 .. 1
    BY AnswerRange DEF SerInv
  <2> QED
    BY <2>1, <2>2
<1> DEFINE x == IF k > 0 THEN "Normal" ELSE "LeadingQuote"
           g == [Top EXCEPT !.state = x]
<1>3. Top \in StringFrame /\ x \in StringState /\ x # "Unicode" /\ x # "Escaped" /\ 0 \in Nat
  BY <1>1, StringTop DEF StringState
<1>4. Enter("Normal", k) = g
  BY <1>1 DEF Enter
<1> HIDE DEF x
<1>5. g \in StringFrame /\ SameString(g, Top) /\ g.state = x
  BY <1>3, StringUpdates
<1> HIDE DEF g
<1>6. SoundString(g)
  BY <1>3, <1>5 DEF SoundString
<1>7. Quote \in Octet
  BY SingleBytes
<1> QED
  BY <1>1, <1>2, <1>4, <1>5, <1>6, <1>7, StringWrote

LEMMA StringEscapeKept ==
  ASSUME SerInv, String_Escape
  PROVE  SerInv'
<1>1. Handling("String") /\ Top.state = "Normal" /\ Left(Top) # << >>
  BY DEF String_Escape, StringIn
<1>2. PICK k \in 0 .. 1 : Wrote(<<Backslash>>, k, Enter("Escaped", k))
  BY AnswerRange, Len(<<Backslash>>) = 1
  DEF String_Escape, Write, Wrote, SerInv
<1> DEFINE x == IF k > 0 THEN "Escaped" ELSE "Normal"
           g == [Top EXCEPT !.state = x]
<1>3. /\ Top \in StringFrame /\ x \in StringState /\ x # "Unicode" /\ 0 \in Nat
      /\ Top.dwCurrentIndex < Len(Top.bData)
  BY <1>1, StringTop DEF StringState
<1>4. Enter("Escaped", k) = g
  BY <1>1 DEF Enter
<1> HIDE DEF x
<1>5. /\ g \in StringFrame /\ SameString(g, Top) /\ g.state = x
      /\ g.dwCurrentIndex = Top.dwCurrentIndex /\ g.bData = Top.bData
  BY <1>3, StringUpdates
<1> HIDE DEF g
<1>6. SoundString(g)
  BY <1>3, <1>5 DEF SoundString
<1>7. Backslash \in Octet
  BY SingleBytes
<1> QED
  BY <1>1, <1>2, <1>4, <1>5, <1>6, <1>7, StringWrote

LEMMA StringDirectKept ==
  ASSUME SerInv, String_Direct
  PROVE  SerInv'
<1> DEFINE c == Head(Left(Top))
           g(k) == [Top EXCEPT !.dwCurrentIndex = @ + k]
<1>1. Handling("String") /\ Top.state = "Normal" /\ Left(Top) # << >>
  BY DEF String_Direct, StringIn
<1>2. PICK k \in 0 .. 1 : Wrote(<<c>>, k, g(k))
  BY AnswerRange, Len(<<c>>) = 1
  DEF String_Direct, Write, Wrote, SerInv
<1>3. Top \in StringFrame /\ c \in Octet /\ k \in Nat /\ "Normal" \in StringState
  BY <1>1, StringTop DEF StringState
<1>4. g(k) \in StringFrame /\ SameString(g(k), Top) /\ g(k).state = "Normal"
  BY <1>1, <1>3, StringUpdates
<1> HIDE DEF g, c
<1>5. SoundString(g(k))
  BY <1>4 DEF SoundString
<1> QED
  BY <1>1, <1>2, <1>3, <1>4, <1>5, StringWrote

LEMMA StringEscapedKept ==
  ASSUME SerInv, String_Escaped
  PROVE  SerInv'
<1> DEFINE c == EscapeLetter(Head(Left(Top)))
<1>1. Handling("String") /\ Top.state = "Escaped"
  BY DEF String_Escaped, StringIn
<1>2. PICK k \in 0 .. 1 : Wrote(<<c>>, k, EscapedCounted(k))
  <2>1. Write(<<c>>, EscapedCounted)
    BY DEF String_Escaped
  <2> HIDE DEF c
  <2>2. PICK a \in Answer(1) :
          /\ out' = out \o Visible(<<c>>, a.taken)
          /\ lpTopOfStack' = SetTop(EscapedCounted(a.taken))
          /\ IF a.e = "Ok" THEN UNCHANGED <<at, status>> ELSE Return(a.e)
          /\ Fixed /\ UNCHANGED heap
    BY <2>1, Len(<<c>>) = 1 DEF Write
  <2>3. a.taken \in 0 .. 1 /\ a.e \in {"Ok", "UserError"}
    BY AnswerRange DEF SerInv
  <2>4. Wrote(<<c>>, a.taken, EscapedCounted(a.taken))
    BY <2>2, <2>3 DEF Wrote
  <2> QED
    BY <2>3, <2>4
<1>3. /\ Top \in StringFrame /\ SoundString(Top) /\ k \in Nat
      /\ Top.dwCurrentIndex \in Nat /\ Top.bData \in Seq(Octet) /\ Len(Top.bData) \in Nat
      /\ Top.dwCurrentIndex < Len(Top.bData)
  BY <1>1, StringTop DEF SoundString
<1>4. c \in Octet
  <2>1. Head(Left(Top)) \in Octet
    <3>1. Left(Top) # << >>
      <4> DEFINE n == Len(Top.bData)
                 m == Top.dwCurrentIndex + 1
      <4>1. Left(Top) = SubSeq(Top.bData, m, n) /\ m \in Int /\ n \in Int /\ m <= n
        BY <1>3 DEF Left
      <4>2. \A i \in m .. n : Top.bData[i] \in Octet
        BY <1>3, ElementOfSeq
      <4>3. Len(Left(Top)) = n - m + 1
        <5> HIDE DEF m, n
        <5> QED
          BY <4>1, <4>2, SubSeqProperties
      <4>4. Len(Left(Top)) # 0
        BY <4>1, <4>3
      <4> QED
        BY <4>4, EmptySeq
    <3> QED
      BY <1>1, <3>1, StringTop
  <2>2. {LetterB, LetterF, LetterN, LetterR, LetterT} \subseteq Octet
    BY DEF LetterB, LetterF, LetterN, LetterR, LetterT, Octet
  <2> QED
    BY <2>1, <2>2 DEF EscapeLetter
<1> DEFINE x == IF k > 0 THEN "Normal" ELSE "Escaped"
           f == [Top EXCEPT !.state = x]
           g == [f EXCEPT !.dwCurrentIndex = @ + k]
<1>5. x \in StringState /\ x # "Unicode" /\ (x = "Escaped" => k = 0)
  BY <1>2 DEF StringState
<1>6. EscapedCounted(k) = g
  BY <1>1 DEF EscapedCounted, Enter
<1> HIDE DEF x, c
<1>7. /\ f \in StringFrame /\ SameString(f, Top) /\ f.state = x
      /\ f.dwCurrentIndex = Top.dwCurrentIndex /\ f.bData = Top.bData
  BY <1>3, <1>5, StringUpdates
<1> HIDE DEF f
<1>8. g \in StringFrame /\ SameString(g, f) /\ g.state = x
  BY <1>3, <1>5, <1>7, StringUpdates
<1>9. g.bData = f.bData /\ (k = 0 => g.dwCurrentIndex = f.dwCurrentIndex)
  BY <1>3, <1>7 DEF StringFrame
<1> HIDE DEF g
<1>10. SoundString(g) /\ SameString(g, Top)
  BY <1>3, <1>5, <1>7, <1>8, <1>9 DEF SoundString, SameString
<1> QED
  BY <1>1, <1>2, <1>4, <1>6, <1>8, <1>10, StringWrote

(* A character that is spelled out is one of at least two bytes, and its bits *)
(* make four digits.                                                          *)
LEMMA DecodeType ==
  ASSUME NEW w \in Seq(Octet), w # << >>
  PROVE  /\ Decode(w).e \in {"Ok", "InvalidParam", "EncodingError"}
         /\ Decode(w).n \in Nat /\ Decode(w).unit \in Nat
<1>1. Len(w) \in Nat \ {0}
  BY EmptySeq, LenProperties
<1>2. \A i \in 1 .. Len(w) : w[i] \in Octet
  BY ElementOfSeq
<1>3. w[1] \in Octet /\ (Len(w) >= 2 => w[2] \in Octet) /\ (Len(w) >= 3 => w[3] \in Octet)
  BY <1>1, <1>2
<1>4. \A b \in Octet : b % 16 \in Nat /\ b % 32 \in Nat /\ b % 64 \in Nat
  BY DEF Octet
<1>5. CASE w[1] \in 224 .. 239
  <2>1. CASE Len(w) < 3 \/ \E i \in 2 .. 3 : ~Continuation(w[i])
    BY <1>5, <2>1 DEF Decode
  <2>2. CASE ~(Len(w) < 3 \/ \E i \in 2 .. 3 : ~Continuation(w[i]))
    <3>1. w[2] \in Octet /\ w[3] \in Octet
      BY <1>1, <1>3, <2>2
    <3>2. (w[1] % 16) * 4096 + (w[2] % 64) * 64 + (w[3] % 64) \in Nat
      <4>1. \A x, y, z \in Nat : x * 4096 + y * 64 + z \in Nat
        OBVIOUS
      <4>2. w[1] % 16 \in Nat /\ w[2] % 64 \in Nat /\ w[3] % 64 \in Nat
        BY <1>3, <1>4, <3>1
      <4> QED
        BY ONLY <4>1, <4>2
    <3>3. Decode(w) = [e |-> "Ok", n |-> 3,
                       unit |-> (w[1] % 16) * 4096 + (w[2] % 64) * 64 + (w[3] % 64)]
      BY <1>5, <2>2 DEF Decode
    <3> QED
      BY <3>2, <3>3
  <2> QED
    BY <2>1, <2>2
<1>6. CASE w[1] \notin 224 .. 239 /\ w[1] \in 192 .. 223
  <2>1. CASE Len(w) < 2 \/ ~Continuation(w[2])
    BY <1>6, <2>1 DEF Decode
  <2>2. CASE ~(Len(w) < 2 \/ ~Continuation(w[2]))
    <3>1. w[2] \in Octet
      BY <1>1, <1>3, <2>2
    <3>2. (w[1] % 32) * 64 + (w[2] % 64) \in Nat
      <4>1. \A x, y \in Nat : x * 64 + y \in Nat
        OBVIOUS
      <4>2. w[1] % 32 \in Nat /\ w[2] % 64 \in Nat
        BY <1>3, <1>4, <3>1
      <4> QED
        BY ONLY <4>1, <4>2
    <3>3. Decode(w) = [e |-> "Ok", n |-> 2, unit |-> (w[1] % 32) * 64 + (w[2] % 64)]
      BY <1>6, <2>2 DEF Decode
    <3> QED
      BY <3>2, <3>3
  <2> QED
    BY <2>1, <2>2
<1>7. CASE w[1] \notin 224 .. 239 /\ w[1] \notin 192 .. 223
  BY <1>7 DEF Decode
<1> QED
  BY <1>5, <1>6, <1>7

LEMMA HexDigitsType ==
  ASSUME NEW u \in Nat
  PROVE  HexDigits(u) \in Seq(Octet) /\ Len(HexDigits(u)) = 4
<1> DEFINE d(i) == (u \div <<4096, 256, 16, 1>>[i]) % 16
           h == [i \in 1 .. 4 |-> d(i) + IF d(i) > 9 THEN 55 ELSE 48]
<1>1. \A i \in 1 .. 4 : d(i) \in 0 .. 15
  OBVIOUS
<1>2. HexDigits(u) = h
  BY DEF HexDigits
<1> HIDE DEF d
<1>3. \A i \in 1 .. 4 : d(i) + (IF d(i) > 9 THEN 55 ELSE 48) \in Octet
  BY <1>1 DEF Octet
<1>4. h \in Seq(Octet) /\ Len(h) = 4
  BY <1>3
<1> QED
  BY <1>2, <1>4

LEMMA StringDecodeKept ==
  ASSUME SerInv, String_Decode
  PROVE  SerInv'
<1> DEFINE c == Decode(Left(Top))
           d == HexDigits(c.unit)
           g == [Top EXCEPT !.dwCurrentIndex = @ + c.n, !.state = "Unicode",
                            !.bUnicodeBytes = d, !.dwUnicodeBytesWritten = 0]
<1>1. Handling("String") /\ Top.state = "Normal" /\ Left(Top) # << >>
  BY DEF String_Decode, StringIn
<1>2. (c.e # "Ok" /\ Fail(c.e)) \/ (c.e = "Ok" /\ GoOn(g))
  BY DEF String_Decode
<1>3. Top \in StringFrame /\ Left(Top) \in Seq(Octet) /\ Running /\ Top.dwCurrentIndex \in Nat
  BY <1>1, StringTop
<1>4. c.e \in {"Ok", "InvalidParam", "EncodingError"} /\ c.n \in Nat /\ c.unit \in Nat
  BY <1>1, <1>3, DecodeType
<1>5. CASE Fail(c.e)
  <2>1. c.e \in Status
    BY <1>4 DEF Status
  <2> QED
    BY <1>3, <1>5, <2>1, FailKept
<1>6. CASE GoOn(g)
  <2>1. d \in Seq(Octet) /\ Len(d) = 4
    BY <1>4, HexDigitsType
  <2>2. Top.dwCurrentIndex + c.n \in Nat /\ 0 \in 0 .. 6
    BY <1>3, <1>4
  <2> HIDE DEF c, d
  <2>3. \A n \in Nat, z \in 0 .. 6 :
          LET f == [Top EXCEPT !.dwCurrentIndex = n, !.state = "Unicode",
                               !.bUnicodeBytes = d, !.dwUnicodeBytesWritten = z]
          IN f \in StringFrame /\ SameString(f, Top) /\ f.state = "Unicode" /\ f.bUnicodeBytes = d
    BY <1>3, <2>1 DEF StringFrame, SameString
  <2>4. g \in StringFrame /\ SameString(g, Top) /\ g.state = "Unicode" /\ g.bUnicodeBytes = d
    BY <2>2, <2>3
  <2> HIDE DEF g
  <2>5. SoundString(g)
    BY <2>1, <2>4 DEF SoundString
  <2> QED
    BY <1>1, <1>6, <2>4, <2>5, StringLike, GoOnKept
<1> QED
  BY <1>2, <1>5, <1>6

LEMMA StringUnicodeKept ==
  ASSUME SerInv, String_Unicode
  PROVE  SerInv'
<1> DEFINE text == <<Backslash, LetterU>> \o Top.bUnicodeBytes
           c == text[Top.dwUnicodeBytesWritten + 1]
           g(k) == [Top EXCEPT !.dwUnicodeBytesWritten = @ + k]
<1>1. Handling("String") /\ Top.state = "Unicode" /\ Top.dwUnicodeBytesWritten < 6
  BY DEF String_Unicode, StringIn
<1>2. PICK k \in 0 .. 1 : Wrote(<<c>>, k, g(k))
  BY AnswerRange, Len(<<c>>) = 1
  DEF String_Unicode, Write, Wrote, SerInv
<1>3. Top \in StringFrame /\ SoundString(Top)
  BY <1>1, StringTop
<1>4. /\ Top.bUnicodeBytes \in Seq(Octet) /\ Len(Top.bUnicodeBytes) = 4
      /\ Top.dwUnicodeBytesWritten \in 0 .. 6
  BY <1>1, <1>3 DEF StringFrame, SoundString
<1>5. c \in Octet
  <2>1. <<Backslash, LetterU>> \in Seq(Octet) /\ Len(<<Backslash, LetterU>>) = 2
    BY DEF Octet, Backslash, LetterU
  <2>2. text \in Seq(Octet) /\ Len(text) = 6
    <3> DEFINE p == <<Backslash, LetterU>>
               q == Top.bUnicodeBytes
    <3>1. p \in Seq(Octet) /\ q \in Seq(Octet) /\ Len(p) = 2 /\ Len(q) = 4
      BY <1>4, <2>1
    <3> HIDE DEF p, q
    <3>2. p \o q \in Seq(Octet) /\ Len(p \o q) = Len(p) + Len(q)
      BY <3>1, ConcatProperties
    <3> QED
      BY <3>1, <3>2 DEF p, q
  <2> HIDE DEF text
  <2>3. Top.dwUnicodeBytesWritten + 1 \in 1 .. Len(text)
    BY <1>1, <1>4, <2>2
  <2> QED
    BY <2>2, <2>3, ElementOfSeq
<1>6. Top.dwUnicodeBytesWritten + k \in 0 .. 6
  BY <1>1, <1>4
<1>7. \A z \in 0 .. 6 :
        LET f == [Top EXCEPT !.dwUnicodeBytesWritten = z]
        IN f \in StringFrame /\ SameString(f, Top) /\ f.state = Top.state
           /\ f.bUnicodeBytes = Top.bUnicodeBytes
  BY <1>3 DEF StringFrame, SameString
<1>8. /\ g(k) \in StringFrame /\ SameString(g(k), Top) /\ g(k).state = Top.state
      /\ g(k).bUnicodeBytes = Top.bUnicodeBytes
  BY <1>6, <1>7
<1> HIDE DEF g, c
<1>9. SoundString(g(k))
  BY <1>1, <1>4, <1>8 DEF SoundString
<1> QED
  BY <1>1, <1>2, <1>5, <1>8, <1>9, StringWrote

LEMMA StringUnicodeEndKept ==
  ASSUME SerInv, String_UnicodeEnd
  PROVE  SerInv'
<1> DEFINE g == [Top EXCEPT !.state = "Normal", !.dwUnicodeBytesWritten = 0]
<1>1. Handling("String") /\ GoOn(g)
  BY DEF String_UnicodeEnd, StringIn
<1>2. Top \in StringFrame /\ 0 \in 0 .. 6
  BY <1>1, StringTop
<1>3. g \in StringFrame /\ SameString(g, Top) /\ g.state = "Normal"
  BY <1>2 DEF StringFrame, SameString
<1> HIDE DEF g
<1>4. SoundString(g)
  BY <1>3 DEF SoundString
<1> QED
  BY <1>1, <1>3, <1>4, StringLike, GoOnKept

LEMMA StringTrailingQuoteKept ==
  ASSUME SerInv, String_TrailingQuote
  PROVE  SerInv'
<1> DEFINE g(k) == [Top EXCEPT !.dwCurrentIndex = @ + k]
<1>1. Handling("String") /\ Top.state = "Normal"
  BY DEF String_TrailingQuote, StringIn
<1>2. \/ Pop /\ Fixed /\ UNCHANGED out
      \/ \E k \in 0 .. 1 : WroteLast(<<Quote>>, k) \/ Wrote(<<Quote>>, k, g(k))
  BY AnswerRange, Len(<<Quote>>) = 1
  DEF String_TrailingQuote, WriteLast, Wrote, WroteLast, SerInv
<1>3. Running /\ Top \in StringFrame /\ KeyMem(Top) = {} /\ "Normal" \in StringState /\ Quote \in Octet
  BY <1>1, StringTop, SingleBytes DEF StringState
<1>4. CASE Pop /\ Fixed /\ UNCHANGED out
  BY <1>3, <1>4, PopKept DEF SerInv, TypeOK
<1>5. ASSUME NEW k \in 0 .. 1, WroteLast(<<Quote>>, k) PROVE SerInv'
  <2>1. IsText(<<Quote>>) /\ k \in 0 .. Len(<<Quote>>)
    BY SingleBytes
  <2> QED
    BY <1>3, <1>5, <2>1, WroteLastKept
<1>6. ASSUME NEW k \in 0 .. 1, Wrote(<<Quote>>, k, g(k)) PROVE SerInv'
  <2>1. k \in Nat
    OBVIOUS
  <2>2. g(k) \in StringFrame /\ SameString(g(k), Top) /\ g(k).state = Top.state
    BY <1>3, <2>1, StringUpdates
  <2> HIDE DEF g
  <2>3. SoundString(g(k))
    BY <1>1, <2>2 DEF SoundString
  <2> QED
    BY <1>1, <1>3, <1>6, <2>2, <2>3, StringWrote
<1> QED
  BY <1>2, <1>4, <1>5, <1>6

-----------------------------------------------------------------------------
(* The client. *)
LEMMA StepKept ==
  ASSUME SerInv, Step
  PROVE  SerInv'
<1>1. CASE Continue_Constant
  BY <1>1, ConstantKept DEF Continue_Constant, Handling
<1>2. CASE Continue_Number
  BY <1>2, NumberKept DEF Continue_Number, Handling
<1>3. CASE Continue_Array
  BY <1>3, ArrayHeaderKept, ArraySeparatorKept, ArrayElementKept, ArrayTrailerKept
  DEF Continue_Array
<1>4. CASE Continue_Object
  BY <1>4, ObjectHeaderKept, ObjectSelectKept, ObjectIndentKept, ObjectCreateKeyKept,
     ObjectPushKeyKept, ObjectReleaseKeyKept, ObjectColonKept, ObjectPushMemberKept,
     ObjectNextEntryKept, ObjectSeparatorKept, ObjectLeaveKept, ObjectTrailerKept,
     ObjectSpinKept
  DEF Continue_Object
<1>5. CASE Continue_String
  BY <1>5, StringLeadingQuoteKept, StringDecodeKept, StringEscapeKept, StringDirectKept,
     StringEscapedKept, StringUnicodeKept, StringUnicodeEndKept, StringTrailingQuoteKept
  DEF Continue_String
<1> QED
  BY <1>1, <1>2, <1>3, <1>4, <1>5 DEF Step

LEMMA SerInit == Init => SerInv
<1> SUFFICES ASSUME Init PROVE SerInv
  OBVIOUS
<1>1. /\ lpSerializer = {} /\ client = Nobody /\ lpTopOfStack = << >> /\ at = "enter"
      /\ status = "Ok" /\ heap = {} /\ doc = None /\ out = << >>
  BY DEF Init
<1>2. TypeOK
  BY <1>1 DEF TypeOK, Status
<1>3. Fit(lpTopOfStack, pretty) /\ Account
  BY <1>1, FitEmpty, OwnEmpty DEF Account
<1> QED
  BY <1>1, <1>2, <1>3 DEF SerInv, Running

(* Everything but the answer stays. *)
LEMMA AnsweredKept ==
  ASSUME SerInv, UNCHANGED <<lpSerializer, client, lpTopOfStack, heap>>,
         status' \in Status, at' \in {"enter", "spin", "behind"},
         doc' \in Node \cup {None}, out' \in Seq(Octet),
         Running' => lpTopOfStack # << >> /\ lpSerializer # {}
  PROVE  SerInv'
<1>1. TypeOK'
  BY DEF SerInv, TypeOK
<1>2. Account'
  BY DEF SerInv, Account
<1>3. Fit(lpTopOfStack, pretty)'
  BY DEF SerInv, pretty
<1> QED
  BY <1>1, <1>2, <1>3 DEF SerInv

LEMMA CreateKept ==
  ASSUME SerInv, NEW c \in Client, cjsonSerializer_Create(c)
  PROVE  SerInv'
<1>1. lpSerializer = {} /\ lpTopOfStack = << >> /\ ~Running
  BY DEF cjsonSerializer_Create, SerInv
<1>2. CASE /\ CanAlloc /\ lpSerializer' = {Fresh} /\ heap' = heap \cup {Fresh}
           /\ client' = c /\ status' = "Ok" /\ UNCHANGED <<lpTopOfStack, at, doc, out>>
  <2>1. Fresh \in Block /\ heap = {}
    BY <1>1, <1>2, FreshBlock, OwnEmpty DEF SerInv, Account
  <2>2. TypeOK'
    BY <1>2, <2>1 DEF SerInv, TypeOK, Status
  <2>3. Fit(lpTopOfStack, pretty)' /\ Account'
    BY <1>1, <1>2, <2>1, FitEmpty, OwnEmpty DEF Account
  <2> QED
    BY <1>1, <1>2, <2>2, <2>3 DEF SerInv, Running
<1>3. CASE /\ status' = "OutOfMemory"
           /\ UNCHANGED <<lpSerializer, heap, client, lpTopOfStack, at, doc, out>>
  BY <1>3, AnsweredKept DEF SerInv, TypeOK, Status, Running
<1> QED
  BY <1>2, <1>3 DEF cjsonSerializer_Create

LEMMA SerializeKept ==
  ASSUME SerInv, NEW n \in client.roots, cjsonSerializer_Serialize(n)
  PROVE  SerInv'
<1>1. n \in Node
  BY WriterAssumption DEF SerInv, TypeOK, Nobody
<1>2. lpSerializer # {} /\ ~Running
  BY DEF cjsonSerializer_Serialize, Ready
<1> DEFINE h == NewFrame(n, Fresh)
<1>3. CASE /\ status' \in {"InvalidState", "OutOfMemory"}
           /\ UNCHANGED <<lpTopOfStack, heap, doc, out, lpSerializer, client, at>>
  BY <1>3, AnsweredKept DEF SerInv, TypeOK, Status, Running
<1>4. CASE /\ lpTopOfStack = << >> /\ CanAlloc
           /\ lpTopOfStack' = <<h>> /\ heap' = heap \cup {Fresh}
           /\ status' = "Running" /\ doc' = n /\ out' = << >>
           /\ UNCHANGED <<lpSerializer, client, at>>
  <2>1. Fresh \in Block /\ Fresh \notin heap
    BY <1>4, FreshBlock DEF SerInv
  <2>2. /\ h \in Frame /\ Unkeyed(h) /\ h.elm = Fresh /\ KeyMem(h) = {}
        /\ \A i : Sound(h, i, pretty)
    BY <1>1, <2>1, NewFrameSound
  <2> HIDE DEF h
  <2>3. << >> \in Seq(Frame) /\ <<h>> = Append(<< >>, h) /\ <<h>> \in Seq(Frame) /\ <<h>> # << >>
    BY <2>2
  <2> DEFINE e == << >>
  <2>4. /\ e \in Seq(Frame) /\ <<h>> = Append(e, h) /\ e = << >>
        /\ Fit(e, pretty) /\ Own(e) /\ StackMem(e) = {}
    BY <2>3, FitEmpty, OwnEmpty
  <2> HIDE DEF e
  <2>5. Fit(<<h>>, pretty)
    <3>1. Above(e, h, pretty)
      BY <2>2, <2>4 DEF Above
    <3>2. Sound(h, Len(e) + 1, pretty)
      BY <2>2
    <3>3. Fit(Append(e, h), pretty)
      BY <2>4, <3>1, <3>2, FitAppend
    <3> QED
      BY <2>4, <3>3, Zenon
  <2>6. FrameMem(h) = {Fresh} /\ Tidy(h)
    BY <2>2 DEF FrameMem, Tidy
  <2>7. Own(<<h>>) /\ StackMem(<<h>>) = {Fresh}
    <3>1. StackMem(e) \cap FrameMem(h) = {}
      BY <2>4
    <3>2. Own(Append(e, h)) /\ StackMem(Append(e, h)) = StackMem(e) \cup FrameMem(h)
      BY <2>6, <2>4, <3>1, OwnAppend
    <3>3. StackMem(e) \cup FrameMem(h) = {Fresh}
      BY <2>6, <2>4
    <3> QED
      BY <2>4, <3>2, <3>3, Zenon
  <2>8. heap = lpSerializer /\ heap \in SUBSET Block
    BY <1>4, OwnEmpty DEF SerInv, Account, TypeOK
  <2>9. /\ heap' = lpSerializer \cup StackMem(<<h>>) /\ lpSerializer \cap StackMem(<<h>>) = {}
        /\ heap' \in SUBSET Block
    BY <1>4, <2>1, <2>7, <2>8
  <2>10. TypeOK'
    <3>1. << >> \in Seq(Octet)
      OBVIOUS
    <3> QED
      BY <1>1, <1>4, <2>3, <2>9, <3>1 DEF SerInv, TypeOK, Status
  <2>11. Account'
    BY <1>4, <2>7, <2>9 DEF SerInv, Account
  <2>12. Fit(lpTopOfStack, pretty)'
    BY <1>4, <2>5 DEF pretty
  <2> QED
    BY <1>2, <1>4, <2>3, <2>10, <2>11, <2>12 DEF SerInv
<1> QED
  BY <1>3, <1>4 DEF cjsonSerializer_Serialize

LEMMA ContinueKept ==
  ASSUME SerInv, cjsonSerializer_Continue
  PROVE  SerInv'
BY AnsweredKept DEF cjsonSerializer_Continue, Ready, SerInv, TypeOK, Status, Running

(* A release frees all that is held. *)
LEMMA ReleaseKept ==
  ASSUME SerInv, cjsonSerializer_Release
  PROVE  SerInv'
<1>1. lpSerializer # {} /\ ~Running
  BY DEF cjsonSerializer_Release, Ready
<1>2. CASE /\ status' = "ImplementationError"
           /\ UNCHANGED <<lpSerializer, client, lpTopOfStack, at, heap, doc, out>>
  BY <1>1, <1>2, AnsweredKept DEF SerInv, TypeOK, Status, Running
<1>3. CASE /\ heap' = heap \ SerializerMem \/ heap' = {}
           /\ status' \in {"Ok", "Undefined"}
           /\ lpSerializer' = {} /\ client' = Nobody /\ lpTopOfStack' = << >> /\ at' = "enter"
           /\ doc' = None /\ out' = << >>
  <2>1. heap \subseteq SerializerMem
    <3>1. heap = lpSerializer \cup StackMem(lpTopOfStack)
      BY DEF SerInv, Account
    <3>2. DOMAIN lpTopOfStack = 1 .. Len(lpTopOfStack)
      BY LenProperties DEF SerInv, TypeOK
    <3>3. ASSUME NEW i \in 1 .. Len(lpTopOfStack)
          PROVE  FrameMem(lpTopOfStack[i]) \subseteq SerializerMem
      <4>1. lpTopOfStack[i].elm \in SerializerMem
        BY <3>2 DEF SerializerMem
      <4>2. KeyMem(lpTopOfStack[i]) \subseteq SerializerMem
        <5>1. lpTopOfStack[i].type = "Object" => lpTopOfStack[i].lpTempString \in Temps
          BY <3>2 DEF Temps
        <5> QED
          BY <5>1 DEF KeyMem, SerializerMem
      <4> QED
        BY <4>1, <4>2 DEF FrameMem
    <3>4. StackMem(lpTopOfStack) \subseteq SerializerMem
      BY <3>3 DEF StackMem
    <3> QED
      BY <3>1, <3>4 DEF SerializerMem
  <2>2. heap' = {}
    BY <1>3, <2>1
  <2>3. TypeOK'
    BY <1>3, <2>2 DEF TypeOK, Status
  <2>4. Fit(lpTopOfStack, pretty)' /\ Account'
    BY <1>3, <2>2, FitEmpty, OwnEmpty DEF Account
  <2> QED
    BY <1>3, <2>3, <2>4 DEF SerInv, Running
<1> QED
  BY <1>2, <1>3 DEF cjsonSerializer_Release

LEMMA SerNext == SerInv /\ [Next]_vars => SerInv'
<1> SUFFICES ASSUME SerInv, [Next]_vars PROVE SerInv'
  OBVIOUS
<1>1. CASE UNCHANGED vars
  BY <1>1, AnsweredKept DEF vars, SerInv, TypeOK, Running
<1>2. CASE \E c \in Client : cjsonSerializer_Create(c)
  BY <1>2, CreateKept
<1>3. CASE \E n \in client.roots : cjsonSerializer_Serialize(n)
  BY <1>3, SerializeKept
<1>4. CASE cjsonSerializer_Continue
  BY <1>4, ContinueKept
<1>5. CASE cjsonSerializer_Release
  BY <1>5, ReleaseKept
<1>6. CASE Step
  BY <1>6, StepKept
<1> QED
  BY <1>1, <1>2, <1>3, <1>4, <1>5, <1>6 DEF Next

LEMMA SerInvariant == Spec => []SerInv
BY SerInit, SerNext, PTL DEF Spec

-----------------------------------------------------------------------------
(* What follows. *)

(* The variables keep their types, whatever the documents, the callback and   *)
(* the pool.                                                                  *)
THEOREM TypeCorrect == Spec => []TypeOK
<1>1. SerInv => TypeOK
  BY DEF SerInv
<1> QED
  BY <1>1, SerInvariant, PTL

LEMMA KeyAliveHolds == SerInv => KeyAlive
<1> SUFFICES ASSUME SerInv, NEW i \in DOMAIN lpTopOfStack
             PROVE  LET f == lpTopOfStack[i]
                    IN /\ f.type = "String" /\ f.temp # Null =>
                            /\ f.temp \in heap
                            /\ i > 1 /\ lpTopOfStack[i - 1].type = "Object"
                            /\ lpTopOfStack[i - 1].lpTempString = f.temp
                       /\ f.type = "Object" /\ f.lpTempString \in Block => f.state = "Key"
  BY DEF KeyAlive
<1> DEFINE s == lpTopOfStack
           f == lpTopOfStack[i]
           o == lpTopOfStack[i - 1]
           n == Len(lpTopOfStack)
<1>1. s \in Seq(Frame) /\ n \in Nat /\ i \in 1 .. n /\ f \in Frame
  BY LenProperties, ElementOfSeq DEF SerInv, TypeOK
<1>2. Fit(s, pretty) /\ heap = lpSerializer \cup StackMem(s)
  BY DEF SerInv, Account
<1>3. ASSUME f.type = "String", f.temp # Null
      PROVE  /\ f.temp \in heap /\ i > 1 /\ o.type = "Object" /\ o.lpTempString = f.temp
  <2>1. i # 1
    BY <1>1, <1>2, <1>3, EmptySeq DEF Fit, Unkeyed
  <2>2. i - 1 \in 1 .. n /\ i - 1 < n /\ i - 1 + 1 = i
    BY <1>1, <2>1
  <2>3. Carries(o, i - 1, f, pretty)
    BY <1>2, <2>2 DEF Fit
  <2>4. o.type = "Object" /\ o.lpTempString = f.temp
    BY <1>3, <2>3 DEF Carries, Unkeyed
  <2>5. f.temp \in Block
    BY <1>1, <1>3, FrameByType DEF StringFrame
  <2>6. f.temp \in FrameMem(o)
    BY <2>4, <2>5 DEF FrameMem, KeyMem
  <2>7. f.temp \in StackMem(s)
    BY <2>2, <2>6 DEF StackMem
  <2> QED
    BY <1>1, <1>2, <2>1, <2>4, <2>7
<1>4. ASSUME f.type = "Object", f.lpTempString \in Block PROVE f.state = "Key"
  <2>1. SoundObject(f, i, pretty)
    BY <1>1, <1>2, <1>4 DEF Fit, Sound
  <2>2. f.state \in {"Header", "Key", "Value", "Trailer"}
    BY <1>1, <1>4, FrameByType DEF ObjectFrame
  <2> QED
    BY <1>4, <2>1, <2>2, BlockAssumption DEF SoundObject
<1> QED
  BY <1>3, <1>4

(* The copy of a key lives from its creation until the element that writes it *)
(* is gone, in the object right below that element.                           *)
THEOREM KeysAreAlive == Spec => []KeyAlive
BY KeyAliveHolds, SerInvariant, PTL

(* The holders, one by one. *)
LEMMA HoldersAre ==
  ASSUME SerInv, NEW o
  PROVE  o \in Holders <=>
           \/ \E b \in lpSerializer : o = <<"serializer", 0, b>>
           \/ \E i \in 1 .. Len(lpTopOfStack) : o = <<"element", i, lpTopOfStack[i].elm>>
           \/ \E i \in 1 .. Len(lpTopOfStack) :
                /\ lpTopOfStack[i].type = "Object" /\ lpTopOfStack[i].lpTempString \in Block
                /\ o = <<"key", i, lpTopOfStack[i].lpTempString>>
<1>1. DOMAIN lpTopOfStack = 1 .. Len(lpTopOfStack)
  BY LenProperties DEF SerInv, TypeOK
<1> QED
  BY <1>1 DEF Holders

LEMMA HeldOnce ==
  ASSUME SerInv
  PROVE  /\ \A o \in Holders : o[3] \in heap
         /\ \A b \in heap : \E o \in Holders : o[3] = b
         /\ \A o, q \in Holders : o[3] = q[3] => o = q
         /\ \A o \in Holders : o = <<o[1], o[2], o[3]>>
         /\ \A o \in Holders : <<o[1], o[2]>> \in {"serializer", "element", "key"}
                                                  \X (0 .. Len(lpTopOfStack))
         /\ \A o, q \in Holders : <<o[1], o[2]>> = <<q[1], q[2]>> => o = q
<1> DEFINE s == lpTopOfStack
           n == Len(lpTopOfStack)
<1>1. /\ heap = lpSerializer \cup StackMem(s) /\ lpSerializer \cap StackMem(s) = {}
      /\ Own(s) /\ \A b, c \in lpSerializer : b = c
      /\ n \in Nat
  BY LenProperties DEF SerInv, Account, TypeOK
<1>2. \A b : b \in StackMem(s) <=> \E i \in 1 .. n : b \in FrameMem(s[i])
  BY DEF StackMem
<1>3. \A i \in 1 .. n : \A b : b \in FrameMem(s[i]) <=>
         b = s[i].elm \/ (s[i].type = "Object" /\ s[i].lpTempString \in Block /\ b = s[i].lpTempString)
  BY DEF FrameMem, KeyMem
<1>4. \A i, j \in 1 .. n : \A b : b \in FrameMem(s[i]) /\ b \in FrameMem(s[j]) => i = j
  BY <1>1 DEF Own
<1>5. \A i \in 1 .. n : s[i].type = "Object" /\ s[i].lpTempString \in Block
                        => s[i].lpTempString # s[i].elm
  BY <1>1 DEF Own, Tidy, KeyMem
<1> DEFINE HS(o) == \E b \in lpSerializer : o = <<"serializer", 0, b>>
           HE(o, i) == o = <<"element", i, s[i].elm>>
           HK(o, i) == /\ s[i].type = "Object" /\ s[i].lpTempString \in Block
                       /\ o = <<"key", i, s[i].lpTempString>>
<1>6. \A o : o \in Holders <=> HS(o) \/ (\E i \in 1 .. n : HE(o, i) \/ HK(o, i))
  BY HoldersAre
<1>7. \A o : HS(o) => o[1] = "serializer" /\ o[2] = 0 /\ o[3] \in lpSerializer
                      /\ o = <<o[1], o[2], o[3]>>
  OBVIOUS
<1>8. \A i \in 1 .. n : \A o : HE(o, i) => o[1] = "element" /\ o[2] = i /\ o[3] = s[i].elm
                      /\ o = <<o[1], o[2], o[3]>>
  OBVIOUS
<1>9. \A i \in 1 .. n : \A o : HK(o, i) => /\ o[1] = "key" /\ o[2] = i /\ o[3] = s[i].lpTempString
                      /\ o = <<o[1], o[2], o[3]>>
                      /\ s[i].type = "Object" /\ s[i].lpTempString \in Block
  OBVIOUS
<1>10. \A b \in heap : \E o \in Holders : o[3] = b
  <2> SUFFICES ASSUME NEW b \in heap PROVE \E o \in Holders : o[3] = b
    OBVIOUS
  <2>1. CASE b \in lpSerializer
    <3> DEFINE o == <<"serializer", 0, b>>
    <3>1. HS(o) /\ o[3] = b
      BY <2>1
    <3> HIDE DEF o, HS, HE, HK
    <3> QED
      BY <1>6, <3>1
  <2>2. CASE b \in StackMem(s)
    <3>1. PICK i \in 1 .. n : b \in FrameMem(s[i])
      BY <1>2, <2>2
    <3>2. \E o : (HE(o, i) \/ HK(o, i)) /\ o[3] = b
      <4>1. CASE b = s[i].elm
        <5>1. HE(<<"element", i, b>>, i) /\ <<"element", i, b>>[3] = b
          BY <4>1
        <5> QED
          BY <5>1
      <4>2. CASE s[i].type = "Object" /\ s[i].lpTempString \in Block /\ b = s[i].lpTempString
        <5>1. HK(<<"key", i, b>>, i) /\ <<"key", i, b>>[3] = b
          BY <4>2
        <5> QED
          BY <5>1
      <4> QED
        BY <1>3, <3>1, <4>1, <4>2
    <3> HIDE DEF HS, HE, HK
    <3> QED
      BY <1>6, <3>2
  <2> QED
    BY <1>1, <2>1, <2>2
<1> HIDE DEF HS, HE, HK, s, n
<1>11. \A o \in Holders :
         \/ HS(o)
         \/ \E i \in 1 .. n : o[2] = i /\ o[3] \in FrameMem(s[i]) /\ (HE(o, i) \/ HK(o, i))
  BY <1>3, <1>6, <1>8, <1>9
<1>12. \A o \in Holders : o[3] \in heap
  BY <1>1, <1>2, <1>7, <1>11
<1>13. \A o \in Holders : o = <<o[1], o[2], o[3]>>
  BY <1>6, <1>7, <1>8, <1>9
<1>14. \A o \in Holders : <<o[1], o[2]>> \in {"serializer", "element", "key"} \X (0 .. n)
  <2>1. \A o \in Holders : o[1] \in {"serializer", "element", "key"} /\ o[2] \in 0 .. n
    BY <1>1, <1>6, <1>7, <1>8, <1>9
  <2> QED
    BY <2>1
<1>15. ASSUME NEW o \in Holders, NEW q \in Holders, o[1] = q[1], o[2] = q[2]
       PROVE  o = q
  <2>1. o[3] = q[3]
    BY <1>1, <1>6, <1>7, <1>8, <1>9, <1>15
  <2> QED
    BY <1>13, <1>15, <2>1
<1>16. ASSUME NEW o \in Holders, NEW q \in Holders, o[3] = q[3]
       PROVE  o = q
  <2>1. HS(o) <=> HS(q)
    BY <1>1, <1>2, <1>7, <1>11, <1>16
  <2>2. CASE HS(o) /\ HS(q)
    BY <1>7, <1>15, <2>2
  <2>3. CASE ~HS(o) /\ ~HS(q)
    <3>1. PICK i \in 1 .. n : o[2] = i /\ o[3] \in FrameMem(s[i]) /\ (HE(o, i) \/ HK(o, i))
      BY <1>11, <2>3
    <3>2. PICK j \in 1 .. n : q[2] = j /\ q[3] \in FrameMem(s[j]) /\ (HE(q, j) \/ HK(q, j))
      BY <1>11, <2>3
    <3>3. i = j
      BY <1>4, <1>16, <3>1, <3>2
    <3>4. o[1] = q[1]
      BY <1>5, <1>8, <1>9, <1>16, <3>1, <3>2, <3>3
    <3> QED
      BY <1>15, <3>1, <3>2, <3>3, <3>4
  <2> QED
    BY <2>1, <2>2, <2>3
<1>17. \A o, q \in Holders : <<o[1], o[2]>> = <<q[1], q[2]>> => o = q
  BY <1>15
<1> QED
  BY <1>10, <1>12, <1>13, <1>14, <1>16, <1>17 DEF n

LEMMA ExactlyHeldHolds == SerInv => ExactlyHeld
<1> SUFFICES ASSUME SerInv PROVE ExactlyHeld
  OBVIOUS
<1> DEFINE P == {"serializer", "element", "key"} \X (0 .. Len(lpTopOfStack))
           f == [o \in Holders |-> o[3]]
           g == [o \in Holders |-> <<o[1], o[2]>>]
<1>1. \A o \in Holders : Last(o) = o[3]
  <2>1. \A x, y, z : Len(<<x, y, z>>) = 3 /\ <<x, y, z>>[3] = z
    OBVIOUS
  <2>2. \A o \in Holders : Len(o) = 3
    BY <2>1, HeldOnce
  <2> QED
    BY <2>2 DEF Last
<1>2. heap = {Last(o) : o \in Holders}
  BY <1>1, HeldOnce
<1>3. IsFiniteSet(P)
  <2>1. IsFiniteSet({"serializer", "element", "key"})
    <3>1. IsFiniteSet({"serializer"})
      BY FS_Singleton
    <3>2. IsFiniteSet({"serializer"} \cup {"element"})
      BY <3>1, FS_AddElement
    <3>3. IsFiniteSet(({"serializer"} \cup {"element"}) \cup {"key"})
      BY <3>2, FS_AddElement
    <3>4. {"serializer", "element", "key"} = ({"serializer"} \cup {"element"}) \cup {"key"}
      OBVIOUS
    <3> QED
      BY <3>3, <3>4
  <2>2. IsFiniteSet(0 .. Len(lpTopOfStack))
    BY FS_Interval, LenProperties DEF SerInv, TypeOK
  <2> QED
    BY <2>1, <2>2, FS_Product
<1>4. g \in Injection(Holders, P)
  <2>1. g \in [Holders -> P]
    BY HeldOnce
  <2>2. \A o, q \in Holders : g[o] = g[q] => o = q
    BY HeldOnce
  <2> QED
    BY <2>1, <2>2 DEF Injection, IsInjective
<1>5. IsFiniteSet(Holders)
  <2> HIDE DEF g, P
  <2> QED
    BY <1>3, <1>4, FS_Injection
<1>6. f \in Bijection(Holders, heap)
  <2>1. f \in [Holders -> heap]
    BY HeldOnce
  <2>2. \A o, q \in Holders : f[o] = f[q] => o = q
    BY HeldOnce
  <2>3. \A b \in heap : \E o \in Holders : f[o] = b
    BY HeldOnce
  <2> HIDE DEF f
  <2> QED
    BY <2>1, <2>2, <2>3 DEF Bijection, Injection, Surjection, IsInjective
<1>7. ExistsBijection(Holders, heap)
  BY <1>6 DEF ExistsBijection
<1>8. Cardinality(heap) = Cardinality(Holders)
  BY <1>5, <1>7, FS_Bijection
<1> QED
  BY <1>2, <1>8 DEF ExactlyHeld

(* The blocks that are allocated are those the serializer holds, each held    *)
(* once: nothing dangles and nothing is lost, also when an allocation fails   *)
(* or the serializer is released in the middle of a document.                 *)
THEOREM MemoryIsHeld == Spec => []ExactlyHeld
BY ExactlyHeldHolds, SerInvariant, PTL

=============================================================================
