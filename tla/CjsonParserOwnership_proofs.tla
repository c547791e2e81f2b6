-------------------- MODULE CjsonParserOwnership_proofs --------------------
(***************************************************************************)
(* Who owns which block: no pointer dangles, no block has two owners, no   *)
(* block is lost, and a string buffer has the pages its bytes need.        *)
(*                                                                         *)
(* The argument is an account of the pool: what is outside the stack (the  *)
(* parser and the documents of the client), what the stack elements hold   *)
(* and what the child result holds are disjoint parts of the heap.  A      *)
(* handler changes the stack at its top only, so its account is that of    *)
(* the elements below plus the new top.                                    *)
(***************************************************************************)
EXTENDS CjsonParser_proofs, FiniteSetTheorems

-----------------------------------------------------------------------------
(* What holds of the memory of one element: its own block, its key and its   *)
(* data are apart, an object's data contains its members without overlap,    *)
(* and the pages of a string are those its bytes need.                       *)
Pages(n) == (n + StringPage - 1) \div StringPage
Paged(f) == IsFiniteSet(f.mem) /\ Cardinality(f.mem) = Pages(Len(f.buf))

EntriesApart(entries, mem) ==
  /\ \A x \in entries : x.mem \subseteq mem
  /\ \A x, y \in entries : x # y => x.mem \cap y.mem = {}

Tidy(f) ==
  /\ f.type \in {"String", "Object", "Array"} => f.elm \notin f.mem
  /\ f.type = "String" => Paged(f)
  /\ f.type = "Object" => /\ f.elm \notin f.lpCurrentKey.mem
                          /\ f.mem \cap f.lpCurrentKey.mem = {}
                          /\ EntriesApart(f.entries, f.mem)

(* A whole stack: every element in order, no two of them overlapping. *)
StackMem(s) == UNION {FrameMem(s[i]) : i \in 1 .. Len(s)}
Own(s) == /\ \A i \in 1 .. Len(s) : Tidy(s[i])
          /\ \A i, j \in 1 .. Len(s) : i # j => FrameMem(s[i]) \cap FrameMem(s[j]) = {}

(* The account of a stack, a child result and a heap next to what is         *)
(* outside, and the blocks it has lost.                                      *)
Outside == lpParser \cup UNION documents

Account(U, stk, v, h) ==
  /\ Own(stk)
  /\ StackMem(stk) \cap v.mem = {} /\ StackMem(stk) \cap U = {} /\ v.mem \cap U = {}
  /\ StackMem(stk) \cup v.mem \cup U \subseteq h
Loss(U, stk, v, h) == h \ (U \cup StackMem(stk) \cup v.mem)

DocumentsApart ==
  /\ \A d, e \in documents : d # e => d \cap e = {}
  /\ \A d \in documents : d \cap lpParser = {}

OwnInv == /\ KeyInv
          /\ Account(Outside, lpStateStack, lpChildResult, heap)
          /\ DocumentsApart
          /\ callback /\ ~oom => lpChildResult.mem = {}

-----------------------------------------------------------------------------
(* The account of a stack seen as its top on what is below.                  *)
Split(U, B, F, V, h) ==
  /\ B \cap F = {} /\ B \cap V = {} /\ B \cap U = {}
  /\ F \cap V = {} /\ F \cap U = {} /\ V \cap U = {}
  /\ B \cup F \cup V \cup U \subseteq h

LEMMA OwnAppend ==
  ASSUME NEW b \in Seq(Frame), NEW f
  PROVE  /\ StackMem(Append(b, f)) = StackMem(b) \cup FrameMem(f)
         /\ Own(Append(b, f)) <=>
              Own(b) /\ Tidy(f) /\ StackMem(b) \cap FrameMem(f) = {}
<1> DEFINE t == Append(b, f)
           n == Len(b)
<1>1. b \in Seq(Frame \cup {f}) /\ n \in Nat
  BY SeqMonotonic, LenProperties
<1>2. Len(t) = n + 1 /\ (\A i \in 1 .. n : t[i] = b[i]) /\ t[n + 1] = f
  BY <1>1, AppendProperties
<1> HIDE DEF t, n
<1>3. 1 .. n + 1 = (1 .. n) \cup {n + 1} /\ n + 1 \notin 1 .. n
  BY <1>1
<1>4. StackMem(t) = StackMem(b) \cup FrameMem(f)
  <2>1. \A x : x \in StackMem(t) <=> \E i \in 1 .. n + 1 : x \in FrameMem(t[i])
    BY <1>2 DEF StackMem
  <2>2. \A x : x \in StackMem(b) <=> \E i \in 1 .. n : x \in FrameMem(b[i])
    BY DEF StackMem, n
  <2>3. \A x : x \in StackMem(t) <=> x \in StackMem(b) \/ x \in FrameMem(f)
    BY <1>2, <1>3, <2>1, <2>2, Zenon
  <2> QED
    BY <2>3
<1>5. (\A i \in 1 .. n + 1 : Tidy(t[i])) <=> (\A i \in 1 .. n : Tidy(b[i])) /\ Tidy(f)
  BY <1>2, <1>3, Zenon
<1>6. StackMem(b) \cap FrameMem(f) = {} <=>
        \A i \in 1 .. n : FrameMem(b[i]) \cap FrameMem(f) = {}
  <2>1. \A x : x \in StackMem(b) <=> \E i \in 1 .. n : x \in FrameMem(b[i])
    BY DEF StackMem, n
  <2>2. StackMem(b) \cap FrameMem(f) = {} <=> ~\E x : x \in StackMem(b) /\ x \in FrameMem(f)
    OBVIOUS
  <2>3. \A i \in 1 .. n : FrameMem(b[i]) \cap FrameMem(f) = {}
                          <=> ~\E x : x \in FrameMem(b[i]) /\ x \in FrameMem(f)
    OBVIOUS
  <2> QED
    BY <2>1, <2>2, <2>3, Zenon
<1>7. (\A i, j \in 1 .. n + 1 : i # j => FrameMem(t[i]) \cap FrameMem(t[j]) = {}) <=>
        /\ \A i, j \in 1 .. n : i # j => FrameMem(b[i]) \cap FrameMem(b[j]) = {}
        /\ \A i \in 1 .. n : FrameMem(b[i]) \cap FrameMem(f) = {}
  <2> DEFINE D(x, y) == FrameMem(x) \cap FrameMem(y) = {}
  <2>1. \A x, y : D(x, y) <=> D(y, x)
    OBVIOUS
  <2> HIDE DEF D
  <2>2. (\A i, j \in 1 .. n + 1 : i # j => D(t[i], t[j])) <=>
          /\ \A i, j \in 1 .. n : i # j => D(b[i], b[j])
          /\ \A i \in 1 .. n : D(b[i], f)
    <3>1. ASSUME \A i, j \in 1 .. n + 1 : i # j => D(t[i], t[j])
          PROVE  /\ \A i, j \in 1 .. n : i # j => D(b[i], b[j])
                 /\ \A i \in 1 .. n : D(b[i], f)
      BY <1>2, <1>3, <3>1
    <3>2. ASSUME \A i, j \in 1 .. n : i # j => D(b[i], b[j]),
                 \A i \in 1 .. n : D(b[i], f),
                 NEW i \in 1 .. n + 1, NEW j \in 1 .. n + 1, i # j
          PROVE  D(t[i], t[j])
      BY <1>2, <1>3, <2>1, <3>2
    <3> QED
      BY <3>1, <3>2
  <2> QED
    BY <2>2 DEF D
<1>8. Own(t) <=> Own(b) /\ Tidy(f) /\ StackMem(b) \cap FrameMem(f) = {}
  BY <1>2, <1>5, <1>6, <1>7 DEF Own, n
<1> QED
  BY <1>4, <1>8 DEF t

LEMMA OwnEmpty == StackMem(<< >>) = {} /\ Own(<< >>)
<1>1. Len(<< >>) = 0 /\ 1 .. 0 = {}
  BY EmptySeq
<1> QED
  BY <1>1 DEF StackMem, Own

LEMMA AccountAppend ==
  ASSUME NEW b \in Seq(Frame), NEW f, NEW U, NEW v, NEW h
  PROVE  /\ Account(U, Append(b, f), v, h) <=>
              Own(b) /\ Tidy(f) /\ Split(U, StackMem(b), FrameMem(f), v.mem, h)
         /\ Loss(U, Append(b, f), v, h)
              = h \ (U \cup StackMem(b) \cup FrameMem(f) \cup v.mem)
<1> DEFINE B == StackMem(b)
           F == FrameMem(f)
           V == v.mem
<1>1. /\ StackMem(Append(b, f)) = B \cup F
      /\ Own(Append(b, f)) <=> Own(b) /\ Tidy(f) /\ B \cap F = {}
  BY OwnAppend
<1> HIDE DEF B, F, V
<1>2. /\ Account(U, Append(b, f), v, h) <=>
           /\ Own(b) /\ Tidy(f) /\ B \cap F = {}
           /\ (B \cup F) \cap V = {} /\ (B \cup F) \cap U = {} /\ V \cap U = {}
           /\ (B \cup F) \cup V \cup U \subseteq h
      /\ Loss(U, Append(b, f), v, h) = h \ (U \cup (B \cup F) \cup V)
  BY <1>1 DEF Account, Loss, V
<1>3. Account(U, Append(b, f), v, h) <=> Own(b) /\ Tidy(f) /\ Split(U, B, F, V, h)
  BY <1>2 DEF Split
<1>4. Loss(U, Append(b, f), v, h) = h \ (U \cup B \cup F \cup V)
  BY <1>2
<1> QED
  BY <1>3, <1>4 DEF B, F, V

LEMMA AccountEmpty ==
  ASSUME NEW U, NEW v, NEW h
  PROVE  /\ Account(U, << >>, v, h) <=> v.mem \cap U = {} /\ v.mem \cup U \subseteq h
         /\ Loss(U, << >>, v, h) = h \ (U \cup v.mem)
BY OwnEmpty DEF Account, Loss

(* What an element holds, by its type. *)
LEMMA FrameMemory ==
  ASSUME NEW f
  PROVE  /\ f.type \in {"Constant", "Number"} => FrameMem(f) = {f.elm}
         /\ f.type \in {"String", "Array"} => FrameMem(f) = {f.elm} \cup f.mem
         /\ f.type = "Object" => FrameMem(f) = {f.elm} \cup f.mem \cup f.lpCurrentKey.mem
BY DEF FrameMem

-----------------------------------------------------------------------------
(* The account is what NoDangling and LeakFree speak of. *)
LEMMA HeldByOwners ==
  /\ <<"parser">> \in Owner /\ Held(<<"parser">>) = lpParser
  /\ <<"child">> \in Owner /\ Held(<<"child">>) = lpChildResult.mem
  /\ \A i \in 1 .. Len(lpStateStack) :
       <<"frame", i>> \in Owner /\ Held(<<"frame", i>>) = FrameMem(lpStateStack[i])
  /\ \A d \in documents : <<"document", d>> \in Owner /\ Held(<<"document", d>>) = d
BY DEF Owner, Held

LEMMA LostIsLoss ==
  Lost = Loss(Outside, lpStateStack, lpChildResult, heap)
<1>1. \A x : (\E o \in Owner : x \in Held(o)) <=>
               \/ x \in lpParser
               \/ x \in lpChildResult.mem
               \/ \E i \in 1 .. Len(lpStateStack) : x \in FrameMem(lpStateStack[i])
               \/ \E d \in documents : x \in d
  <2>1. ASSUME NEW x, NEW o \in Owner, x \in Held(o)
        PROVE  \/ x \in lpParser
               \/ x \in lpChildResult.mem
               \/ \E i \in 1 .. Len(lpStateStack) : x \in FrameMem(lpStateStack[i])
               \/ \E d \in documents : x \in d
    BY <2>1, HeldByOwners DEF Owner
  <2> QED
    BY <2>1, HeldByOwners
<1>2. \A x : x \in UNION {Held(o) : o \in Owner} <=> \E o \in Owner : x \in Held(o)
  OBVIOUS
<1>3. \A x : x \in Outside <=> x \in lpParser \/ \E d \in documents : x \in d
  BY DEF Outside
<1>4. \A x : x \in StackMem(lpStateStack) <=>
               \E i \in 1 .. Len(lpStateStack) : x \in FrameMem(lpStateStack[i])
  BY DEF StackMem
<1>5. \A x : x \in UNION {Held(o) : o \in Owner} <=>
               x \in Outside \cup StackMem(lpStateStack) \cup lpChildResult.mem
  BY <1>1, <1>2, <1>3, <1>4
<1> HIDE <1>1, <1>2, <1>3, <1>4
<1> QED
  BY <1>5 DEF Lost, Loss

LEMMA AccountSafe ==
  ASSUME Account(Outside, lpStateStack, lpChildResult, heap), DocumentsApart
  PROVE  NoDangling
<1> DEFINE n == Len(lpStateStack)
           S == StackMem(lpStateStack)
           C == lpChildResult.mem
<1>1. /\ S \cap C = {} /\ S \cap Outside = {} /\ C \cap Outside = {}
      /\ S \cup C \cup Outside \subseteq heap
  BY DEF Account
<1>2. /\ \A i \in 1 .. n : FrameMem(lpStateStack[i]) \subseteq S
      /\ lpParser \subseteq Outside
      /\ \A d \in documents : d \subseteq Outside
  BY DEF StackMem, Outside
<1>3. \A i, j \in 1 .. n : i # j => FrameMem(lpStateStack[i]) \cap FrameMem(lpStateStack[j]) = {}
  BY DEF Account, Own
<1>4. \A o \in Owner : \/ o = <<"parser">> /\ Held(o) = lpParser
                       \/ o = <<"child">> /\ Held(o) = C
                       \/ \E i \in 1 .. n : o = <<"frame", i>> /\ Held(o) = FrameMem(lpStateStack[i])
                       \/ \E d \in documents : o = <<"document", d>> /\ Held(o) = d
  BY HeldByOwners DEF Owner
<1> HIDE DEF n, S, C
<1>5. ASSUME NEW o \in Owner PROVE Held(o) \subseteq heap
  <2>1. \/ Held(o) = lpParser
        \/ Held(o) = C
        \/ \E i \in 1 .. n : Held(o) = FrameMem(lpStateStack[i])
        \/ \E d \in documents : Held(o) = d
    BY <1>4
  <2>2. Held(o) \subseteq S \/ Held(o) \subseteq C \/ Held(o) \subseteq Outside
    BY <1>2, <2>1
  <2> QED
    BY ONLY <1>1, <2>2
<1>6. ASSUME NEW o \in Owner, NEW p \in Owner, o # p PROVE Held(o) \cap Held(p) = {}
  <2>1. CASE \/ Held(o) \subseteq S /\ Held(p) \subseteq C \cup Outside
             \/ Held(p) \subseteq S /\ Held(o) \subseteq C \cup Outside
             \/ Held(o) \subseteq C /\ Held(p) \subseteq Outside
             \/ Held(p) \subseteq C /\ Held(o) \subseteq Outside
    BY ONLY <1>1, <2>1
  <2>2. CASE \E i, j \in 1 .. n : /\ o = <<"frame", i>> /\ Held(o) = FrameMem(lpStateStack[i])
                                  /\ p = <<"frame", j>> /\ Held(p) = FrameMem(lpStateStack[j])
    BY <1>3, <1>6, <2>2
  <2>3. CASE \E d, e \in documents : /\ o = <<"document", d>> /\ Held(o) = d
                                     /\ p = <<"document", e>> /\ Held(p) = e
    BY <1>6, <2>3 DEF DocumentsApart
  <2>4. CASE \E d \in documents : \/ Held(o) = lpParser /\ Held(p) = d
                                  \/ Held(p) = lpParser /\ Held(o) = d
    BY <2>4 DEF DocumentsApart
  <2> QED
    BY <1>2, <1>4, <1>6, <2>1, <2>2, <2>3, <2>4
<1> QED
  BY <1>5, <1>6 DEF NoDangling

-----------------------------------------------------------------------------
(* What a step of a call has to keep.  Losses are the lost blocks, see       *)
(* LostIsLoss; without a callback, or once an allocation has failed, the     *)
(* parser may lose some.                                                     *)
Losses == Loss(Outside, lpStateStack, lpChildResult, heap)

OwnStep ==
  /\ Account(Outside, lpStateStack, lpChildResult, heap)'
  /\ DocumentsApart'
  /\ (callback /\ ~oom => lpChildResult.mem = {})'
  /\ callback /\ ~oom' => Losses' \subseteq Losses

LEMMA OutcomeOwned ==
  ASSUME OwnInv, NEW stk, NEW v, NEW h, NEW e, NEW quiet,
         Account(Outside, stk, v, h),
         \/ /\ Done(stk, v, h, e, quiet)
            /\ callback /\ ~oom => v.mem = {} /\ Loss(Outside, stk, v, h) \subseteq Losses
         \/ OutOfMemory(stk, v, h, quiet)
  PROVE  OwnStep
<1>1. /\ lpStateStack' = stk /\ lpChildResult' = v /\ heap' = h
      /\ lpParser' = lpParser /\ documents' = documents /\ callback' = callback
  BY DEF Done, OutOfMemory, State, NoDelivery
<1>2. Outside' = Outside /\ DocumentsApart'
  BY <1>1 DEF Outside, DocumentsApart, OwnInv
<1>3. Account(Outside, lpStateStack, lpChildResult, heap)'
  BY <1>1, <1>2
<1>4. Losses' = Loss(Outside, stk, v, h)
  BY <1>1, <1>2 DEF Losses
<1>5. CASE Done(stk, v, h, e, quiet)
           /\ (callback /\ ~oom => v.mem = {} /\ Loss(Outside, stk, v, h) \subseteq Losses)
  <2>1. oom' = oom
    BY <1>5 DEF Done
  <2> QED
    BY <1>1, <1>2, <1>3, <1>4, <1>5, <2>1 DEF OwnStep
<1>6. CASE OutOfMemory(stk, v, h, quiet)
  <2>1. oom'
    BY <1>6 DEF OutOfMemory
  <2> QED
    BY <1>2, <1>3, <2>1 DEF OwnStep
<1> QED
  BY <1>5, <1>6

(* The object of a finished child. *)
LEMMA ObjectMemory ==
  ASSUME NEW f \in ObjectFrame, NEW v, NEW x
  PROVE  /\ LET g == WithKey(f, v, x)
            IN /\ g.type = "Object" /\ g.elm = f.elm /\ g.mem = f.mem
               /\ g.entries = f.entries /\ g.lpCurrentKey.mem = {x}
         /\ LET g == ForgetKey(f)
            IN /\ g.type = "Object" /\ g.elm = f.elm /\ g.mem = f.mem
               /\ g.entries = f.entries /\ g.lpCurrentKey.mem = {}
         /\ LET g == ForgetKey(ObjectStore(f, x, v))
            IN /\ g.type = "Object" /\ g.elm = f.elm /\ g.lpCurrentKey.mem = {}
               /\ g.mem = (f.mem \ Old(f)) \cup v.mem \cup (IF Same(f) = {} THEN {x} ELSE {})
               /\ g.entries = (f.entries \ Same(f))
                              \cup {[key |-> f.lpCurrentKey.str, mem |-> v.mem]}
<1>1. LET g == WithKey(f, v, x)
      IN /\ g.type = "Object" /\ g.elm = f.elm /\ g.mem = f.mem
         /\ g.entries = f.entries /\ g.lpCurrentKey.mem = {x}
  BY DEF WithKey, ObjectFrame
<1>2. LET g == ForgetKey(f)
      IN /\ g.type = "Object" /\ g.elm = f.elm /\ g.mem = f.mem
         /\ g.entries = f.entries /\ g.lpCurrentKey.mem = {}
  BY DEF ForgetKey, ObjectFrame, NoValue
<1>3. LET g == ForgetKey(ObjectStore(f, x, v))
      IN /\ g.type = "Object" /\ g.elm = f.elm /\ g.lpCurrentKey.mem = {}
         /\ g.mem = (f.mem \ Old(f)) \cup v.mem \cup (IF Same(f) = {} THEN {x} ELSE {})
         /\ g.entries = (f.entries \ Same(f))
                        \cup {[key |-> f.lpCurrentKey.str, mem |-> v.mem]}
  <2> DEFINE mem == (f.mem \ Old(f)) \cup v.mem \cup (IF Same(f) = {} THEN {x} ELSE {})
             entries == (f.entries \ Same(f)) \cup {[key |-> f.lpCurrentKey.str, mem |-> v.mem]}
             o == ObjectStore(f, x, v)
  <2>1. o = [f EXCEPT !.mem = mem, !.entries = entries]
    BY DEF ObjectStore
  <2> HIDE DEF mem, entries, o
  <2>2. /\ o.type = "Object" /\ o.elm = f.elm /\ o.mem = mem /\ o.entries = entries
        /\ {"type", "elm", "mem", "entries", "lpCurrentKey"} \subseteq DOMAIN o
    BY <2>1 DEF ObjectFrame
  <2>3. LET g == ForgetKey(o)
        IN /\ g.type = "Object" /\ g.elm = f.elm /\ g.lpCurrentKey.mem = {}
           /\ g.mem = mem /\ g.entries = entries
    BY <2>2 DEF ForgetKey, NoValue
  <2> QED
    BY <2>3 DEF o, mem, entries
<1> QED
  BY <1>1, <1>2, <1>3

(* Storing a member: the old value of its key goes, nothing else overlaps.   *)
LEMMA MembersApart ==
  ASSUME NEW f \in ObjectFrame, NEW V, NEW N,
         EntriesApart(f.entries, f.mem), V \cap f.mem = {}
  PROVE  /\ Old(f) \subseteq f.mem
         /\ EntriesApart((f.entries \ Same(f)) \cup {[key |-> f.lpCurrentKey.str, mem |-> V]},
                         (f.mem \ Old(f)) \cup V \cup N)
<1> DEFINE new == [key |-> f.lpCurrentKey.str, mem |-> V]
           mem == (f.mem \ Old(f)) \cup V \cup N
           E == (f.entries \ Same(f)) \cup {new}
<1>1. /\ \A x \in f.entries : x.mem \subseteq f.mem
      /\ \A x, y \in f.entries : x # y => x.mem \cap y.mem = {}
  BY DEF EntriesApart
<1>2. Same(f) \subseteq f.entries /\ \A x \in Same(f) : x.mem \subseteq Old(f)
  BY DEF Same, Old
<1>3. \A z : z \in Old(f) <=> \E x \in Same(f) : z \in x.mem
  BY DEF Old
<1>4. new.mem = V
  OBVIOUS
<1> HIDE DEF new
<1>5. Old(f) \subseteq f.mem
  BY <1>1, <1>2, <1>3
<1>6. ASSUME NEW x \in f.entries, x \notin Same(f) PROVE x.mem \subseteq f.mem \ Old(f)
  <2>1. ASSUME NEW z \in x.mem, z \in Old(f) PROVE FALSE
    <3>1. PICK y \in Same(f) : z \in y.mem
      BY <1>3, <2>1
    <3>2. y \in f.entries /\ y # x
      BY <1>2, <1>6, <3>1
    <3> QED
      BY <1>1, <1>6, <2>1, <3>1, <3>2
  <2> QED
    BY <1>1, <1>6, <2>1
<1>7. \A x \in E : x.mem \subseteq mem
  BY <1>4, <1>6
<1>8. ASSUME NEW x \in E, NEW y \in E, x # y PROVE x.mem \cap y.mem = {}
  <2>1. CASE x \in f.entries /\ y \in f.entries
    BY <1>1, <1>8, <2>1
  <2>2. CASE x = new /\ y \in f.entries
    <3>1. y.mem \subseteq f.mem
      BY <1>1, <2>2
    <3> QED
      BY <1>4, <2>2, <3>1
  <2>3. CASE y = new /\ x \in f.entries
    <3>1. x.mem \subseteq f.mem
      BY <1>1, <2>3
    <3> QED
      BY <1>4, <2>3, <3>1
  <2> QED
    BY <1>8, <2>1, <2>2, <2>3
<1> QED
  BY <1>5, <1>7, <1>8 DEF EntriesApart, new

-----------------------------------------------------------------------------
(* Popping.  What is popped has become the value v next to what is below.    *)
PopAccount(v, rest) ==
  /\ Account(Outside, Below, v, rest)
  /\ callback /\ ~oom => Loss(Outside, Below, v, rest) \subseteq Losses

LEMMA PopToUniverseOwned ==
  ASSUME OwnInv, NEW v, v.mem # {}, NEW rest, NEW quiet,
         PopAccount(v, rest), PopToUniverse(v, rest, quiet)
  PROVE  OwnStep
<1> DEFINE U == Outside
           V == v.mem
<1>1. V \cap U = {} /\ V \cup U \subseteq rest
      /\ (callback /\ ~oom => rest \ (U \cup V) \subseteq Losses)
  BY AccountEmpty DEF PopAccount, PopToUniverse
<1>2. /\ heap' = rest /\ lpStateStack' = << >> /\ lpParser' = lpParser
      /\ callback' = callback /\ oom' = oom
  BY DEF PopToUniverse, Universe_PopNotify, State
<1>3. CASE callback
  <2>1. documents' = documents \cup {V} /\ lpChildResult' = NoValue
    BY <1>2, <1>3 DEF PopToUniverse, Universe_PopNotify, State, IsNull, Taken
  <2>2. Outside' = U \cup V
    BY <1>2, <2>1 DEF Outside
  <2>3. DocumentsApart'
    <3>1. (\A d \in documents : d \cap V = {}) /\ lpParser \cap V = {}
      BY <1>1 DEF Outside
    <3> QED
      BY <1>2, <2>1, <3>1 DEF DocumentsApart, OwnInv
  <2>4. NoValue.mem = {}
    BY DEF NoValue
  <2>5. Account(Outside, lpStateStack, lpChildResult, heap)'
    <3>1. Account(U \cup V, << >>, NoValue, rest)
      BY <1>1, <2>4, AccountEmpty
    <3> QED
      BY <1>2, <2>1, <2>2, <3>1
  <2>6. Losses' = rest \ (U \cup V)
    <3>1. Loss(U \cup V, << >>, NoValue, rest) = rest \ (U \cup V)
      BY <2>4, AccountEmpty
    <3> QED
      BY <1>2, <2>1, <2>2, <3>1 DEF Losses
  <2> QED
    BY <1>1, <1>2, <2>1, <2>3, <2>4, <2>5, <2>6 DEF OwnStep
<1>4. CASE ~callback
  <2>1. documents' = documents /\ lpChildResult' = v
    BY <1>4 DEF PopToUniverse, Universe_PopNotify, State
  <2>2. Outside' = U /\ DocumentsApart'
    BY <1>2, <2>1 DEF Outside, DocumentsApart, OwnInv
  <2>3. Account(Outside, lpStateStack, lpChildResult, heap)'
    BY <1>1, <1>2, <2>1, <2>2, AccountEmpty
  <2> QED
    BY <1>2, <1>4, <2>2, <2>3 DEF OwnStep
<1> QED
  BY <1>3, <1>4

LEMMA PopToKeyOwned ==
  ASSUME OwnInv, NEW v, NEW rest, NEW quiet, NEW b \in Seq(Frame), NEW f \in Frame,
         Below = Append(b, f), CoveredKey(f),
         PopAccount(v, rest), PopToKey(b, f, v, rest, quiet)
  PROVE  OwnStep
<1> DEFINE U == Outside
           V == v.mem
           B == StackMem(b)
           F == FrameMem(f)
           x == Fresh(rest)
           g == WithKey(f, v, x)
           h == (rest \cup {x}) \ V
<1>1. /\ Own(b) /\ Tidy(f) /\ Split(U, B, F, V, rest)
      /\ callback /\ ~oom => rest \ (U \cup B \cup F \cup V) \subseteq Losses
  BY AccountAppend DEF PopAccount
<1>2. /\ f \in ObjectFrame /\ f.type = "Object" /\ f.lpCurrentKey.mem = {}
      /\ f.elm \notin f.mem /\ EntriesApart(f.entries, f.mem)
      /\ F = {f.elm} \cup f.mem
  <2>1. f \in ObjectFrame /\ f.type = "Object" /\ f.state = "ReadKey"
    BY DEF PopToKey, ObjectFrame
  <2>2. f.lpCurrentKey.mem = {}
    BY <2>1 DEF CoveredKey
  <2> QED
    BY <1>1, <2>1, <2>2, FrameMemory DEF Tidy
<1>3. CASE CanAlloc(rest) /\ Done(Append(b, g), Taken(v), h, "Ok", quiet)
  <2>1. x \notin rest
    BY <1>3, FreshIsFree
  <2>2. F \subseteq rest
    BY <1>1 DEF Split
  <2>3. /\ g.type = "Object" /\ g.elm = f.elm /\ g.mem = f.mem
        /\ g.entries = f.entries /\ g.lpCurrentKey.mem = {x}
    BY <1>2, ObjectMemory
  <2>4. FrameMem(g) = F \cup {x}
    BY <1>2, <2>3, FrameMemory
  <2>5. Tidy(g)
    BY <1>2, <2>1, <2>2, <2>3 DEF Tidy
  <2>6. Taken(v).mem = {}
    BY DEF Taken, NoValue
  <2>7. Split(U, B, F \cup {x}, {}, h)
    <3> HIDE DEF U, V, B, F, x
    <3> QED
      BY <1>1, <2>1 DEF Split
  <2>8. h \ (U \cup B \cup (F \cup {x}) \cup {}) \subseteq rest \ (U \cup B \cup F \cup V)
    OBVIOUS
  <2> HIDE DEF g, h, U
  <2>9. Account(Outside, Append(b, g), Taken(v), h)
    BY <1>1, <2>4, <2>5, <2>6, <2>7, AccountAppend DEF U
  <2>10. callback /\ ~oom => Loss(Outside, Append(b, g), Taken(v), h) \subseteq Losses
    BY <1>1, <2>4, <2>6, <2>8, AccountAppend DEF U
  <2> QED
    BY <1>3, <2>6, <2>9, <2>10, OutcomeOwned
<1>4. CASE OutOfMemory(Append(b, f), v, rest, quiet)
  BY <1>4, OutcomeOwned DEF PopAccount
<1> QED
  BY <1>3, <1>4 DEF PopToKey

LEMMA PopToMemberOwned ==
  ASSUME OwnInv, NEW v, NEW rest, NEW quiet, NEW b \in Seq(Frame), NEW f \in Frame,
         Below = Append(b, f),
         PopAccount(v, rest), PopToMember(b, f, v, rest, quiet)
  PROVE  OwnStep
<1> DEFINE U == Outside
           V == v.mem
           B == StackMem(b)
           F == FrameMem(f)
           K == f.lpCurrentKey.mem
           M == f.mem
<1>1. /\ Own(b) /\ Tidy(f) /\ Split(U, B, F, V, rest)
      /\ callback /\ ~oom => rest \ (U \cup B \cup F \cup V) \subseteq Losses
  BY AccountAppend DEF PopAccount
<1>2. /\ f \in ObjectFrame /\ f.type = "Object"
      /\ f.elm \notin M /\ f.elm \notin K /\ M \cap K = {} /\ EntriesApart(f.entries, M)
      /\ F = {f.elm} \cup M \cup K
  <2>1. f \in ObjectFrame /\ f.type = "Object"
    BY DEF PopToMember, ObjectFrame
  <2> QED
    BY <1>1, <2>1, FrameMemory DEF Tidy
<1>3. Taken(v).mem = {}
  BY DEF Taken, NoValue
<1>4. ASSUME CanAlloc(rest),
             Done(Append(b, ForgetKey(ObjectStore(f, Fresh(rest), v))), Taken(v),
                  ObjectStoreHeap(f, rest, Fresh(rest)) \ K, "Ok", quiet)
      PROVE  OwnStep
  <2> DEFINE x == Fresh(rest)
             N == IF Same(f) = {} THEN {x} ELSE {}
             O == Old(f)
             g == ForgetKey(ObjectStore(f, x, v))
             h == ((rest \ O) \cup N) \ K
             G == {f.elm} \cup ((M \ O) \cup V \cup N)
  <2>1. x \notin rest /\ N \subseteq {x}
    BY <1>4, FreshIsFree
  <2>2. F \subseteq rest /\ V \cap F = {} /\ V \subseteq rest
    BY <1>1 DEF Split
  <2>3. /\ O \subseteq M
        /\ EntriesApart((f.entries \ Same(f)) \cup {[key |-> f.lpCurrentKey.str, mem |-> V]},
                        (M \ O) \cup V \cup N)
    BY <1>2, <2>2, MembersApart
  <2>4. /\ g.type = "Object" /\ g.elm = f.elm /\ g.lpCurrentKey.mem = {}
        /\ g.mem = (M \ O) \cup V \cup N
        /\ g.entries = (f.entries \ Same(f))
                       \cup {[key |-> f.lpCurrentKey.str, mem |-> V]}
    BY <1>2, ObjectMemory
  <2> HIDE DEF g
  <2>5. FrameMem(g) = G
    BY <2>4, FrameMemory
  <2>6. Tidy(g)
    <3>1. f.elm \notin (M \ O) \cup V \cup N
      BY <1>2, <2>1, <2>2
    <3> QED
      BY <2>3, <2>4, <3>1 DEF Tidy
  <2>7. h = ObjectStoreHeap(f, rest, x) \ K
    BY DEF ObjectStoreHeap
  <2> HIDE DEF x, N, O
  <2>8. Split(U, B, G, {}, h)
    <3> HIDE DEF U, V, B, F, K, M
    <3> QED
      BY <1>1, <1>2, <2>1, <2>3 DEF Split
  <2>9. h \ (U \cup B \cup G \cup {}) \subseteq rest \ (U \cup B \cup F \cup V)
    <3> HIDE DEF U, V, B, F, K, M
    <3> QED
      BY <1>2
  <2> HIDE DEF h, G, U
  <2>10. Account(Outside, Append(b, g), Taken(v), h)
    BY <1>1, <1>3, <2>5, <2>6, <2>8, AccountAppend DEF U
  <2>11. callback /\ ~oom => Loss(Outside, Append(b, g), Taken(v), h) \subseteq Losses
    BY <1>1, <1>3, <2>5, <2>9, AccountAppend DEF U
  <2>12. Done(Append(b, g), Taken(v), h, "Ok", quiet)
    BY <1>4, <2>7 DEF g, x
  <2> QED
    BY <1>3, <2>10, <2>11, <2>12, OutcomeOwned
<1>5. ASSUME OutOfMemory(Append(b, ForgetKey(f)), Taken(v), rest \ (V \cup K), quiet)
      PROVE  OwnStep
  <2> DEFINE g == ForgetKey(f)
             h == rest \ (V \cup K)
             G == {f.elm} \cup M
  <2>1. /\ g.type = "Object" /\ g.elm = f.elm /\ g.mem = M
        /\ g.entries = f.entries /\ g.lpCurrentKey.mem = {}
    BY <1>2, ObjectMemory
  <2> HIDE DEF g
  <2>2. FrameMem(g) = G /\ Tidy(g)
    BY <1>2, <2>1, FrameMemory DEF Tidy
  <2>3. Split(U, B, G, {}, h)
    <3> HIDE DEF U, V, B, F, K, M
    <3> QED
      BY <1>1, <1>2 DEF Split
  <2>4. OutOfMemory(Append(b, g), Taken(v), h, quiet)
    BY <1>5 DEF g
  <2> HIDE DEF h, G, U
  <2>5. Account(Outside, Append(b, g), Taken(v), h)
    BY <1>1, <1>3, <2>2, <2>3, AccountAppend DEF U
  <2> QED
    BY <2>4, <2>5, OutcomeOwned
<1> QED
  BY <1>4, <1>5 DEF PopToMember

LEMMA PopToElementOwned ==
  ASSUME OwnInv, NEW v, NEW rest, NEW quiet, NEW b \in Seq(Frame), NEW f \in Frame,
         Below = Append(b, f),
         PopAccount(v, rest), PopToElement(b, f, v, rest, quiet)
  PROVE  OwnStep
<1> DEFINE U == Outside
           V == v.mem
           B == StackMem(b)
           F == FrameMem(f)
           M == f.mem
<1>1. /\ Own(b) /\ Tidy(f) /\ Split(U, B, F, V, rest)
      /\ callback /\ ~oom => rest \ (U \cup B \cup F \cup V) \subseteq Losses
  BY AccountAppend DEF PopAccount
<1>2. /\ f \in ArrayFrame /\ f.type = "Array" /\ f.elm \notin M /\ F = {f.elm} \cup M
  <2>1. f \in ArrayFrame /\ f.type = "Array"
    BY DEF PopToElement, ArrayFrame
  <2> QED
    BY <1>1, <2>1, FrameMemory DEF Tidy
<1>3. Taken(v).mem = {}
  BY DEF Taken, NoValue
<1>4. ASSUME NEW page, page \cap rest = {},
             Done(Append(b, ArrayStore(f, page, v)), Taken(v), rest \cup page, "Ok", quiet)
      PROVE  OwnStep
  <2> DEFINE g == ArrayStore(f, page, v)
             h == rest \cup page
             G == {f.elm} \cup (M \cup page \cup V)
  <2>1. F \subseteq rest /\ V \cap F = {}
    BY <1>1 DEF Split
  <2>2. g.type = "Array" /\ g.elm = f.elm /\ g.mem = M \cup page \cup V
    BY <1>2 DEF ArrayStore, ArrayFrame
  <2>3. Done(Append(b, g), Taken(v), h, "Ok", quiet)
    BY <1>4
  <2> HIDE DEF g
  <2>4. FrameMem(g) = G
    BY <2>2, FrameMemory
  <2>5. Tidy(g)
    <3>1. f.elm \notin M \cup page \cup V
      BY <1>2, <1>4, <2>1
    <3> QED
      BY <2>2, <3>1 DEF Tidy
  <2>6. Split(U, B, G, {}, h)
    <3> HIDE DEF U, V, B, F, M
    <3> QED
      BY <1>1, <1>2, <1>4 DEF Split
  <2>7. h \ (U \cup B \cup G \cup {}) \subseteq rest \ (U \cup B \cup F \cup V)
    <3> HIDE DEF U, V, B, F, M
    <3> QED
      BY <1>2
  <2> HIDE DEF h, G, U
  <2>8. Account(Outside, Append(b, g), Taken(v), h)
    BY <1>1, <1>3, <2>4, <2>5, <2>6, AccountAppend DEF U
  <2>9. callback /\ ~oom => Loss(Outside, Append(b, g), Taken(v), h) \subseteq Losses
    BY <1>1, <1>3, <2>4, <2>7, AccountAppend DEF U
  <2> QED
    BY <1>3, <2>3, <2>8, <2>9, OutcomeOwned
<1>5. ASSUME OutOfMemory(Append(b, f), Taken(v), rest, quiet)
      PROVE  OwnStep
  <2>1. Split(U, B, F, {}, rest)
    <3> HIDE DEF U, V, B, F
    <3> QED
      BY <1>1 DEF Split
  <2>2. Account(Outside, Append(b, f), Taken(v), rest)
    BY <1>1, <1>3, <2>1, AccountAppend
  <2> QED
    BY <1>5, <2>2, OutcomeOwned
<1>6. rest \cup {} = rest /\ {} \cap rest = {}
      /\ (CanAlloc(rest) => {Fresh(rest)} \cap rest = {})
  BY FreshIsFree
<1> QED
  BY <1>4, <1>5, <1>6 DEF PopToElement

LEMMA PopOwned ==
  ASSUME OwnInv, bByte # None, lpStateStack # << >>,
         NEW v \in Value, v.mem # {}, NEW h \in SUBSET Block, NEW quiet \in BOOLEAN,
         PopAccount(v, h \ {Top.elm}), StateStackPop(v, h, quiet)
  PROVE  OwnStep
<1> DEFINE rest == h \ {Top.elm}
<1>1. KeyInv /\ NestInv /\ Covered(Below)
  BY KeysInCall DEF OwnInv
<1>2. \/ PopToUniverse(v, rest, quiet)
      \/ \E b \in Seq(Frame), f \in Frame :
           /\ Below = Append(b, f)
           /\ \/ PopToKey(b, f, v, rest, quiet)
              \/ PopToMember(b, f, v, rest, quiet)
              \/ PopToElement(b, f, v, rest, quiet)
  BY <1>1, PopCases
<1>3. PopAccount(v, rest)
  OBVIOUS
<1> HIDE DEF rest
<1>4. ASSUME NEW b \in Seq(Frame), NEW f \in Frame, Below = Append(b, f),
             \/ PopToKey(b, f, v, rest, quiet)
             \/ PopToMember(b, f, v, rest, quiet)
             \/ PopToElement(b, f, v, rest, quiet)
      PROVE  OwnStep
  <2>1. CoveredKey(f)
    BY <1>1, <1>4, KeyedAppend
  <2> QED
    BY <1>3, <1>4, <2>1, PopToKeyOwned, PopToMemberOwned, PopToElementOwned
<1> QED
  BY <1>2, <1>3, <1>4, PopToUniverseOwned

-----------------------------------------------------------------------------
(* Steps that leave the memory of the stack as it is. *)
LEMMA SameMemory ==
  ASSUME NEW f, NEW g, g.type = f.type, g.elm = f.elm,
         f.type \in {"Constant", "String", "Number", "Object", "Array"},
         f.type \in {"String", "Object", "Array"} => g.mem = f.mem,
         f.type = "String" => g.buf = f.buf,
         f.type = "Object" => g.lpCurrentKey = f.lpCurrentKey /\ g.entries = f.entries
  PROVE  FrameMem(g) = FrameMem(f) /\ (Tidy(f) => Tidy(g))
<1>1. FrameMem(g) = FrameMem(f)
  BY FrameMemory
<1>2. Tidy(f) => Tidy(g)
  BY DEF Tidy, Paged
<1> QED
  BY <1>1, <1>2

LEMMA TopAccount ==
  ASSUME OwnInv, bByte # None, lpStateStack # << >>
  PROVE  /\ Below \in Seq(Frame) /\ Top \in Frame /\ lpStateStack = Append(Below, Top)
         /\ \A g : SetTop(g) = Append(Below, g)
         /\ Own(Below) /\ Tidy(Top)
         /\ Split(Outside, StackMem(Below), FrameMem(Top), lpChildResult.mem, heap)
         /\ Losses = heap \ (Outside \cup StackMem(Below) \cup FrameMem(Top)
                             \cup lpChildResult.mem)
         /\ callback /\ ~oom => lpChildResult.mem = {}
<1>1. /\ Below \in Seq(Frame) /\ Top \in Frame /\ lpStateStack = Append(Below, Top)
      /\ \A g : SetTop(g) = Append(Below, g)
  BY KeysInCall DEF OwnInv
<1>2. Account(Outside, Append(Below, Top), lpChildResult, heap)
  BY <1>1 DEF OwnInv
<1>3. Losses = Loss(Outside, Append(Below, Top), lpChildResult, heap)
  BY <1>1 DEF Losses
<1> QED
  BY <1>1, <1>2, <1>3, AccountAppend DEF OwnInv

LEMMA SameTop ==
  ASSUME OwnInv, bByte # None, lpStateStack # << >>,
         NEW g, Tidy(g), FrameMem(g) = FrameMem(Top)
  PROVE  /\ Account(Outside, SetTop(g), lpChildResult, heap)
         /\ Loss(Outside, SetTop(g), lpChildResult, heap) = Losses
<1>1. /\ Below \in Seq(Frame) /\ SetTop(g) = Append(Below, g) /\ Own(Below)
      /\ Split(Outside, StackMem(Below), FrameMem(g), lpChildResult.mem, heap)
      /\ Losses = heap \ (Outside \cup StackMem(Below) \cup FrameMem(g)
                          \cup lpChildResult.mem)
  BY TopAccount
<1> QED
  BY <1>1, AccountAppend

LEMMA StayOwned ==
  ASSUME OwnInv
  PROVE  /\ Accept(lpStateStack) => OwnStep
         /\ Reject => OwnStep
         /\ OutOfMemory(lpStateStack, lpChildResult, heap, FALSE) => OwnStep
<1>1. /\ Account(Outside, lpStateStack, lpChildResult, heap)
      /\ callback /\ ~oom => lpChildResult.mem = {}
      /\ Loss(Outside, lpStateStack, lpChildResult, heap) \subseteq Losses
  BY DEF OwnInv, Losses
<1> QED
  BY <1>1, OutcomeOwned DEF Accept, Reject

LEMMA SetTopOwned ==
  ASSUME OwnInv, bByte # None, lpStateStack # << >>,
         NEW g, Tidy(g), FrameMem(g) = FrameMem(Top)
  PROVE  /\ Accept(SetTop(g)) => OwnStep
         /\ OutOfMemory(SetTop(g), lpChildResult, heap, FALSE) => OwnStep
<1>1. /\ Account(Outside, SetTop(g), lpChildResult, heap)
      /\ Loss(Outside, SetTop(g), lpChildResult, heap) \subseteq Losses
      /\ callback /\ ~oom => lpChildResult.mem = {}
  BY SameTop DEF OwnInv
<1> QED
  BY <1>1, OutcomeOwned DEF Accept

-----------------------------------------------------------------------------
(* The _Push functions: a new element of free blocks. *)
LEMMA NewbornTidy ==
  ASSUME NEW f, Newborn(f)
  PROVE  Tidy(f)
<1>1. CASE f.type = "String"
  <2>1. f.mem = {} /\ f.buf = << >>
    BY <1>1 DEF Newborn
  <2>2. IsFiniteSet({}) /\ Cardinality({}) = 0 /\ Len(<< >>) = 0
    BY FS_EmptySet, EmptySeq
  <2>3. (0 + StringPage - 1) \div StringPage = 0
    BY PageAssumption
  <2> QED
    BY <1>1, <2>1, <2>2, <2>3 DEF Tidy, Paged, Pages
<1>2. CASE f.type # "String"
  <2>1. f.type = "Object" => f.lpCurrentKey.mem = {} /\ f.entries = {}
    BY DEF Newborn, NoValue
  <2> QED
    BY <1>2, <2>1 DEF Newborn, Tidy, EntriesApart
<1> QED
  BY <1>1, <1>2

LEMMA PushOwned ==
  ASSUME OwnInv, bByte # None, NEW stk \in Seq(Frame),
         Account(Outside, stk, lpChildResult, heap),
         Loss(Outside, stk, lpChildResult, heap) = Losses,
         StartValue(stk, bByte) \/ String_Push(stk)
  PROVE  OwnStep
<1>1. \/ OutOfMemory(stk, lpChildResult, heap, FALSE)
      \/ \E t : PushedA(stk, t)
  <2>1. TypeInv
    BY DEF OwnInv, KeyInv, NestInv
  <2> QED
    BY <2>1, PushCases
<1>2. ASSUME NEW f, NEW redeliver, Pushed(stk, f, redeliver)
      PROVE  OwnStep
  <2> DEFINE U == Outside
             V == lpChildResult.mem
             S == StackMem(stk)
             F == FrameMem(f)
             h == heap \cup F
  <2>1. /\ Own(stk) /\ S \cap V = {} /\ S \cap U = {} /\ V \cap U = {}
        /\ S \cup V \cup U \subseteq heap
        /\ Losses = heap \ (U \cup S \cup V)
    BY DEF Account, Loss
  <2>2. F \cap heap = {} /\ Tidy(f)
    BY <1>2, NewbornTidy DEF Pushed
  <2>3. Done(Append(stk, f), lpChildResult, h, "Ok", redeliver)
    BY <1>2 DEF Pushed
  <2>4. Split(U, S, F, V, h)
    <3> HIDE DEF U, V, S, F
    <3> QED
      BY <2>1, <2>2 DEF Split
  <2>5. h \ (U \cup S \cup F \cup V) \subseteq Losses
    <3> HIDE DEF U, V, S, F
    <3> QED
      BY <2>1
  <2> HIDE DEF h
  <2>6. /\ Account(Outside, Append(stk, f), lpChildResult, h)
        /\ Loss(Outside, Append(stk, f), lpChildResult, h) \subseteq Losses
    BY <2>1, <2>2, <2>4, <2>5, AccountAppend
  <2>7. callback /\ ~oom => lpChildResult.mem = {}
    BY DEF OwnInv
  <2> QED
    BY <2>3, <2>6, <2>7, OutcomeOwned
<1>3. OutOfMemory(stk, lpChildResult, heap, FALSE) => OwnStep
  BY OutcomeOwned
<1> QED
  BY <1>1, <1>2, <1>3 DEF PushedA

-----------------------------------------------------------------------------
(* The pages of a string buffer: bytes that fit into the last page need none, *)
(* as many as a page takes need one.                                         *)
LEMMA Quotient ==
  ASSUME NEW a \in Nat, NEW p \in Nat \ {0}, NEW c \in Nat, c * p <= a, a < c * p + p
  PROVE  a \div p = c
OBVIOUS

LEMMA Division ==
  ASSUME NEW n \in Nat, NEW p \in Nat \ {0}
  PROVE  \E q \in Nat, m \in 0 .. p - 1 : n = q * p + m /\ n % p = m
<1>1. n \div p \in Nat /\ n % p \in 0 .. p - 1 /\ n = p * (n \div p) + (n % p)
  OBVIOUS
<1> QED
  BY <1>1

LEMMA PageCount ==
  ASSUME NEW n \in Nat, NEW p \in Nat \ {0}, NEW k \in Nat
  PROVE  LET room == (p - (n % p)) % p
         IN /\ k <= room => (n + k + p - 1) \div p = (n + p - 1) \div p
            /\ k > room /\ k <= p => (n + k + p - 1) \div p = (n + p - 1) \div p + 1
<1>1. PICK q \in Nat, m \in 0 .. p - 1 : n = q * p + m /\ n % p = m
  BY Division
<1> DEFINE room == (p - m) % p
           t == q * p
<1>2. t \in Nat /\ (q + 1) * p = t + p /\ (q + 2) * p = t + p + p
  OBVIOUS
<1>3. CASE m = 0
  <2>1. room = 0
    BY <1>3
  <2>2. (n + p - 1) \div p = q
    <3>1. n + p - 1 \in Nat /\ t <= n + p - 1 /\ n + p - 1 < t + p
      BY <1>1, <1>2, <1>3
    <3> QED
      BY <3>1, Quotient
  <2>3. ASSUME k > 0, k <= p PROVE (n + k + p - 1) \div p = q + 1
    <3>1. /\ n + k + p - 1 \in Nat /\ (q + 1) * p <= n + k + p - 1
          /\ n + k + p - 1 < (q + 1) * p + p
      BY <1>1, <1>2, <1>3, <2>3
    <3> QED
      BY <3>1, Quotient
  <2> QED
    BY <1>1, <2>1, <2>2, <2>3
<1>4. CASE m > 0
  <2>1. room = p - m
    BY <1>4
  <2>2. ASSUME NEW j \in Nat, j <= p - m PROVE (n + j + p - 1) \div p = q + 1
    <3>1. /\ n + j + p - 1 \in Nat /\ (q + 1) * p <= n + j + p - 1
          /\ n + j + p - 1 < (q + 1) * p + p
      BY <1>1, <1>2, <1>4, <2>2
    <3> QED
      BY <3>1, Quotient
  <2>3. (n + p - 1) \div p = q + 1
    BY <2>2, n + 0 + p - 1 = n + p - 1
  <2>4. ASSUME k > p - m, k <= p PROVE (n + k + p - 1) \div p = q + 2
    <3>1. /\ n + k + p - 1 \in Nat /\ (q + 2) * p <= n + k + p - 1
          /\ n + k + p - 1 < (q + 2) * p + p
      BY <1>1, <1>2, <1>4, <2>4
    <3> QED
      BY <3>1, Quotient
  <2> QED
    BY <1>1, <2>1, <2>2, <2>3, <2>4
<1> QED
  BY <1>3, <1>4

-----------------------------------------------------------------------------
(* The handlers. *)
LEMMA UniverseOwned ==
  ASSUME OwnInv, Universe_ProcessByte
  PROVE  OwnStep
<1>1. bByte # None /\ lpStateStack \in Seq(Frame)
  BY KeysInCall DEF Universe_ProcessByte, OwnInv
<1>2. /\ Account(Outside, lpStateStack, lpChildResult, heap)
      /\ Loss(Outside, lpStateStack, lpChildResult, heap) = Losses
  BY DEF OwnInv, Losses
<1> QED
  BY <1>1, <1>2, PushOwned, StayOwned DEF Universe_ProcessByte

LEMMA ConstantOwned ==
  ASSUME OwnInv, Constant_ProcessByte
  PROVE  OwnStep
<1> DEFINE n == Top.dwMatchedBytes
           g == [Top EXCEPT !.dwMatchedBytes = n + 1]
           C == lpChildResult.mem
           h == heap \ C
           x == Fresh(h)
           U == Outside
           B == StackMem(Below)
           e == Top.elm
<1>1. /\ Handling("Constant") /\ Top \in ConstantFrame /\ TypeInv
      /\ bByte # None /\ lpStateStack # << >> /\ Top.type = "Constant"
      /\ heap \in SUBSET Block
  BY TopOfStack, FrameByType, InCall DEF Constant_ProcessByte, OwnInv, KeyInv, NestInv
<1>2. FrameMem(g) = FrameMem(Top) /\ Tidy(g)
  <2>1. g.type = "Constant" /\ g.elm = Top.elm
    BY <1>1 DEF ConstantFrame
  <2> QED
    BY <1>1, <2>1, TopAccount, SameMemory
<1>3. /\ Own(Below) /\ Split(U, B, {e}, C, heap)
      /\ Losses = heap \ (U \cup B \cup {e} \cup C)
      /\ Below \in Seq(Frame) /\ SetTop(g) = Append(Below, g) /\ FrameMem(g) = {e}
  BY <1>1, <1>2, TopAccount, FrameMemory
<1>4. \/ Reject
      \/ Accept(SetTop(g))
      \/ CanAlloc(h) /\ StateStackPop(Leaf(x), h \cup {x}, FALSE)
      \/ OutOfMemory(SetTop(g), NoValue, h, FALSE)
  BY DEF Constant_ProcessByte
<1>5. CASE CanAlloc(h) /\ StateStackPop(Leaf(x), h \cup {x}, FALSE)
  <2> DEFINE rest == (h \cup {x}) \ {e}
  <2>1. x \in Block /\ x \notin h
    BY <1>5, FreshIsFree
  <2>2. Leaf(x) \in Value /\ Leaf(x).mem = {x} /\ h \cup {x} \in SUBSET Block
    BY <1>1, <2>1, Values DEF Leaf
  <2>3. /\ B \cap {x} = {} /\ B \cap U = {} /\ {x} \cap U = {}
        /\ B \cup {x} \cup U \subseteq rest
        /\ rest \ (U \cup B \cup {x}) \subseteq Losses
    <3> HIDE DEF U, B, C, e, x
    <3> QED
      BY <1>3, <2>1 DEF Split
  <2>4. PopAccount(Leaf(x), rest)
    BY <1>3, <2>2, <2>3 DEF PopAccount, Account, Loss
  <2> HIDE DEF h
  <2> QED
    BY <1>1, <1>5, <2>2, <2>4, PopOwned
<1>6. CASE OutOfMemory(SetTop(g), NoValue, h, FALSE)
  <2>1. Split(U, B, {e}, {}, h) /\ NoValue.mem = {}
    <3> HIDE DEF U, B, C, e
    <3> QED
      BY <1>3 DEF Split, NoValue
  <2> HIDE DEF h, g
  <2>2. /\ SetTop(g) = Append(Below, g) /\ Below \in Seq(Frame) /\ Own(Below)
        /\ Tidy(g) /\ Split(U, B, FrameMem(g), NoValue.mem, h)
    BY <1>2, <1>3, <2>1
  <2>3. Account(Outside, Append(Below, g), NoValue, h)
    BY <2>2, AccountAppend
  <2> QED
    BY <1>6, <2>2, <2>3, OutcomeOwned
<1> HIDE DEF g, h
<1> QED
  BY <1>1, <1>2, <1>4, <1>5, <1>6, SetTopOwned, StayOwned

(* A string with more bytes in its buffer. *)
Filled(f, more, page, s) == [Buffered(f, more, page) EXCEPT !.state = s]

LEMMA FilledMemory ==
  ASSUME NEW f \in StringFrame, NEW more \in Text, NEW page, NEW s
  PROVE  LET g == Filled(f, more, page, s)
         IN /\ g.type = "String" /\ g.elm = f.elm /\ g.mem = f.mem \cup page
            /\ Len(g.buf) = Len(f.buf) + Len(more)
<1>1. Len(f.buf \o more) = Len(f.buf) + Len(more)
  BY RoomInPage, ConcatProperties DEF Text
<1> QED
  BY <1>1 DEF Filled, Buffered, StringFrame

(* A page is added exactly when the bytes do not fit into the last one. *)
LEMMA PushBytesOwned ==
  ASSUME OwnInv, Handling("String"), NEW f \in StringFrame,
         f.elm = Top.elm, f.mem = Top.mem, f.buf = Top.buf,
         NEW bytes \in Text, Len(bytes) <= 3, NEW onFailure, PushBytes(f, bytes, onFailure)
  PROVE  OwnStep
<1> DEFINE M == f.mem
           n == Len(f.buf)
           k == Len(bytes)
           r == Room(f)
           x == Fresh(heap)
           C == lpChildResult.mem
           e == f.elm
           G(more, page, s) == Filled(f, more, page, s)
<1>1. /\ Top \in StringFrame /\ Top.type = "String" /\ bByte # None /\ lpStateStack # << >>
      /\ f.buf \in Text /\ r \in Nat /\ f.type = "String"
  BY TopOfStack, FrameByType, RoomInPage DEF OwnInv, KeyInv, NestInv, StringFrame
<1>2. /\ e \notin M /\ IsFiniteSet(M) /\ Cardinality(M) = Pages(n)
      /\ FrameMem(Top) = {e} \cup M
  BY <1>1, TopAccount, FrameMemory DEF Tidy, Paged
<1>3. /\ Own(Below) /\ Split(Outside, StackMem(Below), {e} \cup M, C, heap)
      /\ Losses = heap \ (Outside \cup StackMem(Below) \cup ({e} \cup M) \cup C)
      /\ Below \in Seq(Frame) /\ \A g : SetTop(g) = Append(Below, g)
      /\ callback /\ ~oom => C = {}
  BY <1>1, <1>2, TopAccount
<1>4. n \in Nat /\ k \in Nat /\ StringPage \in Nat \ {0} /\ k <= StringPage
  BY <1>1, LenProperties, PageAssumption DEF Text
<1>5. /\ \A j \in Nat : j <= r => Pages(n + j) = Pages(n)
      /\ k > r => Pages(n + k) = Pages(n) + 1
  BY <1>4, PageCount DEF Pages, Room
<1>6. ASSUME NEW more \in Text, NEW s, Len(more) <= r
      PROVE  Tidy(G(more, {}, s)) /\ FrameMem(G(more, {}, s)) = FrameMem(Top)
  <2> DEFINE none == {}
             g == G(more, none, s)
  <2>1. M \cup none = M
    OBVIOUS
  <2> HIDE DEF none
  <2>2. /\ g.type = "String" /\ g.elm = e /\ g.mem = M \cup none
        /\ Len(g.buf) = n + Len(more)
    BY FilledMemory
  <2>3. Pages(n + Len(more)) = Pages(n)
    BY <1>5, <1>6, LenProperties DEF Text
  <2> HIDE DEF g
  <2>4. Tidy(g) /\ FrameMem(g) = FrameMem(Top)
    BY <1>2, <2>1, <2>2, <2>3, FrameMemory DEF Tidy, Paged
  <2> QED
    BY <2>4 DEF g, none
<1>7. CASE k <= r /\ Accept(SetTop(G(bytes, {}, "Normal")))
  BY <1>1, <1>6, <1>7, SetTopOwned
<1>8. CASE k > r /\ CanAlloc(heap)
           /\ Done(SetTop(G(bytes, {x}, "Normal")), lpChildResult, heap \cup {x}, "Ok", FALSE)
  <2> DEFINE g == G(bytes, {x}, "Normal")
             h == heap \cup {x}
  <2>1. x \notin heap
    BY <1>8, FreshIsFree
  <2>2. g.type = "String" /\ g.elm = e /\ g.mem = M \cup {x} /\ Len(g.buf) = n + k
    BY FilledMemory
  <2>3. x \notin M /\ x # e
    BY <1>3, <2>1 DEF Split
  <2>4. IsFiniteSet(M \cup {x}) /\ Cardinality(M \cup {x}) = Pages(n + k)
    BY <1>2, <1>5, <1>8, <2>3, FS_AddElement
  <2>5. Done(SetTop(g), lpChildResult, h, "Ok", FALSE)
    BY <1>8
  <2> HIDE DEF g
  <2>6. Tidy(g) /\ FrameMem(g) = {e} \cup (M \cup {x})
    BY <1>2, <2>2, <2>3, <2>4, FrameMemory DEF Tidy, Paged
  <2>7. /\ Split(Outside, StackMem(Below), {e} \cup (M \cup {x}), C, h)
        /\ h \ (Outside \cup StackMem(Below) \cup ({e} \cup (M \cup {x})) \cup C) \subseteq Losses
    <3> HIDE DEF M, C, x, e
    <3> QED
      BY <1>3, <2>1 DEF Split
  <2> HIDE DEF h, e, x, M
  <2>8. /\ SetTop(g) = Append(Below, g) /\ Below \in Seq(Frame) /\ Own(Below) /\ Tidy(g)
        /\ callback /\ ~oom => lpChildResult.mem = {}
        /\ Split(Outside, StackMem(Below), FrameMem(g), lpChildResult.mem, h)
        /\ h \ (Outside \cup StackMem(Below) \cup FrameMem(g) \cup lpChildResult.mem)
             \subseteq Losses
    BY <1>3, <2>6, <2>7
  <2>9. /\ Account(Outside, Append(Below, g), lpChildResult, h)
        /\ Loss(Outside, Append(Below, g), lpChildResult, h) \subseteq Losses
    BY ONLY <2>8, AccountAppend
  <2>10. Done(Append(Below, g), lpChildResult, h, "Ok", FALSE)
    BY <2>5, <2>8
  <2> QED
    BY <2>8, <2>9, <2>10, OutcomeOwned
<1>9. CASE k > r /\ OutOfMemory(SetTop(G(SubSeq(bytes, 1, r), {}, onFailure)),
                                lpChildResult, heap, FALSE)
  <2> DEFINE part == SubSeq(bytes, 1, r)
  <2>1. part \in Text /\ Len(part) = r /\ r <= r
    BY <1>1, <1>4, <1>9, Prefix DEF Text
  <2> HIDE DEF part, r
  <2>2. /\ Tidy(G(part, {}, onFailure))
        /\ FrameMem(G(part, {}, onFailure)) = FrameMem(Top)
    BY <1>6, <2>1
  <2> QED
    BY <1>1, <1>9, <2>2, SetTopOwned DEF part, r
<1> QED
  BY <1>7, <1>8, <1>9 DEF PushBytes, Filled

LEMMA StringFinishOwned ==
  ASSUME OwnInv, Handling("String"), String_Finish(Top)
  PROVE  OwnStep
<1> DEFINE C == lpChildResult.mem
           M == Top.mem
           e == Top.elm
           U == Outside
           B == StackMem(Below)
           v == [str |-> Top.buf, mem |-> {First}]
           h == (heap \cup {First}) \ (C \cup M)
<1>1. /\ Top \in StringFrame /\ Top.type = "String" /\ bByte # None /\ lpStateStack # << >>
      /\ Top.buf \in Text /\ heap \in SUBSET Block
  BY TopOfStack, FrameByType, InCall, RoomInPage DEF OwnInv, KeyInv, NestInv
<1>2. /\ Own(Below) /\ Split(U, B, {e} \cup M, C, heap) /\ e \notin M
      /\ Losses = heap \ (U \cup B \cup ({e} \cup M) \cup C)
  BY <1>1, TopAccount, FrameMemory DEF Tidy
<1>3. CASE CanAlloc(heap) /\ StateStackPop(v, h, FALSE)
  <2> DEFINE rest == h \ {e}
  <2>1. First \in Block /\ First \notin heap
    BY <1>3, FreshIsFree DEF First
  <2>2. v \in Value /\ v.mem = {First} /\ h \in SUBSET Block
    BY <1>1, <2>1, Values
  <2>3. /\ B \cap {First} = {} /\ B \cap U = {} /\ {First} \cap U = {}
        /\ B \cup {First} \cup U \subseteq rest
        /\ rest \ (U \cup B \cup {First}) \subseteq Losses
    <3> HIDE DEF C, M, e, U, B
    <3> QED
      BY <1>2, <2>1 DEF Split
  <2> HIDE DEF v, h
  <2>4. PopAccount(v, rest)
    BY <1>2, <2>2, <2>3 DEF PopAccount, Account, Loss
  <2> QED
    BY <1>1, <1>3, <2>2, <2>4, PopOwned
<1> QED
  BY <1>3, StayOwned DEF String_Finish

LEMMA OneByte ==
  /\ \A b \in Octet : <<b>> \in Text /\ Len(<<b>>) <= 3
  /\ \A b \in DOMAIN Unescaped : Unescaped[b] \in Octet
<1>1. \A b \in Octet : <<b>> \in Text /\ Len(<<b>>) <= 3
  BY DEF Text
<1>2. \A b \in DOMAIN Unescaped : Unescaped[b] \in Octet
  BY DEF Unescaped, Octet, Quote, Backslash, Slash
<1> QED
  BY <1>1, <1>2

LEMMA StringOwned ==
  ASSUME OwnInv, String_ProcessByte
  PROVE  OwnStep
<1>1. /\ Handling("String") /\ Top \in StringFrame /\ Top.type = "String" /\ TypeInv
      /\ bByte # None /\ lpStateStack # << >> /\ bByte \in Octet
  BY TopOfStack, FrameByType, InCall DEF String_ProcessByte, OwnInv, KeyInv, NestInv
<1>2. \A bytes \in Text : \A s : Len(bytes) <= 3 /\ PushBytes(Top, bytes, s) => OwnStep
  BY <1>1, PushBytesOwned
<1>3. ASSUME NEW g, g.type = "String", g.elm = Top.elm, g.mem = Top.mem, g.buf = Top.buf
      PROVE  Accept(SetTop(g)) => OwnStep
  BY <1>1, <1>3, TopAccount, SameMemory, SetTopOwned
<1>4. CASE String_Normal(Top)
  <2> DEFINE g == [Top EXCEPT !.state = "Escaped"]
  <2>1. g.type = "String" /\ g.elm = Top.elm /\ g.mem = Top.mem /\ g.buf = Top.buf
    BY <1>1 DEF StringFrame
  <2> HIDE DEF g
  <2>2. Accept(SetTop(g)) => OwnStep
    BY <1>3, <2>1
  <2> QED
    BY <1>1, <1>2, <1>4, <2>2, OneByte, StringFinishOwned DEF String_Normal, g
<1>5. CASE String_Escaped(Top)
  <2> DEFINE g == StartCodepoint(Top)
  <2>1. g.type = "String" /\ g.elm = Top.elm /\ g.mem = Top.mem /\ g.buf = Top.buf
    BY <1>1 DEF StringFrame, StartCodepoint
  <2> HIDE DEF g
  <2>2. Accept(SetTop(g)) => OwnStep
    BY <1>3, <2>1
  <2> QED
    BY <1>2, <1>5, <2>2, OneByte, StayOwned DEF String_Escaped, g
<1>6. CASE Top.state = "UTF16Codepoint" /\ String_UTF16Codepoint(Top)
  <2> DEFINE g == [Top EXCEPT !.dwUBytes = Top.dwUBytes + 1,
                              !.dwUCodepoint = Top.dwUCodepoint * 16 + HexValue(bByte)]
  <2>1. g.type = "String" /\ g.elm = Top.elm /\ g.mem = Top.mem /\ g.buf = Top.buf
    BY <1>1 DEF StringFrame
  <2>2. \/ Reject
        \/ Accept(SetTop(g))
        \/ bByte \in HexDigit /\ PushBytes(g, Utf8(g.dwUCodepoint), "UTF16Codepoint")
    BY <1>6 DEF String_UTF16Codepoint
  <2>3. bByte \in HexDigit => g \in StringFrame
    BY <1>1, <1>6, CodepointStep
  <2> HIDE DEF g
  <2>4. CASE bByte \in HexDigit /\ PushBytes(g, Utf8(g.dwUCodepoint), "UTF16Codepoint")
    <3>1. g \in StringFrame /\ g.dwUCodepoint \in CodeUnit
      BY <2>3, <2>4 DEF StringFrame
    <3>2. Utf8(g.dwUCodepoint) \in Text /\ Len(Utf8(g.dwUCodepoint)) <= 3
      <4>1. Utf8(g.dwUCodepoint) \in Text /\ Len(Utf8(g.dwUCodepoint)) \in 1 .. 3
        BY <3>1, Utf8Bytes
      <4>2. \A j \in 1 .. 3 : j <= 3
        OBVIOUS
      <4> QED
        BY ONLY <4>1, <4>2
    <3> QED
      BY <1>1, <2>1, <2>4, <3>1, <3>2, PushBytesOwned
  <2> QED
    BY <1>3, <2>1, <2>2, <2>4, StayOwned
<1> QED
  BY <1>4, <1>5, <1>6 DEF String_ProcessByte

LEMMA NumberOwned ==
  ASSUME OwnInv, Number_ProcessByte
  PROVE  OwnStep
<1> DEFINE next == NumberNext(Top.state, bByte)
           g == [Top EXCEPT !.state = next]
           C == lpChildResult.mem
           U == Outside
           B == StackMem(Below)
           e == Top.elm
<1>1. /\ Handling("Number") /\ Top \in NumberFrame /\ TypeInv
      /\ bByte # None /\ lpStateStack # << >> /\ Top.type = "Number"
      /\ heap \in SUBSET Block
  BY TopOfStack, FrameByType, InCall DEF Number_ProcessByte, OwnInv, KeyInv, NestInv
<1>2. FrameMem(g) = FrameMem(Top) /\ Tidy(g)
  <2>1. g.type = "Number" /\ g.elm = Top.elm
    BY <1>1 DEF NumberFrame
  <2> QED
    BY <1>1, <2>1, TopAccount, SameMemory
<1>3. /\ Own(Below) /\ Split(U, B, {e}, C, heap)
      /\ Losses = heap \ (U \cup B \cup {e} \cup C)
      /\ Below \in Seq(Frame) /\ lpStateStack = Append(Below, Top)
      /\ Tidy(Top) /\ FrameMem(Top) = {e}
      /\ callback /\ ~oom => C = {}
  BY <1>1, TopAccount, FrameMemory
<1>4. \/ Accept(SetTop(g))
      \/ CanAlloc(heap) /\ StateStackPop(Leaf(First), heap \cup {First}, TRUE)
      \/ OutOfMemory(lpStateStack, NoValue, heap, FALSE)
      \/ Reject
  BY DEF Number_ProcessByte, Number_Finish
<1> HIDE DEF g
<1>5. CASE CanAlloc(heap) /\ StateStackPop(Leaf(First), heap \cup {First}, TRUE)
  <2> DEFINE h == heap \cup {First}
             rest == h \ {e}
  <2>1. First \in Block /\ First \notin heap
    BY <1>5, FreshIsFree DEF First
  <2>2. Leaf(First) \in Value /\ Leaf(First).mem = {First} /\ h \in SUBSET Block
    BY <1>1, <2>1, Values DEF Leaf
  <2>3. /\ B \cap {First} = {} /\ B \cap U = {} /\ {First} \cap U = {}
        /\ B \cup {First} \cup U \subseteq rest
        /\ C = {} => rest \ (U \cup B \cup {First}) \subseteq Losses
    <3> HIDE DEF U, B, C, e
    <3> QED
      BY <1>3, <2>1 DEF Split
  <2>4. StateStackPop(Leaf(First), h, TRUE)
    BY <1>5
  <2> HIDE DEF h
  <2>5. PopAccount(Leaf(First), rest)
    BY <1>3, <2>2, <2>3 DEF PopAccount, Account, Loss
  <2> QED
    BY <1>1, <2>2, <2>4, <2>5, PopOwned
<1>6. CASE OutOfMemory(lpStateStack, NoValue, heap, FALSE)
  <2>1. Split(U, B, FrameMem(Top), NoValue.mem, heap)
    BY <1>3 DEF Split, NoValue
  <2>2. Account(Outside, Append(Below, Top), NoValue, heap)
    BY <1>3, <2>1, AccountAppend
  <2> QED
    BY <1>3, <1>6, <2>2, OutcomeOwned
<1> QED
  BY <1>1, <1>2, <1>4, <1>5, <1>6, SetTopOwned, StayOwned

(* An object is complete where its key is not held, so nothing is forgotten. *)
LEMMA ContainerFinishOwned ==
  ASSUME OwnInv, bByte # None, lpStateStack # << >>,
         Top \in ObjectFrame \cup ArrayFrame,
         Top.type = "Object" => Top.state \in {"ExpectKey", "ReadObject"},
         Container_Finish(Top)
  PROVE  OwnStep
<1> DEFINE v == [str |-> <<>>, mem |-> Top.mem]
           C == lpChildResult.mem
           U == Outside
           B == StackMem(Below)
           M == Top.mem
           e == Top.elm
<1>1. /\ lpStateStack \in Seq(Frame) /\ heap \in SUBSET Block /\ Nest(lpStateStack)
      /\ OpenKey(Top)
  BY KeysInCall, InCall DEF OwnInv, KeyInv, NestInv
<1>2. Top.type \in {"Object", "Array"} /\ M \in SUBSET Block
  BY DEF ObjectFrame, ArrayFrame
<1>3. M # {}
  <2>1. Len(lpStateStack) \in 1 .. Len(lpStateStack)
    BY <1>1, EmptySeq
  <2> QED
    BY <1>1, <1>2, <2>1 DEF Nest, Sound, Top
<1>4. FrameMem(Top) = {e} \cup M /\ e \notin M
  <2>1. Tidy(Top)
    BY TopAccount
  <2>2. Top.type = "Object" => Top.lpCurrentKey.mem = {}
    BY <1>1 DEF OpenKey
  <2> QED
    BY <1>2, <2>1, <2>2, FrameMemory DEF Tidy
<1>5. /\ Own(Below) /\ Split(U, B, {e} \cup M, C, heap)
      /\ Losses = heap \ (U \cup B \cup ({e} \cup M) \cup C)
      /\ callback /\ ~oom => C = {}
  BY <1>4, TopAccount
<1>6. v \in Value /\ v.mem = M
  BY <1>2, Values
<1>7. StateStackPop(v, heap, FALSE)
  BY DEF Container_Finish
<1> HIDE DEF v
<1>8. /\ B \cap M = {} /\ B \cap U = {} /\ M \cap U = {}
      /\ B \cup M \cup U \subseteq heap \ {e}
      /\ C = {} => (heap \ {e}) \ (U \cup B \cup M) \subseteq Losses
  <2> HIDE DEF U, B, C, M, e
  <2> QED
    BY <1>4, <1>5 DEF Split
<1>9. PopAccount(v, heap \ {e})
  BY <1>5, <1>6, <1>8 DEF PopAccount, Account, Loss
<1> QED
  BY <1>1, <1>3, <1>6, <1>7, <1>9, PopOwned

LEMMA ObjectOwned ==
  ASSUME OwnInv, Object_ProcessByte
  PROVE  OwnStep
<1>1. /\ bByte # None /\ lpStateStack # << >> /\ Top \in ObjectFrame /\ Top.type = "Object"
      /\ Below \in Seq(Frame) /\ \A g : SetTop(g) = Append(Below, g)
  BY TopOfStack, FrameByType, TopAccount DEF Object_ProcessByte, OwnInv, KeyInv, NestInv
<1>2. ASSUME NEW s \in {"ExpectKey", "ReadKey", "ExpectObject", "ReadObject"}
      PROVE  LET g == [Top EXCEPT !.state = s]
             IN /\ Accept(SetTop(g)) => OwnStep
                /\ StartValue(SetTop(g), bByte) \/ String_Push(SetTop(g)) => OwnStep
  <2> DEFINE g == [Top EXCEPT !.state = s]
  <2>1. /\ g \in ObjectFrame /\ g.type = "Object" /\ g.elm = Top.elm /\ g.mem = Top.mem
        /\ g.entries = Top.entries /\ g.lpCurrentKey = Top.lpCurrentKey
    BY <1>1 DEF ObjectFrame
  <2> HIDE DEF g
  <2>2. Tidy(g) /\ FrameMem(g) = FrameMem(Top)
    BY <1>1, <2>1, TopAccount, SameMemory
  <2>3. SetTop(g) \in Seq(Frame)
    BY <1>1, <2>1, SubFrames, AppendProperties
  <2>4. /\ Account(Outside, SetTop(g), lpChildResult, heap)
        /\ Loss(Outside, SetTop(g), lpChildResult, heap) = Losses
    BY <1>1, <2>2, SameTop
  <2>5. StartValue(SetTop(g), bByte) \/ String_Push(SetTop(g)) => OwnStep
    BY <1>1, <2>3, <2>4, PushOwned
  <2>6. Accept(SetTop(g)) => OwnStep
    BY <1>1, <2>2, SetTopOwned
  <2> QED
    BY <2>5, <2>6 DEF g
<1>3. Top.state \in {"ExpectKey", "ReadObject"} /\ Container_Finish(Top) => OwnStep
  BY <1>1, ContainerFinishOwned
<1>4. CASE Top.state = "ExpectKey" /\ Object_ExpectKey(Top)
  BY <1>2, <1>3, <1>4, StayOwned DEF Object_ExpectKey, AwaitKey
<1>5. CASE Top.state = "ReadKey" /\ Object_ReadKey(Top)
  BY <1>2, <1>5, StayOwned DEF Object_ReadKey
<1>6. CASE Top.state = "ExpectObject" /\ Object_ExpectObject(Top)
  BY <1>2, <1>6, StayOwned DEF Object_ExpectObject
<1>7. CASE Top.state = "ReadObject" /\ Object_ReadObject(Top)
  BY <1>2, <1>3, <1>7, StayOwned DEF Object_ReadObject
<1> QED
  BY <1>4, <1>5, <1>6, <1>7 DEF Object_ProcessByte

LEMMA ArrayOwned ==
  ASSUME OwnInv, Array_ProcessByte
  PROVE  OwnStep
<1>1. /\ bByte # None /\ lpStateStack # << >> /\ Top \in ArrayFrame /\ Top.type = "Array"
      /\ Below \in Seq(Frame) /\ \A g : SetTop(g) = Append(Below, g)
  BY TopOfStack, FrameByType, TopAccount DEF Array_ProcessByte, OwnInv, KeyInv, NestInv
<1>2. ASSUME NEW s \in {"NoComma", "GotComma"}
      PROVE  LET g == [Top EXCEPT !.state = s]
             IN /\ Accept(SetTop(g)) => OwnStep
                /\ StartValue(SetTop(g), bByte) => OwnStep
  <2> DEFINE g == [Top EXCEPT !.state = s]
  <2>1. g \in ArrayFrame /\ g.type = "Array" /\ g.elm = Top.elm /\ g.mem = Top.mem
    BY <1>1 DEF ArrayFrame
  <2> HIDE DEF g
  <2>2. Tidy(g) /\ FrameMem(g) = FrameMem(Top)
    BY <1>1, <2>1, TopAccount, SameMemory
  <2>3. SetTop(g) \in Seq(Frame)
    BY <1>1, <2>1, SubFrames, AppendProperties
  <2>4. /\ Account(Outside, SetTop(g), lpChildResult, heap)
        /\ Loss(Outside, SetTop(g), lpChildResult, heap) = Losses
    BY <1>1, <2>2, SameTop
  <2>5. StartValue(SetTop(g), bByte) => OwnStep
    BY <1>1, <2>3, <2>4, PushOwned
  <2>6. Accept(SetTop(g)) => OwnStep
    BY <1>1, <2>2, SetTopOwned
  <2> QED
    BY <2>5, <2>6 DEF g
<1>3. Container_Finish(Top) => OwnStep
  BY <1>1, ContainerFinishOwned
<1> QED
  BY <1>2, <1>3, StayOwned DEF Array_ProcessByte

-----------------------------------------------------------------------------
(* The client. *)
LEMMA CreateOwned ==
  ASSUME OwnInv, NEW c \in Config, cjsonParserCreate(c)
  PROVE  OwnStep
<1>1. /\ lpParser = {} /\ lpStateStack = << >> /\ lpChildResult = NoValue
      /\ lpStateStack' = << >> /\ lpChildResult' = NoValue /\ documents' = documents
      /\ NoValue.mem = {}
  BY DEF cjsonParserCreate, OwnInv, KeyInv, ParserGone, NoValue
<1>2. /\ Outside \subseteq heap /\ Losses = heap \ Outside
  BY <1>1, AccountEmpty DEF OwnInv, Losses
<1>3. \/ lpParser' = lpParser /\ heap' = heap
      \/ CanAlloc(heap) /\ lpParser' = {First} /\ heap' = heap \cup {First}
  BY DEF cjsonParserCreate
<1>4. /\ Outside' = Outside \cup lpParser' /\ Outside' \subseteq heap'
      /\ heap' \ Outside' \subseteq heap \ Outside
  <2>1. Outside' = Outside \cup lpParser'
    BY <1>1 DEF Outside
  <2> QED
    BY <1>1, <1>2, <1>3, <2>1
<1>5. DocumentsApart'
  <2>1. \A d \in documents : d \cap lpParser' = {}
    <3>1. \A d \in documents : d \subseteq heap
      BY <1>2 DEF Outside
    <3> QED
      BY <1>1, <1>3, <3>1, FreshIsFree DEF First
  <2> QED
    BY <1>1, <2>1 DEF DocumentsApart, OwnInv
<1>6. Account(Outside', << >>, NoValue, heap')
      /\ Loss(Outside', << >>, NoValue, heap') = heap' \ Outside'
  BY <1>1, <1>4, AccountEmpty
<1> QED
  BY <1>1, <1>2, <1>4, <1>5, <1>6 DEF OwnStep, Losses

LEMMA ReleaseOwned ==
  ASSUME OwnInv, cjsonParserRelease
  PROVE  OwnStep
<1> DEFINE S == StackMem(lpStateStack)
           C == lpChildResult.mem
           D == UNION documents
<1>1. /\ S \cap C = {} /\ S \cap Outside = {} /\ C \cap Outside = {}
      /\ S \cup C \cup Outside \subseteq heap
      /\ Losses = heap \ (Outside \cup S \cup C)
  BY DEF OwnInv, Account, Losses, Loss
<1>2. Outside = lpParser \cup D /\ lpParser \cap D = {}
  BY DEF OwnInv, DocumentsApart, Outside
<1>3. ParserMem = lpParser \cup C \cup S
  BY DEF ParserMem, StackMem
<1>4. /\ heap' = heap \ (lpParser \cup C \cup S) /\ lpParser' = {} /\ documents' = documents
      /\ lpStateStack' = << >> /\ lpChildResult' = NoValue /\ callback' = FALSE
      /\ NoValue.mem = {}
  BY <1>3 DEF cjsonParserRelease, NoValue
<1>5. Outside' = D /\ DocumentsApart'
  BY <1>4 DEF Outside, DocumentsApart, OwnInv
<1>6. D \subseteq heap' /\ heap' \ D \subseteq Losses
  <2> HIDE DEF S, C, D
  <2> QED
    BY <1>1, <1>2, <1>4
<1>7. Account(D, << >>, NoValue, heap') /\ Loss(D, << >>, NoValue, heap') = heap' \ D
  BY <1>4, <1>6, AccountEmpty
<1> QED
  BY <1>4, <1>5, <1>6, <1>7 DEF OwnStep, Losses

LEMMA ReleaseValueOwned ==
  ASSUME OwnInv, NEW d \in documents, cjsonReleaseValue(d)
  PROVE  OwnStep
<1> DEFINE S == StackMem(lpStateStack)
           C == lpChildResult.mem
           rest == UNION (documents \ {d})
<1>1. /\ Own(lpStateStack)
      /\ S \cap C = {} /\ S \cap Outside = {} /\ C \cap Outside = {}
      /\ S \cup C \cup Outside \subseteq heap
      /\ Losses = heap \ (Outside \cup S \cup C)
  BY DEF OwnInv, Account, Losses, Loss
<1>2. /\ Outside = lpParser \cup d \cup rest
      /\ d \cap lpParser = {} /\ d \cap rest = {}
  BY DEF OwnInv, DocumentsApart, Outside
<1>3. /\ heap' = heap \ d /\ documents' = documents \ {d} /\ lpParser' = lpParser
      /\ lpStateStack' = lpStateStack /\ lpChildResult' = lpChildResult
      /\ callback' = callback /\ oom' = oom
  BY DEF cjsonReleaseValue
<1>4. Outside' = lpParser \cup rest
  BY <1>3 DEF Outside
<1>5. DocumentsApart'
  BY <1>3 DEF DocumentsApart, OwnInv
<1>6. /\ S \cap Outside' = {} /\ C \cap Outside' = {}
      /\ S \cup C \cup Outside' \subseteq heap'
      /\ heap' \ (Outside' \cup S \cup C) \subseteq Losses
  <2> HIDE DEF S, C, rest
  <2> QED
    BY <1>1, <1>2, <1>3, <1>4
<1>7. Account(Outside, lpStateStack, lpChildResult, heap)'
      /\ Losses' = heap' \ (Outside' \cup S \cup C)
  BY <1>1, <1>3, <1>6 DEF Account, Losses, Loss
<1> QED
  BY <1>3, <1>5, <1>6, <1>7 DEF OwnStep, OwnInv

-----------------------------------------------------------------------------
(* The specification. *)
LEMMA InitOwned ==
  ASSUME Init
  PROVE  OwnInv
<1>1. KeyInv
  BY InitKeys
<1>2. /\ lpStateStack = << >> /\ lpChildResult.mem = {} /\ heap = {} /\ Outside = {}
      /\ documents = {}
  BY DEF Init, NoValue, Outside
<1>3. Account(Outside, lpStateStack, lpChildResult, heap)
  BY <1>2, AccountEmpty
<1> QED
  BY <1>1, <1>2, <1>3 DEF OwnInv, DocumentsApart

LEMMA StepOwned ==
  ASSUME OwnInv, [Next]_vars
  PROVE  OwnStep
<1>1. ASSUME NEW b \in Byte, cjsonParserProcessByte(b) PROVE OwnStep
  <2>1. UNCHANGED <<lpParser, callback, lpStateStack, lpChildResult, heap, documents, oom>>
    BY <1>1 DEF cjsonParserProcessByte
  <2> QED
    BY <2>1 DEF OwnStep, OwnInv, Account, DocumentsApart, Losses, Loss, Outside
<1>2. ASSUME UNCHANGED vars PROVE OwnStep
  BY <1>2 DEF vars, OwnStep, OwnInv, Account, DocumentsApart, Losses, Loss, Outside
<1>3. ASSUME ProcessOne PROVE OwnStep
  BY <1>3, UniverseOwned, ConstantOwned, StringOwned, NumberOwned, ObjectOwned, ArrayOwned
     DEF ProcessOne
<1> QED
  BY <1>1, <1>2, <1>3, CreateOwned, ReleaseOwned, ReleaseValueOwned DEF Next

LEMMA StepOwnInv ==
  ASSUME OwnInv, [Next]_vars
  PROVE  OwnInv'
<1>1. KeyInv'
  BY StepKeys DEF OwnInv
<1>2. OwnStep
  BY StepOwned
<1> QED
  BY <1>1, <1>2 DEF OwnInv, OwnStep

LEMMA OwnInvHolds == Spec => []OwnInv
<1>1. Init => OwnInv
  BY InitOwned
<1>2. OwnInv /\ [Next]_vars => OwnInv'
  BY StepOwnInv
<1> QED
  BY <1>1, <1>2, PTL DEF Spec

(* No dangling pointer, no double free: whatever the text, the failing       *)
(* allocations and the answers of the callback, every block the parser, its  *)
(* stack, its child result or a document of the client refers to is          *)
(* allocated, and no two of them refer to the same block.                    *)
THEOREM NothingDangles == Spec => []NoDangling
<1>1. OwnInv => NoDangling
  BY AccountSafe DEF OwnInv
<1> QED
  BY <1>1, OwnInvHolds, PTL

(* With a document callback and as long as no allocation fails, no step of   *)
(* the parser or of its client loses a block: a text may be rejected or      *)
(* abandoned anywhere and cjsonParserRelease still frees everything.         *)
THEOREM NothingLeaks == Spec => LeakFree
<1>1. OwnInv /\ [Next]_vars => (callback /\ ~oom' => Losses' \subseteq Losses)
  BY StepOwned DEF OwnStep
<1>2. Lost = Losses
  BY LostIsLoss DEF Losses
<1>3. Lost = Losses /\ (Lost = Losses)' /\ (callback /\ ~oom' => Losses' \subseteq Losses)
        => [callback /\ ~oom' => Lost' \subseteq Lost]_vars
  OBVIOUS
<1> QED
  BY <1>1, <1>2, <1>3, OwnInvHolds, PTL DEF Spec, LeakFree

(* cjsonParser_BufferChain_PushByte allocates a page when the last one is    *)
(* full and not before, also when the bytes of a \u escape meet the end of a *)
(* page and the new one cannot be allocated.                                 *)
THEOREM PagesAreExact == Spec => []PagesExact
<1>1. OwnInv => PagesExact
  BY DEF OwnInv, Account, Own, Tidy, Paged, Pages, PagesExact
<1> QED
  BY <1>1, OwnInvHolds, PTL

=============================================================================
