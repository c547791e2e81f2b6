---------------------------- MODULE CjsonValues ----------------------------
(***************************************************************************)
(* The values a client builds, reads, changes and releases: cjsonObject.c, *)
(* cjsonArray.c, the scalars of cjsonString.c, cjsonNumber.c and           *)
(* cjsonBoolNull.c, and cjsonReleaseValue of cjson.c.  A call is one step: *)
(* nothing of the library runs between its parts.                          *)
(*                                                                         *)
(* The client keeps the rules of ownership: it stores only values it owns, *)
(* and not a value in itself; what it has stored belongs to the container. *)
(* A value is named by its block; the entries of members and the pages of  *)
(* arrays have no names, they are counted.                                 *)
(***************************************************************************)
EXTENDS Integers, Sequences, FiniteSets, FiniteSetsExt, SequencesExt

CONSTANTS
  Block, NULL,    \* the memory for values, and the pointer to nothing
  MaxCells,       \* the memory for entries and pages
  Key,            \* keys of members
  BucketCount,    \* CJSON_BLOCKSIZE_OBJECT
  PageSize,       \* CJSON_BLOCKSIZE_ARRAY
  Created,        \* the values it creates, each with its lpSystem argument
  MaxOwned,       \* bound: values the client owns at a time
  MaxContainers,  \* bound: containers at a time
  MaxLength,      \* bound: elements of an array
  AllocMayFail    \* may an allocation fail before the pool is exhausted?

System   == {"libc", "pool"}    \* lpSystem: NULL, or an allocator of the client
Constant == {"True", "False", "Null"}
Numeric  == {"UnsignedLong", "SignedLong", "Double"}
Refusal  == {"OutOfMemory", "IndexOutOfBounds", "InvalidParam"}   \* enum cjsonError
Scalar   == Constant \cup Numeric \cup {"String"}

ASSUME ValuesAssumption ==
  /\ IsFiniteSet(Block) /\ NULL \notin Block /\ MaxCells \in Nat
  /\ BucketCount \in Nat \ {0} /\ PageSize \in Nat \ {0}
  /\ Created \subseteq (Scalar \cup {"Object", "Array"}) \X System
  /\ MaxOwned \in Nat /\ MaxContainers \in Nat /\ MaxLength \in Nat /\ AllocMayFail \in BOOLEAN

VARIABLES
  heap,           \* the allocated blocks, and the allocator each came from
  values,         \* the value in each
  cells,          \* the entries and pages allocated by each allocator
  owned,          \* the values the client owns
  hash,           \* the bucket of each key
  ended,          \* has the process been ended by an invalid access?
  misfreed        \* history: types with a block freed by the wrong allocator

vars == <<heap, values, cells, owned, hash, ended, misfreed>>

(* A value records its type, its allocator and how much room it has. *)
ScalarCell == [type : Scalar, lpSystem : System, room : {"value", "number", "string"}]
Entry      == [key : Key, lpValue : Block]
ObjectCell == [type : {"Object"}, lpSystem : System,
               buckets : [0 .. BucketCount - 1 -> Seq(Entry)]]
Page       == Seq(Block \cup {NULL})
ArrayCell  == [type : {"Array"}, lpSystem : {"libc"}, pages : Seq(Page)]

NoCells == [s \in System |-> 0]
NewScalar(t, s) == [type |-> t, lpSystem |-> s,
                    room |-> IF t \in Numeric THEN "number"
                             ELSE IF t = "String" THEN "string" ELSE "value"]
NewObjectForgetful(s) == [type |-> "Object", lpSystem |-> "libc",  \* mutant
                          buckets |-> [i \in 0 .. BucketCount - 1 |-> <<>>]]
NewObject(s) == [type |-> "Object", lpSystem |-> s,
                 buckets |-> [i \in 0 .. BucketCount - 1 |-> <<>>]]
(* cjsonArray_Create sets lpSystem to NULL whatever it was given. *)
NewArray == [type |-> "Array", lpSystem |-> "libc", pages |-> <<>>]

-----------------------------------------------------------------------------
(* Chains and pages, flattened in the order in which the code walks them.    *)
Chains(o) == FlattenSeq([i \in 1 .. BucketCount |-> values[o].buckets[i - 1]])
Slots(a)  == FlattenSeq(values[a].pages)

Containers(t) == {c \in DOMAIN values : values[c].type = t}
Objects == Containers("Object")
Arrays  == Containers("Array")

Children(c) ==
  CASE values[c].type = "Object" -> {e.lpValue : e \in ToSet(Chains(c))}
    [] values[c].type = "Array"  -> ToSet(Slots(c)) \ {NULL}
    [] OTHER                     -> {}

CellsOf(c) ==
  CASE values[c].type = "Object" -> Len(Chains(c))
    [] values[c].type = "Array"  -> Len(values[c].pages)
    [] OTHER                     -> 0

(* c and the values below it, which cjsonReleaseValue visits. *)
SubtreeRootOnly(c) == {c} \ {NULL}                                \* mutant
Subtree(c) ==
  LET Level[n \in 0 .. Cardinality(Block)] ==
        IF n = 0 THEN {c} \ {NULL}
        ELSE Level[n - 1] \cup UNION {Children(d) : d \in Level[n - 1]}
  IN Level[Cardinality(Block)]

(* cjsonReleaseValue: every entry, page and value of the tree goes to the    *)
(* allocator its value has recorded.                                         *)
CellsWithout(gone) ==
  [s \in DOMAIN cells |->
     cells[s] - MapThenSumSet(CellsOf, {d \in gone : values[d].lpSystem = s})]
Misfreed(gone) == {values[d].type : d \in {x \in gone : heap[x] # values[x].lpSystem}}

Without(f, gone) == [x \in DOMAIN f \ gone |-> f[x]]
With(f, x, y) == [z \in DOMAIN f \cup {x} |-> IF z = x THEN y ELSE f[z]]

Free      == Block \ DOMAIN heap
FreeCells == MaxCells - MapThenSumSet(LAMBDA s : cells[s], DOMAIN cells)
Plus(s, n) == [cells EXCEPT ![s] = @ + n]

Ok == UNCHANGED <<hash, ended>>
(* A call that returns an error has changed nothing. *)
Refuse(error) == error \in Refusal /\ UNCHANGED vars

-----------------------------------------------------------------------------
(* cjsonTrue_Create .. cjsonArray_Create *)
Create(cell, s) ==
  \/ /\ \E b \in Free :
          /\ heap' = With(heap, b, s) /\ values' = With(values, b, cell)
          /\ owned' = owned \cup {b}
     /\ Ok /\ UNCHANGED <<cells, misfreed>>
  \/ (AllocMayFail \/ Free = {}) /\ Refuse("OutOfMemory")

(* What the client may hand to container c: a value of its own around it. *)
Storable(c) == {v \in owned : c \notin Subtree(v)}

(* getHashIndex: any function of the key will do. *)
Bucket(o, k) == values[o].buckets[hash[k]]

(* The entry of k in its bucket, 0 if there is none. *)
FoundHeadOnly(chain, k) ==                                        \* mutant
  IF chain # <<>> /\ chain[1].key = k THEN 1 ELSE 0
Found(chain, k) ==
  IF \E i \in DOMAIN chain : chain[i].key = k
    THEN CHOOSE i \in DOMAIN chain : chain[i].key = k /\ \A j \in 1 .. i - 1 : chain[j].key # k
    ELSE 0

SetBucket(o, k, chain) == [values EXCEPT ![o].buckets[hash[k]] = chain]

(* cjsonObject_Set with a value: a new entry at the end of the chain, or the *)
(* old entry with the new value; then the old value is released before, and  *)
(* the new entry after it.                                                   *)
ReplacedKeepsOld(gone) == heap                                    \* mutant
Replaced(gone) == Without(heap, gone)
cjsonObject_Set(o, k, v) ==
  LET chain == Bucket(o, k)
      i     == Found(chain, k)
  IN \/ /\ FreeCells > 0 /\ i = 0
        /\ values' = SetBucket(o, k, Append(chain, [key |-> k, lpValue |-> v]))
        /\ cells' = Plus(values[o].lpSystem, 1)
        /\ owned' = owned \ {v} /\ Ok /\ UNCHANGED <<heap, misfreed>>
     \/ /\ FreeCells > 0 /\ i # 0
        /\ LET gone == Subtree(chain[i].lpValue)
           IN /\ values' = Without(SetBucket(o, k, [chain EXCEPT ![i].lpValue = v]), gone)
              /\ heap' = Replaced(gone) /\ cells' = CellsWithout(gone)
              /\ misfreed' = misfreed \cup Misfreed(gone)
        /\ owned' = owned \ {v} /\ Ok
     \/ (AllocMayFail \/ FreeCells = 0) /\ Refuse("OutOfMemory")

(* cjsonObject_Set with NULL, to remove a member: nothing happens when the   *)
(* bucket is empty, else the first comparison reads the length of an entry   *)
(* that is NULL, and the process ends.                                       *)
cjsonObject_SetNull(o, k) ==
  \/ Bucket(o, k) = <<>> /\ UNCHANGED vars
  \/ /\ Bucket(o, k) # <<>>
     /\ heap' = <<>> /\ values' = <<>> /\ cells' = NoCells
     /\ owned' = {} /\ misfreed' = {}
     /\ ended' = TRUE /\ UNCHANGED hash

(* cjsonArray_Push: into the last page, or into a new one when it is full.   *)
LastUsed(a) == IF values[a].pages = <<>> THEN PageSize
               ELSE Len(Last(values[a].pages))
PageFullLate(a) == values[a].pages = <<>> \/ LastUsed(a) > PageSize \* mutant
PageFull(a) == LastUsed(a) >= PageSize
cjsonArray_Push(a, v) ==
  LET pages == values[a].pages
      Pushed(new) == /\ values' = [values EXCEPT ![a].pages = new]
                     /\ owned' = owned \ {v} /\ Ok /\ UNCHANGED <<heap, misfreed>>
  IN \/ /\ ~PageFull(a)
        /\ Pushed([pages EXCEPT ![Len(pages)] = Append(@, v)]) /\ UNCHANGED cells
     \/ /\ PageFull(a) /\ FreeCells > 0
        /\ Pushed(Append(pages, <<v>>)) /\ cells' = Plus(values[a].lpSystem, 1)
     \/ PageFull(a) /\ (AllocMayFail \/ FreeCells = 0) /\ Refuse("OutOfMemory")

(* The walk of Get and Set: the page of index idx, and where it begins.      *)
Used(a, p) == Len(values[a].pages[p])
Walk(a, idx) ==
  LET Step[p \in 1 .. Len(values[a].pages)] ==
        IF p = 1 THEN 0 ELSE Step[p - 1] + Used(a, p - 1)
      page == CHOOSE p \in DOMAIN Step : idx < Step[p] + Used(a, p) /\
                \A q \in 1 .. p - 1 : idx >= Step[q] + Used(a, q)
  IN [page |-> page, base |-> Step[page]]

Length(a) == Len(Slots(a))     \* dwElementCount

(* What the reading calls answer: NULL stands for cjsonE_IndexOutOfBounds    *)
(* where no member has the value NULL.                                        *)
cjsonObject_Get(o, k) ==
  LET i == Found(Bucket(o, k), k) IN IF i = 0 THEN NULL ELSE Bucket(o, k)[i].lpValue
cjsonObject_Iterate(o) == Chains(o)
cjsonArray_Get(a, idx) ==
  LET at == Walk(a, idx) IN values[a].pages[at.page][idx - at.base + 1]
cjsonArray_Iterate(a) == Slots(a)

(* cjsonArray_Set: the slot takes the new value, then the old one is released. *)
cjsonArray_Set(a, idx, v) ==
  \/ idx >= Length(a) /\ Refuse("IndexOutOfBounds")
  \/ /\ idx < Length(a)
     /\ LET at   == Walk(a, idx)
            gone == Subtree(values[a].pages[at.page][idx - at.base + 1])
        IN /\ values' = Without([values EXCEPT ![a].pages[at.page][idx - at.base + 1] = v],
                                gone)
           /\ heap' = Without(heap, gone) /\ cells' = CellsWithout(gone)
           /\ misfreed' = misfreed \cup Misfreed(gone)
     /\ owned' = owned \ {v} /\ Ok

(* cjsonBoolean_Set and cjsonNumber_Set*: the type changes in place. *)
cjsonBoolean_Set(b, t) ==
  IF values[b].type \in {"True", "False"}
    THEN /\ values' = [values EXCEPT ![b].type = t]
         /\ Ok /\ UNCHANGED <<heap, cells, owned, misfreed>>
    ELSE Refuse("InvalidParam")
IsNumeric(b) == values[b].type \in Numeric
cjsonNumber_Set(b, t) ==
  IF IsNumeric(b)
    THEN /\ values' = [values EXCEPT ![b].type = t]
         /\ Ok /\ UNCHANGED <<heap, cells, owned, misfreed>>
    ELSE Refuse("InvalidParam")

cjsonReleaseValue(v) ==
  /\ heap' = Without(heap, Subtree(v)) /\ values' = Without(values, Subtree(v))
  /\ cells' = CellsWithout(Subtree(v))
  /\ owned' = owned \ {v} /\ misfreed' = misfreed \cup Misfreed(Subtree(v))
  /\ Ok

Init == /\ heap = <<>> /\ values = <<>> /\ cells = NoCells /\ owned = {} /\ misfreed = {} /\ ended = FALSE
        /\ hash \in [Key -> 0 .. BucketCount - 1]

NewValue(t, s) == CASE t = "Object" -> NewObject(s)
                    [] t = "Array"  -> NewArray
                    [] OTHER        -> NewScalar(t, s)
Build ==
  /\ Cardinality(owned) < MaxOwned
  /\ \E c \in Created :
       /\ c[1] \in Scalar \/ Cardinality(Objects \cup Arrays) < MaxContainers
       /\ Create(NewValue(c[1], c[2]), c[2])
UseObject ==
  \E o \in Objects, k \in Key :
    (\E v \in Storable(o) : cjsonObject_Set(o, k, v)) \/ cjsonObject_SetNull(o, k)
UseArray ==
  \E a \in Arrays :
    \/ Length(a) < MaxLength /\ \E v \in Storable(a) : cjsonArray_Push(a, v)
    \/ \E idx \in 0 .. Length(a), v \in Storable(a) \cup {NULL} : cjsonArray_Set(a, idx, v)
UseScalar ==
  \E b \in DOMAIN values :
    \/ \E t \in {"True", "False"} : cjsonBoolean_Set(b, t)
    \/ \E t \in Numeric : cjsonNumber_Set(b, t)
Release == \E v \in owned : cjsonReleaseValue(v)

Next == ~ended /\ (Build \/ UseObject \/ UseArray \/ UseScalar \/ Release)

Spec == Init /\ [][Next]_vars

-----------------------------------------------------------------------------
(* Every block and value is of its type; only the last page of an array has  *)
(* room left, none is empty, and a number has room for its payload.          *)
CellOK(cell) ==
  CASE cell.type = "Object" -> cell \in ObjectCell
    [] cell.type = "Array" ->
         /\ cell \in ArrayCell
         /\ \A p \in DOMAIN cell.pages :
              Len(cell.pages[p]) \in
                IF p = Len(cell.pages) THEN 1 .. PageSize ELSE {PageSize}
    [] OTHER -> cell \in ScalarCell /\ (cell.type \in Numeric => cell.room = "number")
TypeOK ==
  /\ cells \in [System -> 0 .. MaxCells]
  /\ DOMAIN heap \subseteq Block /\ \A b \in DOMAIN heap : heap[b] \in System
  /\ DOMAIN values \subseteq Block /\ \A c \in DOMAIN values : CellOK(values[c])
  /\ owned \subseteq DOMAIN values /\ hash \in [Key -> 0 .. BucketCount - 1]
  /\ ended \in BOOLEAN
  /\ misfreed \subseteq Scalar \cup {"Object", "Array"}

(* Objects are maps and arrays are sequences that own what they hold: bucket *)
(* chains, pages and blocks implement the containers of ValueStore.          *)
Members(o) == [k \in {e.key : e \in ToSet(Chains(o))} |->
                 (CHOOSE e \in ToSet(Chains(o)) : e.key = k).lpValue]
Content == [c \in Objects \cup Arrays |->
              [kind |-> values[c].type,
               items |-> IF c \in Objects THEN Members(c) ELSE Slots(c)]]
Store == INSTANCE ValueStore WITH Id <- Block, Null <- NULL, content <- Content
Implements == Store!Spec

(* Every allocated block is a value with exactly one owner, the client or    *)
(* one slot of one container, and each entry and page is in use: whatever is *)
(* replaced, refused or released, nothing is lost and nothing is freed twice *)
(* or left dangling (cjsonObject_Set, cjsonArray_Set, cjsonReleaseValue).     *)
Held(c) == IF c \in Objects THEN [i \in DOMAIN Chains(c) |-> Chains(c)[i].lpValue]
           ELSE IF c \in Arrays THEN [i \in {j \in DOMAIN Slots(c) : Slots(c)[j] # NULL} |-> Slots(c)[i]]
           ELSE <<>>
Ownership ==
  /\ DOMAIN heap = DOMAIN values
  /\ DOMAIN values = owned \cup UNION {Children(c) : c \in DOMAIN values}
  /\ \A c \in DOMAIN values :
       /\ IsInjective(Held(c)) /\ Children(c) \cap owned = {}
       /\ \A d \in DOMAIN values \ {c} : Children(c) \cap Children(d) = {}
  /\ cells = [s \in DOMAIN cells |->
       MapThenSumSet(CellsOf, {c \in DOMAIN values : values[c].lpSystem = s})]

(* The three ways to read a container agree: a key is found by its bucket    *)
(* exactly when iterating meets it, once; an index is found by walking the   *)
(* pages where iterating counts it (cjsonArray_Get, cjsonObject_Get).        *)
ReadsAgree ==
  /\ \A o \in Objects, k \in Key :
       LET met == {i \in DOMAIN cjsonObject_Iterate(o) : cjsonObject_Iterate(o)[i].key = k}
       IN IF cjsonObject_Get(o, k) = NULL THEN met = {}
          ELSE \E i \in met : met = {i} /\ cjsonObject_Iterate(o)[i].lpValue = cjsonObject_Get(o, k)
  /\ \A a \in Arrays : \A idx \in 0 .. Length(a) - 1 :
       cjsonArray_Get(a, idx) = cjsonArray_Iterate(a)[idx + 1]

(* Every block goes back to the allocator it came from, but those of arrays, *)
(* which do not record theirs (cjsonArray_Create).                           *)
AllocatorsMatchButArrays == misfreed \subseteq {"Array"}

(* Removing a member, by storing NULL at its key, is survived.               *)
RemovalSurvives == ~ended
=============================================================================
