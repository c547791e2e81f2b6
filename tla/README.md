# A verification development for libcjson

libcjson is a C99 library that parses JSON one byte at a time into a tree of
values and writes such a tree back through a callback.  This directory holds
TLA+ models of it, TLC configurations that check them on small instances, and
TLAPS proofs for every instance.  Paths below are those of the repository.

## The system

| component | code | state it keeps | operations | interacts with |
|---|---|---|---|---|
| parser | `src/cjsonParser.c` | a stack of elements, one per open value, each a small automaton; the result of the last finished child; the flags | `cjsonParserCreate`, `_ProcessByte`, `_Release` | pushes and pops elements, stores children into arrays and objects, calls the client's document callback |
| buffer chain | `src/cjsonParser.c` | pages of a growing string | init, push a byte, copy out, release | the string element |
| object | `src/cjsonObject.c` | a hash table of key/value entries | create, set, get, has, iterate | owns its values |
| array | `src/cjsonArray.c` | linked pages of values | create, push, get, set, length, iterate | owns its values |
| string, number, constants | `src/cjsonString.c`, `cjsonNumber.c`, `cjsonBoolNull.c` | one immutable or scalar value | create, get, set, convert | |
| release | `src/cjson.c` | none | `cjsonReleaseValue` | frees a whole tree |
| serializer | `src/cjsonSerializer.c` | a stack of elements, how much of each has been written | create, serialize, continue, release | reads the tree, calls the client's write callback |
| client | `tests/`, `README.md` | the documents it received | feeds, stops at the first error, releases | everything above |

There are no threads, no files and no messages.  What is hard here is the order
in which one call's steps fall, and where they may fail:

* a value is finished by a *pop* that notifies the element below, which may
  allocate, fail, call back into the client, or finish nothing;
* a number ends with the byte **after** it, so that byte is *redelivered* to the
  parent inside the same call, after whatever the pop did;
* every allocation may fail, in the middle of a push, of a string's encoding or
  of a hand-over between two owners of the same block;
* the client may walk away (release the parser) between any two bytes;
* the serializer can be stopped by its callback after any byte and resumed, from
  nothing but the fields of its stack elements;
* values change owner at every store, and go back to the allocator they record.

What makes each component correct:

* parser: it never reaches an "impossible" exit; the elements on the stack fit
  each other; each block has exactly one holder and none is lost; every call
  returns; the documented rules (one root outside streaming mode, duplicate
  keys, commas) are kept; errors are reported;
* numbers: the value delivered is the one the numeral denotes;
* buffer chain, array: a sequence, in exactly as many pages as it needs;
* object: a map, of which every key is found in the bucket it hashes to;
* release: every block once, to the allocator it came from;
* serializer: what reaches the callback is the document, whatever the callback
  took at each call; it terminates; it can be released at any moment;
* serializer and parser: what one writes the other reads, unchanged.

`PROJECT.json` lists the hazards of this code with the line where each bites and
the properties that cover it, or why none does.

## Modules

| module | what it is |
|---|---|
| `CjsonBytes` | the byte codes, literals, escapes, hexadecimal digits and the UTF-8 encoding of a code unit |
| `CjsonNumerals` | the automaton of a numeral |
| `CjsonParser` | the parser and its client |
| `CjsonNumberValue` | the accumulators of a number element: what the numeral is worth |
| `DocumentWriter` | abstract: the text of one document at a time reaches the output |
| `CjsonSerializer` | the serializer, its client and its write callback; implements `DocumentWriter` |
| `ValueStore` | abstract: containers are maps and sequences that own their items |
| `CjsonValues` | objects, arrays, scalars and their release; implements `ValueStore` |
| `CjsonRoundTrip` | `CjsonSerializer` and `CjsonParser` composed through the bytes between them |
| `MCCjsonParser`, `MCCjsonNumberValue`, `MCCjsonSerializer`, `MCCjsonValues`, `MCCjsonRoundTrip` | the instances that are checked |
| `CjsonParser_proofs` | the types of the parser, the bound on code units, the nesting discipline and the unreachable error exits; the copy of a key, the first symbol of a number, what a call answers when memory runs out, how many roots it completes |
| `CjsonParserOwnership_proofs` | who owns which block: no dangling pointer, no leak, the pages of a string |
| `CjsonSerializer_proofs` | the serializer's types, the copied key and the memory it holds |
| `CjsonSerializerText_proofs` | the refinement: what reaches the callback is the text of the document |
| `CjsonNumberValue_proofs` | what a numeral is worth, and that integers do not wrap |
| `CjsonValues_proofs` | the values: cells, ownership, counters, reading calls, allocators |
| `CjsonValuesStore_proofs` | the refinement: objects and arrays implement `ValueStore` |
| `CjsonInduction_proofs` | facts of mathematics: induction over a set of naturals or of subsets, the function behind `FlattenSeq`, a stack as top and rest, sums, forests |

Each module that models code holds its properties too, and the operators marked
*mutant*: plausible slips in the code.  With the matching operator replaced by
one, TLC finds the property it is paired with in `PROJECT.json` violated under
the run's own configuration.

### CjsonParser and the code

A call of `cjsonParserProcessByte` is the loop `for(;;)` of
`src/cjsonParser.c:1043`.  The action `cjsonParserProcessByte(b)` enters it: the
test of `INTERNAL_DONE`, then `bByte` holds the byte.  Each iteration is one
action, `Universe_`, `Constant_`, `String_`, `Number_`, `Object_` or
`Array_ProcessByte`, chosen like the code by the top of the stack.  A handler
that answers `cjsonE_OkRedeliver` leaves `bByte` in place, any other answer
stores it in `status` and sets `bByte` to `None`.  Between two calls the client
may create or release the parser, or release a document.

| model | code |
|---|---|
| `lpStateStack`, the top at the end | the list `lpStateStack`; `dwStateStackDepth`, never updated by the code, is left out |
| `lpChildResult` | `lpChildResult`; its string, if it is one, and the blocks of its tree |
| `ConstantFrame` .. `ArrayFrame` | the five `cjsonParser_StateStackElement_*` structures |
| `StateStackPop(v, h, quiet)` | `cjsonParser_StateStackPop` with the child value `v` and the heap `h` at that moment; `quiet` is the caller that ignores the result |
| `*_PopNotify` | the functions of that name |
| `*_Push`, `StartValue` | the `_Push` functions, and the switch cases Universe, Object and Array share |
| `PushBytes` | `cjsonParser_BufferChain_PushByte`, once per byte of an encoding |
| `ObjectStore`, `ObjectStoreHeap` | `cjsonObject_Set` as the parser calls it |
| `PageFull`, `ArrayStore` | `cjsonArray_Push` |
| `heap`, `CanAlloc`, `CanFail`, `Fresh` | the allocator: a finite pool of blocks, one block per `malloc` |

A handler that calls several allocating functions is still one action: the
allocations, the frees and the notification it causes happen in the code's order
on the heap value handed from operator to operator.  That order matters where
the pool is nearly empty: a number's value is allocated before its element is
freed, a constant's after the previous child has been released.

`roots` and `oom` are history variables, for the properties only.

Abstracted: the value of a number (see `CjsonNumberValue`), the members of a finished
tree (its blocks only), the bytes inside pages, the name of an object's bucket,
which allocator a block belongs to.  Kept: every state, guard, early return and
error path, in order.

Assumed of the client: it makes one call at a time (the document callback does
not call into the parser), feeds until an answer other than `Ok`, `Finished` or
`AlreadyFinished`, and its callback answers `Ok` or an error of its own, not
`cjsonE_OkRedeliver`.  `malloc(0)`, the copy of an empty key, is one block like
any other.

### CjsonNumberValue and the code

One number element from `cjsonParser_Number_Push` to its pop.  `Accept` is a byte
that only changes the element, `Finish` the byte that creates the value, `Refuse`
an encoding error; which of them it is comes from `CjsonNumerals!NumberNext`, the
automaton the parser's model uses as well.  `value` is the union `currentValue`,
read as `numberType` says.  Integers have `Width` bits and wrap; a double is an
exact decimal, mantissa and power of ten, so rounding and infinities are left
out.  `Negated` is `(signed long)(ulong) * -1` with its wrap and its one
undefined case.

### CjsonSerializer and the code

A call of `cjsonSerializer_Serialize` or `_Continue` runs while `status` is
`"Running"`: the loop of `src/cjsonSerializer.c:769`, which enters the handler of
the element on top until the stack is empty or a handler answers an error.
Between two writes a handler keeps nothing but its element's fields, so each
write of the code is an action guarded by those fields, and going on after a
write is the same as entering again.  The exception is the trailer of an object,
written only behind the loop of its handler: `at` says whether the call is there
(`"behind"`), and an object *entered* in its trailer finds no branch in that
loop (`"spin"`).

| model | code |
|---|---|
| `lpTopOfStack`, the top at the end | the list `lpTopOfStack`; `dwStateStackDepth` is its length |
| `ConstantFrame` .. `ObjectFrame` | the five `cjsonSerializer_*` structures |
| `Wild` | the field `lpTempString` of an object still in its header, which nothing has set |
| `PushAbove(before, after, new)` | `cjsonSerializer_PushValue` and the assignments behind it, skipped when it fails |
| `Write`, `WriteLast` | a call of `callbackWriteBytes`, the count of what it took, and the return on an error; `WriteLast` pops when nothing is left |
| `Object_*`, `Array_*`, `String_*` | the parts of the handlers, one per write or push |
| `lpCurrentBucketEntry` | `dwCurrentBucket` and `lpCurrentBucketEntry`, as a position in iteration order |
| `Decode`, `HexDigits`, `EscapeLetter` | the arithmetic on characters in `cjsonSerializer_Continue_String` |
| `Printed` | the digits `snprintf` leaves when the size it is given is one too small |

A document is a node of the constant `Tree`; nodes are shared, which is harmless
because the serializer only reads.  `doc` and `out` are history: the root and
the bytes taken so far, without line breaks and tabs (written, but not kept).

Assumed of the callback: it always sets its count (`README.md:99`), it takes at
least one byte when it answers Ok, and it does not call into the library.  On an
error it may have taken any of the bytes: none up to all but one (*early*), or
all (*late*).

### CjsonValues and the code

A call is one action: nothing else runs between its parts.  A value is named by
its block and recorded with its type and its allocator `lpSystem`, an object with
its bucket chains, an array with its pages.  Entries and pages are counted per
allocator.  `hash` stands for `getHashIndex`: any function of the key, chosen at
the beginning.  `cjsonObject_Set` is taken apart by its outcomes (new entry,
replaced value, no memory), `cjsonObject_SetNull` is the same function called
with NULL.  `Subtree`, `CellsWithout` and `Misfreed` are the recursion of
`cjsonReleaseValue`: what is visited, what goes back, and what goes back to an
allocator it did not come from.  `cjsonObject_HasKey` is a Get whose result is
not handed out.

Assumed of the client: it stores only what it owns, not a value in itself, and
`hash` and the other inputs are of the documented types.

### CjsonRoundTrip

Both modules are instantiated, the serializer's variables with the prefix `w`,
the parser's with `r`.  Every byte that appears in the serializer's `out` is fed
to the parser before the serializer goes on, as a callback does that calls
`cjsonParserProcessByte` before it returns.  The parser has no document callback,
so the root stays in its `lpChildResult` where `StringsArrive` looks at it.

## Runs

The bounds of the parser's runs: `Byte` is the alphabet the client draws from,
`Block` the memory pool, `StringPage` and `ArrayPage` the page sizes, `MaxString`
the bytes a string is fed.  Nothing bounds the length of the text or the depth of
nesting but the pool: when it is exhausted an allocation fails, which is itself a
case the runs are about.  `AllocMayFail` lets allocations fail earlier too.

| run | instance | checks | distinct states |
|---|---|---|---|
| `parser_nesting` | `{ } [ ] " : , 1`, 6 blocks, all configurations, callback may fail | `WellNested`, `NoDangling`, `CallReturns`, `AllocFailureReported` | 337 k |
| `parser_objects` | `{ } " : , a`, 8 blocks, not streaming | `NoImplementationError`, `KeyHeld`, `NoDangling`, `LeakFree` | 697 k |
| `parser_strings` | `" \ u 0 8 F n`, 5 blocks, 3 bytes per page | `TypeOK`, `CodepointBounded`, `PagesExact` | 2.5 M |
| `parser_numbers` | `0 . e + space , [ ] t r u`, 6 blocks, with a callback | `AtMostOneRoot`, `NumberStarts` | 161 k |
| `number_values` | digits `0 2 3 5 6 9`, `. e + -` and space, 6 bits, numerals of 6 bytes | `Faithful`, `NeverWraps`, `IntegersStayIntegers` | 390 k |
| `serializer` | 16 documents, 7 blocks, 4 clients | `TypeOK`, `ExactlyHeld`, `KeyAlive`, `WritesTheDocument`, `ReturnsOrSpins` | 2.6 k |
| `values` | 4 blocks, 3 entries and pages, 2 keys, 2 buckets, pages of 2 | `TypeOK`, `Ownership`, `ReadsAgree`, `AllocatorsMatchButArrays`, `Implements` | 15 k |
| `round_trip` | 9 documents, 8 and 40 blocks | `Understood`, `StringsArrive`, `InStep` | 1.1 k |

Why the bounds are enough.

* *Parser.*  Six blocks hold the parser, an array or object with its element, and
  a number or a page, and so reach two levels of nesting, the redelivery of a
  number's last byte through a closing parent, and every allocation of that path
  both succeeding and failing.  Eight hold an object with an entry, the key and
  the element of the next member, and the value that replaces the first one (the
  keys are strings of at most one byte, so they repeat at once).  Three bytes per
  page and strings of three bytes make a page end before, inside and after the
  three-byte encoding of a `\u` escape, twice in one string.  Two array entries
  per page (one in the other runs) give pushes with and without a new page.
* *Numbers.*  With 6 bits `ULONG_MAX` is 63, the limit of the integer arithmetic 6
  and `LONG_MIN` -32; six bytes hold a numeral on either side of each, with a
  sign, a point and an exponent.  Width and limit enter the code only through
  `ULONG_MAX`, so nothing depends on the value itself.
* *Serializer.*  Every kind of value is the root, an element of an array and a
  member of an object in some document, empty, single and repeated; strings have
  characters of one, two and three bytes, escapes of either kind, and ends that
  are cut short, stray or beyond 16 bits.  Seven blocks are the serializer, a
  copied key and a stack of five, one more than the deepest document needs; any
  allocation may fail all the same.
  The late clients do not serialize arrays, see Departures.
* *Values.*  Four blocks are two containers and two scalars, or a container in a
  container with a scalar to replace it; three entries and pages make a chain of
  two in one bucket beside another one, or an array with a second page beside an
  object.  Blocks and keys are symmetric: a fresh block is any free one, the hash
  is any function, and no property or definition names a block or key.  The two
  allocators and the types are not in the symmetry.  Allocations fail where the
  pool is exhausted, which these bounds make a frequent case.
* *Round trip.*  Each container kind inside the other, strings of every class as
  roots, elements, members and keys, and an interruption at every byte.  Eight
  blocks are all the serializer needs; its allocations may fail at any time.  The
  parser has more than the largest document needs, so that its pool is not the
  reason a text is refused.

What the properties say:

* `NoImplementationError`, `WellNested`: a child is only ever handed to a
  parent that waits for it.
* `KeyHeld`: the copy of a key exists exactly between the end of the key and
  the moment its value is stored, through whatever is nested in that value.
* `NoDangling`: every block reachable from the parser, an element, the child
  result or a document is allocated and has one holder.  `LeakFree`: with a
  callback, and as long as allocations succeed, no step loses a block.
* `AllocFailureReported`: a call in which an allocation fails answers
  `OutOfMemory`, unless a number was on top: see Departures.
* `CodepointBounded`, `PagesExact`: a `\u` escape never collects more than four
  digits; a string has as many pages as its bytes need.
* `NumberStarts`: a number element without its first symbol exists only during
  the call that delivers that symbol.
* `AtMostOneRoot`: outside streaming mode one root is all a parser completes, of
  a text without a minus sign; see Departures for the minus.
* `CallReturns` (parser): a call that has begun returns.
* `Faithful`: the number created is the one the numeral denotes, with an exponent
  of at most one digit and within `signed long` when negative; `NeverWraps`,
  `IntegersStayIntegers`: the switch to doubles comes neither too late nor
  earlier than the limit has it.
* `WritesTheDocument` is the refinement: with `phase` from `status` and the stack,
  `written` the history `out`, and `rest` what is missing of the document's text
  (`DocText`, the JSON grammar), every step of the serializer is a step of
  `DocumentWriter` or leaves it alone.  Wherever a callback stops a call, and
  whatever it had taken, the output goes on with the next byte.  The text of a
  number is what the code prints; its cut digit is the subject of
  `bug_number_cut`.
* `ExactlyHeld`, `KeyAlive`: each allocated block has one holder in every state;
  the string copied for a key outlives the element that reads it.
* `ReturnsOrSpins`: a call returns, or it is in the endless loop of
  `bug_serializer_hang`; there is no other way not to return.
* `Implements` is the refinement of `ValueStore`: with `content` the members of
  each object and the slots of each array, every call is one operation on maps
  and sequences, and a replaced or released value takes exactly the containers
  below it along.
* `Ownership`: each value has one owner, the client or one slot; nothing is lost,
  shared or freed twice.  `ReadsAgree`: looking up by key or index agrees with
  iterating.  `AllocatorsMatchButArrays`: only arrays, which record no allocator
  (`cjsonArray.c:32`), are freed by one they did not come from.
* `Understood`: the parser accepts each byte the serializer writes and has a root
  exactly when the document is complete; `StringsArrive`: a string arrives as it
  was; `InStep`: below the value in transit the stacks agree on containers and
  on the key of the member.

Fairness.  `CallReturns` assumes `WF_vars(ProcessOne)` of the parser,
`ReturnsOrSpins` and the serializer's `CallReturns` assume `WF_vars(Step)`: one
action for all handlers, because a C function that runs goes on running and the
element on top decides which handler it is.  Nothing is assumed of the client,
which may stop calling for ever, nor of a callback beyond what is said above.

Deadlock is checked where a client can always make another call; `values`
(the process may end in an invalid access), `number_values` (one numeral) and
`round_trip` (a document ends, or the serializer is left with a number) may stop.

## Departures

Four runs expect a violation and show where the code departs from what its
documentation says.

| run | the documentation | the code |
|---|---|---|
| `bug_serializer_hang` | `README.md:117`: any value can be serialized | an empty object, or one interrupted in its trailer, loops for ever |
| `bug_number_cut` | `README.md:80`: any element can be written | the last digit of every number is replaced by a zero byte |
| `bug_exponent_digits` | `README.md:16`: arbitrary JSON | the digits of an exponent are added up, `2e20` is 200 |
| `bug_remove_member` | `README.md:240`: storing NULL removes the member | NULL is dereferenced when the bucket is not empty |

The code has further departures without a run of their own.  The models have them
as well, unless an assumption above excludes them, and a property that touches one
says what it leaves out.

* `cjsonParser.c:746`: `dwReadObjects` is never incremented, so `{"a":"a",}` is
  accepted although `cjson.h:375` allows closing only before the first member.
* `cjsonParser.c:855`: the flag `ALLOWDUPLICATEKEYS` (`cjson.h:317`) is never read;
  a repeated key replaces the earlier member.
* `cjsonParser.c:432`: an escaped quote, which the serializer writes, is an encoding
  error.  `round_trip` therefore has no quote in its strings.
* `cjsonParser.c:1040`, `609`: outside streaming mode the byte that ends a root
  number can start and complete a second one (`1-` and a space), because a minus
  alone is accepted as a number and the test for a finished parser is made once per
  call.  Leading zeros are accepted too.
* `cjsonParser.c:289`: without a callback nothing marks the parser finished, and
  further roots replace the first one, which is lost.
* `cjsonParser.c:608`: where a number ends, the result of the pop is ignored: an array
  or object that could not store it, or a callback that failed, goes unnoticed.
* `cjsonParser.c:986`: a child its array could not store is unreachable.
* `cjsonParser.c:595`: a negative integer below `LONG_MIN` wraps to a positive one, and
  the negation in the case of exactly 2^(w-1) is undefined.
* `cjsonSerializer.c:346`: the closing bracket of an array is written without a look
  at what was counted, so one that was taken by a call that failed all the same is
  written again.  Brackets, separators and closing quotes are not written in a loop:
  when a callback answers Ok without taking the byte, the code goes on without it.
* `cjsonSerializer.c:799`: Release refuses while a number is being written; the document
  has to be continued past it first.
* `cjsonSerializer.c:801`: Release of an object still in its header reads a pointer
  nothing has set.

## Proofs

The theorems hold for every value of the constants that satisfies the named
assumptions, hence for texts, stacks and numerals of every length.

| theorem | property | module |
|---|---|---|
| `TypeCorrect`, `CodepointStaysBounded` | `TypeOK`, `CodepointBounded` | `CjsonParser_proofs` |
| `StackWellNested`, `ImplementationErrorUnreachable` | `WellNested`, `NoImplementationError` | `CjsonParser_proofs` |
| `KeyCopyHeld`, `NumbersStart` | `KeyHeld`, `NumberStarts` | `CjsonParser_proofs` |
| `NothingDangles`, `NothingLeaks`, `PagesAreExact` | `NoDangling`, `LeakFree` (an action property), `PagesExact` | `CjsonParserOwnership_proofs` |
| `FailuresReported`, `OneRootOnly` | `AllocFailureReported` (an action property), `AtMostOneRoot` | `CjsonParser_proofs` |
| `TypeCorrect`, `KeysAreAlive`, `MemoryIsHeld` | `TypeOK`, `KeyAlive`, `ExactlyHeld` | `CjsonSerializer_proofs` |
| `DocumentsAreWritten` | `WritesTheDocument` (a refinement) | `CjsonSerializerText_proofs` |
| `NoWrap`, `DoublesAreNeeded`, `NumbersAreFaithful` | `NeverWraps`, `IntegersStayIntegers`, `Faithful` | `CjsonNumberValue_proofs` |
| `ValuesTyped`, `EveryValueOwnedOnce`, `ReadingCallsAgree`, `BlocksGoHome` | `TypeOK`, `Ownership`, `ReadsAgree`, `AllocatorsMatchButArrays` | `CjsonValues_proofs` |
| `ContainersImplementStore` | `Implements` (a refinement) | `CjsonValuesStore_proofs` |

Assumed of the constants.

* *Parser*: the bytes are octets, the configurations are records of flags, a page
  takes at least three bytes, so that one encoding needs at most one new page
  (the code's pages take 512).  `OneRootOnly` has two hypotheses more: no minus
  sign in the alphabet and a document callback in every configuration.  Without
  them the code does complete a second root, see Departures.
* *Serializer*: `TreeAssumption` (each node is a constant, a number with digits, a
  string, or a container of nodes), `WriterAssumption`, and `BlockAssumption`: NULL and an
  uninitialized pointer are not blocks of the pool.  `NodeAssumption`, no value lies
  inside itself, is used by `DocumentsAreWritten` only: a document with a cycle has no
  text.  That theorem has the hypothesis `WritableDocuments` besides, in two parts, each
  for something the code does.  The decoder accepts a character spelled with more
  bytes than it needs and writes what it decodes, so the bytes at the end of a string
  that are no character must be none for the decoder either.  And a callback that may
  answer with an error when it has taken all it was given is given documents without
  arrays, whose closing bracket would be written twice (see Departures).  The instance
  of the run `serializer` satisfies both.
* *Number values*: `unsigned long` has at least four bits (C promises 32), so that
  the limit the code compares with is not zero.
* *Values*: `ValuesAssumption`: a finite pool without NULL, at least one bucket and
  one slot per page, and the types of the bounds.  The bounds of the instance
  (`MaxOwned`, `MaxContainers`, `MaxLength`) and the hash are arbitrary.

### The parser

`TypeOK` is not inductive.  The code unit of a `\u` escape stays in 16 bits only
because the digits before it were few and worth little; a constant's counter
stays in its literal only because the client stops after a mismatch.  `TypeInv`
adds that while the client may feed, each element is in the tighter set
`BoundedFrame` (a constant not yet complete, a \u escape with d < 4 digits worth
less than 16^d), that a running call started from such a state, and that without
a parser there is no stack.  The lemmas take the operators in the order of the
model: the stack operations, the container updates, `StateStackPop`, the pushes,
then each handler, and `StepType` collects them.

`WellNested` speaks of the stack as it is between its operations; a pop looks at
two elements, and an array rejects a child that is NULL.  `NestInv` therefore
adds `Nest`, the discipline as a predicate of any stack: containers own at least
one block (so the value they finish with is not NULL), an element is followed
only by what it can carry, and a key is only on top.  `NestReplace`, `NestPop`
and `NestPush` say what the three kinds of stack change need, and each handler
follows from them.

The other invariants see a stack that is not empty as its top appended to what is
below, and a pop by the kind of the element below it (`PopToUniverse`, `PopToKey`
and the like).

* `KeyInv`, for the copy of a key: an object on top has one exactly in `ExpectObject`
  and `ReadKey`, an object that is covered exactly in `ExpectObject` and `ReadObject`.
  The copy is made when the key's string is popped, with the object still in
  `ReadKey`, and is gone when the value is; hence the two sets.  The invariant
  holds only while the last answer lets the client go on: a failed allocation
  stops in between.  A number that has not
  started is on top and the byte about to be redelivered is a digit or a minus.
* `OwnInv`, for the memory: the blocks outside the stack (the parser, the delivered
  documents), those of the stack elements and those of the child result are
  disjoint parts of the heap (`Account`); within an element its own block, its key
  and its data are apart, the entries of an object lie in its data without
  overlap, and a string has `Pages(bytes)` pages (`Tidy`); delivered documents do
  not overlap.  A handler changes the stack at its top only, so its account is
  that of the elements below plus the new top.  `NothingLeaks` needs in addition
  that with a callback, and no failed allocation, the child result holds nothing,
  so that overwriting it loses nothing.
* `FailuresReported` rests on `Ended`: each iteration of a call ends with an answer
  while nothing failed, with `OutOfMemory`, or with a pop; only the end of a number
  ignores what its pop answers.
* `RootInv`, for one root: a parser that is done has completed at most one, and
  either its stack is empty and the byte under way starts no number, or it has
  one element, not a number, which the redelivered byte began, and no byte but
  whitespace under way, which completes nothing.  The next call answers
  `AlreadyFinished`.

### The serializer

`SerInv` has four parts.  `Fit`: each element is sound for its place in the stack
(`Sound`: a string is escaped only at a byte it has, an object writes a key only
for an entry it has and counts the copy of that key from its creation to the
closing quote) and carries only what it pushed (`Carries`: the string of a key is
directly above an object in state `Key`, and reads from exactly that object's
copy).  `Account`: the heap is the serializer's block and the blocks of the stack,
without overlap.  A running call has an element to serve.  Without a serializer
there is no stack.  `KeyAlive` and `ExactlyHeld` follow, and a resumed call needs
nothing else, which is what makes stopping at any byte harmless.

That the bytes are the right ones is `TextInv`.  Each element *owes* a text, read off
its fields clause by clause (`Owes`): a constant what is behind its counter, a string
the spelling of the units from its index on (`Spells`, from the bytes back to the
units), an array or object the elements after its position with their separators and
the bracket that closes it (`Closed`).  `Pending` is what the whole stack owes, the top
first, and `TextInv` says that `out` followed by it is the text of the document.  A
step is one of three (`Advances`): the top writes the beginning of what it owes and
owes the rest, as any prefix the callback may take, none of it included; or it writes
all and is popped; or it passes the beginning on to an element it pushes, which owes
exactly that.  `Progress` shows that each is a step of `DocumentWriter`, or a stutter,
and keeps `TextInv`; then there is one lemma per part of a handler (`ArrayHeaderAdvances`
to `TrailingQuoteAdvances`).  An element owes the same before and after an
interruption: `Owes` speaks of its fields and not of the call, which is why a handler
that forgets or repeats something when it is entered again has no place in the proof.
`DocText` is a recursive function over a tree; that it exists (`DocTextExists`) is an
induction over sets of nodes closed under `Inside`, from `NodeAssumption`.

### Number values

The properties are stated with what the *text* of a numeral denotes: `Spelled`
sums the digits of a part of it, `DotAt` and `ExpAt` say where its parts begin.
`NumInv` relates each accumulator to the part it has read: where the point and the
exponent are in each state (`Placed`), the mantissa, the exponent, the kind of
number (an integer is within `ULONG_MAX`, a double has passed the limit) and the
result.  Each step appends a byte, and the lemmas `FirstAppend`, `SpelledAppend`,
`PlacesNext` and `IntegerGrows` say what that does to the parts.  `Spelled` is a
recursive function; that it exists and has its equation (`SumExists`, `SumNext`)
is an induction over a *set* of naturals rather than a predicate, which
`SetInduction` derives from the well-foundedness of < on the naturals.  The
serializer's bytes of a string, the flattening of a sequence, get their type the
same way.  Powers of two are handled as numbers of subsets.

### Values

`IInv` is `Sound` of the store, with the types of what it does not mention.  `Sound`
has three parts, and each call keeps them for its own reason.

* Every cell is well-formed by itself: an object's entries are in the bucket their
  key hashes to and no key is there twice, every page but the last one is full,
  so that the walk of Get and Set ends where the index lies, and no two places of a
  container hold the same value.
* The values are a `Forest`: no value is below two others or twice below one, the
  roots are exactly what the client owns, and every set of values has a member
  with nothing of the set above it, so there are no cycles.  `Reach` is what a release visits; that
  the model's `Subtree`, which descends level by level, computes it (`SubtreeIs`) is an
  induction over the size of a finite set.  Without the forest the release of an old
  value could free the container it is taken from, or a value the client still owns.
* The counters of each allocator are the `Total` of the entries and pages of the live
  values it allocated, so that a release subtracts no more than is there.

A call changes one cell and releases one tree: `Swapped` says that for any store, with
`ForestSwap`, `Exchange` and `CountedWithout` for its three parts.  The calls are then a
matter of one cell: `EntryAdded` and `EntryReplaced` for `cjsonObject_Set`, `SlotFilled`,
`PageAdded` and `SlotReplaced` for the array, each with what the flattened chains and
pages become (`FlattenPut`, `FlattenPush`, `FlattenNew`: sequences of sequences by the
offsets of their rows).

For `ContainersImplementStore` the mapping is `Content`: an object is the map of its
entries, an array its flattened pages.  `BelowIs` shows that what the abstract store
calls below a value is what can be reached from it, `StoreChange` that the change of one
cell is the change of one item with the release of the old one, and for each call there is
a lemma that names its abstract step: `PushStores`, `ArraySetStores`, `ObjectSetStores`,
`BuildStores`, `ReleaseStores`; `UseScalarStores` that the scalars are not seen.

### Checked by TLC only

* `CallReturns` and `ReturnsOrSpins`: liveness, and the enabledness it rests on, are
  out of the prover's reach.
* `Understood`, `StringsArrive`, `InStep`: they relate the state of the parser to the
  bytes the serializer has written so far, an invariant over the product of the two
  automata and all their interruptions, and have not been attempted.
* The four runs that show a violation, `ExponentsFaithful` among them.

## Not modelled

* `cjsonParser_*_PopNotify` of constants, strings and numbers, and every
  `default:` branch on a type, only answer `cjsonE_ImplementationError`; they
  are the last case of `StateStackPop`.
* NULL arguments and values of the wrong type, which the API functions answer
  with `cjsonE_InvalidParam` and no effect.
* The getters of scalars, `cjsonString_Get`, `_Strlen` and `cjsonObject_GetAs*`: they
  read one field, or cast it.
* The bytes of `getHashIndex` (any function stands for it), the links of the string
  pages in the parser, the rounding of doubles, the spelling of a number by `snprintf`.
* A client that feeds a parser on after an error, or a callback that calls into the
  parser or the serializer.
* Printing in the tests, and the build files.

## Plan

What is left is to prove of the composition what TLC has checked of it: `InStep` first,
then `Understood` and `StringsArrive`.  `TextInv` says which bytes come, so the parser's
half can be stated over texts: from the state an opening byte leaves, the text of a value
brings the parser to the state in which that value is finished.
