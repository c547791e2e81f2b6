----------------------- MODULE CjsonInduction_proofs -----------------------
(***************************************************************************)
(* Facts of mathematics that more than one component needs, and that the   *)
(* library of theorems does not have without an operator as a parameter:   *)
(* induction over the natural numbers and over the subsets of a finite     *)
(* set, for a set instead of a predicate; that the recursive function      *)
(* behind FlattenSeq exists; a stack seen as its top appended to what is   *)
(* below it; sums over finite sets and along a sequence; and forests, given *)
(* by their nodes, by what is directly below each node, and by their roots. *)
(***************************************************************************)
EXTENDS Integers, Sequences, SequenceTheorems, FiniteSetTheorems, WellFoundedInduction, TLAPS

Smaller == {p \in Nat \X Nat : p[1] < p[2]}

LEMMA LeastElement ==
  ASSUME NEW T \in SUBSET Nat, T # {}
  PROVE  \E x \in T : \A y \in T : x <= y
<1>1. OpToRel(<, Nat) = Smaller
  BY DEF OpToRel, Smaller
<1>2. IsWellFoundedOn(Smaller, Nat)
  BY <1>1, NatLessThanWellFounded, Zenon
<1>3. \E x \in T : \A y \in T : ~(<<y, x>> \in Smaller)
  BY <1>2, WFMin
<1>4. \A x \in Nat : \A y \in Nat : ~(<<y, x>> \in Smaller) => x <= y
  <2> TAKE x \in Nat, y \in Nat
  <2>1. <<y, x>> \in Nat \X Nat /\ <<y, x>>[1] = y /\ <<y, x>>[2] = x
    OBVIOUS
  <2>2. y < x => <<y, x>> \in Smaller
    BY <2>1 DEF Smaller
  <2> QED
    BY <2>2
<1> QED
  BY <1>3, <1>4

(* A set of naturals that has 0 and each successor is all of them. *)
LEMMA SetInduction ==
  ASSUME NEW T \in SUBSET Nat, 0 \in T, \A n \in T : n + 1 \in T
  PROVE  T = Nat
<1> SUFFICES ASSUME Nat \ T # {} PROVE FALSE
  OBVIOUS
<1>1. PICK x \in Nat \ T : \A y \in Nat \ T : x <= y
  BY LeastElement
<1>2. x # 0 /\ x - 1 \in Nat /\ x - 1 \in T
  BY <1>1
<1> QED
  BY <1>1, <1>2

-----------------------------------------------------------------------------
(* The function FlattenSeq recurs on, for the first n sequences of s. *)
Flattens(f, s, n) ==
  f = [i \in 1 .. n |-> IF i = 1 THEN s[i] ELSE f[i - 1] \o s[i]]

LEMMA FlattenExists ==
  ASSUME NEW s, NEW n \in Nat
  PROVE  \E f : Flattens(f, s, n)
<1> DEFINE T == {k \in Nat : \E f : Flattens(f, s, k)}
<1>1. 0 \in T
  <2>1. Flattens([i \in 1 .. 0 |-> s[i]], s, 0)
    BY DEF Flattens
  <2> QED
    BY <2>1
<1>2. ASSUME NEW k \in T PROVE k + 1 \in T
  <2>1. PICK f : Flattens(f, s, k)
    BY <1>2
  <2> DEFINE g == [i \in 1 .. k + 1 |-> IF i \in 1 .. k THEN f[i]
                                        ELSE IF i = 1 THEN s[i] ELSE f[i - 1] \o s[i]]
  <2>2. ASSUME NEW i \in 1 .. k + 1
        PROVE  g[i] = IF i = 1 THEN s[i] ELSE g[i - 1] \o s[i]
    <3>1. CASE i \in 1 .. k
      <4>1. f[i] = IF i = 1 THEN s[i] ELSE f[i - 1] \o s[i]
        BY <2>1, <3>1 DEF Flattens
      <4>2. i # 1 => i - 1 \in 1 .. k
        BY <3>1
      <4> QED
        BY <3>1, <4>1, <4>2
    <3>2. CASE i = k + 1
      <4>1. i # 1 => i - 1 \in 1 .. k
        BY <3>2
      <4> QED
        BY <3>2, <4>1
    <3> QED
      BY <3>1, <3>2
  <2>3. Flattens(g, s, k + 1)
    BY <2>2 DEF Flattens
  <2> QED
    BY <2>3
<1>3. T = Nat
  <2> HIDE DEF T
  <2>1. T \in SUBSET Nat
    BY DEF T
  <2> QED
    BY <1>1, <1>2, <2>1, SetInduction
<1> QED
  BY <1>3

-----------------------------------------------------------------------------
(* The prefixes of a sequence, which is what popping leaves. *)
LEMMA Prefix ==
  ASSUME NEW S, NEW s \in Seq(S), NEW n \in Nat, n <= Len(s)
  PROVE  /\ SubSeq(s, 1, n) \in Seq(S)
         /\ Len(SubSeq(s, 1, n)) = n
         /\ \A i \in 1 .. n : SubSeq(s, 1, n)[i] = s[i]
<1>1. \A i \in 1 .. n : s[i] \in S
  BY LenProperties
<1>2. 1 \in Int /\ n \in Int
  OBVIOUS
<1>3. /\ SubSeq(s, 1, n) \in Seq(S)
      /\ Len(SubSeq(s, 1, n)) = IF 1 <= n THEN n - 1 + 1 ELSE 0
      /\ \A i \in 1 .. n - 1 + 1 : SubSeq(s, 1, n)[i] = s[1 + i - 1]
  BY <1>1, <1>2, SubSeqProperties
<1>4. Len(SubSeq(s, 1, n)) = n
  BY <1>3
<1>5. ASSUME NEW i \in 1 .. n PROVE SubSeq(s, 1, n)[i] = s[i]
  BY <1>3
<1> QED
  BY <1>3, <1>4, <1>5

(* A sequence that is not empty is its last element appended to the others. *)
LEMMA AsAppend ==
  ASSUME NEW S, NEW s \in Seq(S), s # << >>
  PROVE  /\ SubSeq(s, 1, Len(s) - 1) \in Seq(S) /\ s[Len(s)] \in S
         /\ s = Append(SubSeq(s, 1, Len(s) - 1), s[Len(s)])
         /\ \A g : [s EXCEPT ![Len(s)] = g] = Append(SubSeq(s, 1, Len(s) - 1), g)
<1> DEFINE n == Len(s)
           b == SubSeq(s, 1, Len(s) - 1)
<1>1. n \in Nat \ {0} /\ n - 1 \in Nat /\ n - 1 <= n
  BY EmptySeq
<1>2. b \in Seq(S) /\ Len(b) = n - 1 /\ \A i \in 1 .. n - 1 : b[i] = s[i]
  BY <1>1, Prefix
<1>3. s[n] \in S
  BY <1>1, ElementOfSeq
<1> HIDE DEF b
<1>4. ASSUME NEW g, NEW t \in Seq(S \cup {g}), Len(t) = n, t[n] = g,
             \A i \in 1 .. n - 1 : t[i] = s[i]
      PROVE  t = Append(b, g)
  <2>1. b \in Seq(S \cup {g})
    BY <1>2, SeqMonotonic
  <2>2. /\ Append(b, g) \in Seq(S \cup {g}) /\ Len(Append(b, g)) = n
        /\ \A i \in 1 .. n - 1 : Append(b, g)[i] = b[i]
        /\ Append(b, g)[n] = g
    BY <1>1, <1>2, <2>1, AppendProperties
  <2>3. \A i \in 1 .. n : t[i] = Append(b, g)[i]
    BY <1>1, <1>2, <1>4, <2>2
  <2> QED
    BY <1>4, <2>2, <2>3, SeqEqual
<1>5. s = Append(b, s[n])
  <2>1. s \in Seq(S \cup {s[n]})
    BY <1>3, SeqMonotonic
  <2> QED
    BY <1>4, <2>1
<1>6. ASSUME NEW g PROVE [s EXCEPT ![n] = g] = Append(b, g)
  <2>1. s \in Seq(S \cup {g}) /\ n \in 1 .. Len(s)
    BY <1>1, SeqMonotonic
  <2>2. /\ [s EXCEPT ![n] = g] \in Seq(S \cup {g}) /\ Len([s EXCEPT ![n] = g]) = n
        /\ \A i \in 1 .. n : [s EXCEPT ![n] = g][i] = IF i = n THEN g ELSE s[i]
    BY <2>1, ExceptSeq
  <2> HIDE DEF n
  <2>3. \A i \in 1 .. n - 1 : i \in 1 .. n /\ i # n
    BY <1>1
  <2>4. n \in 1 .. n
    BY <1>1
  <2>5. /\ [s EXCEPT ![n] = g][n] = g
        /\ \A i \in 1 .. n - 1 : [s EXCEPT ![n] = g][i] = s[i]
    BY ONLY <2>2, <2>3, <2>4
  <2> QED
    BY <1>4, <2>2, <2>5
<1> QED
  BY <1>2, <1>3, <1>5, <1>6 DEF b

-----------------------------------------------------------------------------
(* Induction over the subsets of a finite set, for a set of them. *)
LEMMA SubsetInduction ==
  ASSUME NEW S, IsFiniteSet(S), NEW P \in SUBSET SUBSET S, {} \in P,
         \A T \in SUBSET S : T # {} /\ (\A x \in T : T \ {x} \in P) => T \in P
  PROVE  P = SUBSET S
<1> DEFINE N == {n \in Nat : \A T \in SUBSET S : Cardinality(T) = n => T \in P}
<1>1. \A T \in SUBSET S : IsFiniteSet(T) /\ Cardinality(T) \in Nat
  BY FS_Subset, FS_CardinalityType
<1>2. 0 \in N
  BY <1>1, FS_EmptySet
<1>3. ASSUME NEW n \in N PROVE n + 1 \in N
  <2> SUFFICES ASSUME NEW T \in SUBSET S, Cardinality(T) = n + 1 PROVE T \in P
    OBVIOUS
  <2>1. T # {}
    BY FS_EmptySet
  <2>2. ASSUME NEW x \in T PROVE T \ {x} \in P
    <3>1. Cardinality(T \ {x}) = n + 1 - 1
      BY <1>1, FS_RemoveElement
    <3>2. T \ {x} \in SUBSET S /\ n + 1 - 1 = n
      OBVIOUS
    <3> QED
      BY <1>3, <3>1, <3>2
  <2> QED
    BY <2>1, <2>2
<1>4. N = Nat
  <2> HIDE DEF N
  <2>1. N \in SUBSET Nat
    BY DEF N
  <2> QED
    BY <1>2, <1>3, <2>1, SetInduction
<1>5. ASSUME NEW T \in SUBSET S PROVE T \in P
  <2>1. Cardinality(T) \in N
    BY <1>1, <1>4
  <2> QED
    BY <2>1
<1> QED
  BY <1>5

(* The sum of F over S, as MapThenSumSet computes it. *)
Chosen(S) == CHOOSE x \in S : TRUE
Adds(g, F, S) ==
  g = [T \in SUBSET S |-> IF T = {} THEN 0 ELSE F[Chosen(T)] + g[T \ {Chosen(T)}]]
Adder(F, S) == CHOOSE g : Adds(g, F, S)
Total(F, S) == Adder(F, S)[S]

(* An element of the set is chosen. *)
LEMMA ChosenIn == \A S : S # {} => Chosen(S) \in S
BY DEF Chosen

(* The recursive function behind the sum exists, *)
LEMMA AddsExists ==
  ASSUME NEW F, NEW S, IsFiniteSet(S)
  PROVE  \E g : Adds(g, F, S)
<1> DEFINE D(k) == {T \in SUBSET S : Cardinality(T) <= k}
           Upto(g, k) == g = [T \in D(k) |-> IF T = {} THEN 0
                                             ELSE F[Chosen(T)] + g[T \ {Chosen(T)}]]
           N == {k \in Nat : \E g : Upto(g, k)}
<1>1. \A T \in SUBSET S : IsFiniteSet(T) /\ Cardinality(T) \in Nat /\ Cardinality(T) <= Cardinality(S)
  BY FS_Subset, FS_CardinalityType
<1>2. ASSUME NEW T \in SUBSET S, T # {}
      PROVE  T \ {Chosen(T)} \in SUBSET S /\ Cardinality(T \ {Chosen(T)}) = Cardinality(T) - 1
  BY <1>1, <1>2, ChosenIn, FS_RemoveElement
<1>3. 0 \in N
  <2>1. \A T \in D(0) : T = {}
    BY <1>1, FS_EmptySet
  <2>2. Upto([T \in D(0) |-> 0], 0)
    BY <2>1
  <2> QED
    BY <2>2
<1>4. ASSUME NEW k \in N PROVE k + 1 \in N
  <2>1. PICK f : Upto(f, k)
    BY <1>4
  <2> DEFINE g == [T \in D(k + 1) |-> IF T \in D(k) THEN f[T]
                                      ELSE IF T = {} THEN 0 ELSE F[Chosen(T)] + f[T \ {Chosen(T)}]]
  <2>2. ASSUME NEW T \in D(k + 1)
        PROVE  g[T] = IF T = {} THEN 0 ELSE F[Chosen(T)] + g[T \ {Chosen(T)}]
    <3>1. T # {} => T \ {Chosen(T)} \in D(k) /\ T \ {Chosen(T)} \in D(k + 1)
      BY <1>1, <1>2
    <3>2. T # {} => g[T \ {Chosen(T)}] = f[T \ {Chosen(T)}]
      BY <3>1
    <3>3. T \in D(k) => f[T] = IF T = {} THEN 0 ELSE F[Chosen(T)] + f[T \ {Chosen(T)}]
      <4> HIDE DEF D
      <4> QED
        BY <2>1
    <3>4. g[T] = IF T \in D(k) THEN f[T]
                 ELSE IF T = {} THEN 0 ELSE F[Chosen(T)] + f[T \ {Chosen(T)}]
      OBVIOUS
    <3> QED
      BY <3>2, <3>3, <3>4
  <2>3. Upto(g, k + 1)
    BY <2>2
  <2> HIDE DEF g, Upto
  <2>4. \E h : Upto(h, k + 1)
    BY <2>3
  <2> QED
    BY <2>4
<1>5. N = Nat
  <2> HIDE DEF N
  <2>1. N \in SUBSET Nat
    BY DEF N
  <2> QED
    BY <1>3, <1>4, <2>1, SetInduction
<1>6. D(Cardinality(S)) = SUBSET S /\ Cardinality(S) \in N
  BY <1>1, <1>5
<1>7. PICK g : Upto(g, Cardinality(S))
  BY <1>6
<1>8. Adds(g, F, S)
  <2> HIDE DEF D
  <2> QED
    BY <1>6, <1>7 DEF Adds
<1> QED
  BY <1>8

(* satisfies its equation, *)
LEMMA AddsEquation ==
  ASSUME NEW F, NEW S, IsFiniteSet(S), NEW g, Adds(g, F, S), NEW T \in SUBSET S
  PROVE  g[T] = IF T = {} THEN 0 ELSE F[Chosen(T)] + g[T \ {Chosen(T)}]
BY DEF Adds

(* and any function that does has its values. *)
LEMMA AddsAgree ==
  ASSUME NEW F, NEW S, NEW U \in SUBSET S, IsFiniteSet(S),
         NEW g, Adds(g, F, S), NEW h, Adds(h, F, U)
  PROVE  g[U] = h[U]
<1> DEFINE P == {T \in SUBSET U : g[T] = h[T]}
<1>1. IsFiniteSet(U)
  BY FS_Subset
<1>2. {} \in P
  BY <1>1, AddsEquation
<1>3. ASSUME NEW T \in SUBSET U, T # {}, \A x \in T : T \ {x} \in P
      PROVE  T \in P
  <2>1. T \ {Chosen(T)} \in P
    BY <1>3, ChosenIn
  <2>2. T \in SUBSET S
    OBVIOUS
  <2>3. /\ g[T] = F[Chosen(T)] + g[T \ {Chosen(T)}]
        /\ h[T] = F[Chosen(T)] + h[T \ {Chosen(T)}]
    BY <1>1, <1>3, <2>2, AddsEquation
  <2> QED
    BY <2>1, <2>3
<1> HIDE DEF P
<1>4. P = SUBSET U
  <2>1. P \in SUBSET SUBSET U
    BY DEF P
  <2> QED
    BY <1>1, <1>2, <1>3, <2>1, SubsetInduction
<1> QED
  BY <1>4 DEF P

(* The sum, one element at a time, *)
LEMMA TotalEquation ==
  ASSUME NEW F, NEW S, IsFiniteSet(S)
  PROVE  Total(F, S) = IF S = {} THEN 0 ELSE F[Chosen(S)] + Total(F, S \ {Chosen(S)})
<1>1. \A T \in SUBSET S : IsFiniteSet(T)
  BY FS_Subset
<1>2. \A T : IsFiniteSet(T) => Adds(Adder(F, T), F, T)
  BY AddsExists DEF Adder
<1>3. ASSUME NEW U \in SUBSET S PROVE Adder(F, S)[U] = Adder(F, U)[U]
  BY <1>1, <1>2, AddsAgree
<1>4. Adder(F, S)[S] = IF S = {} THEN 0 ELSE F[Chosen(S)] + Adder(F, S)[S \ {Chosen(S)}]
  <2>1. Adds(Adder(F, S), F, S)
    BY <1>2
  <2> HIDE DEF Adder
  <2> QED
    BY <2>1 DEF Adds
<1>5. \A T : Total(F, T) = Adder(F, T)[T]
  BY DEF Total, Adder
<1> QED
  BY <1>3, <1>4, <1>5

(* which is a natural number. *)
LEMMA TotalNat ==
  ASSUME NEW F, NEW S, IsFiniteSet(S), \A x \in S : F[x] \in Nat
  PROVE  \A T \in SUBSET S : Total(F, T) \in Nat
<1> DEFINE P == {T \in SUBSET S : Total(F, T) \in Nat}
<1>1. \A T \in SUBSET S : IsFiniteSet(T)
  BY FS_Subset
<1>2. {} \in P
  <2>1. Total(F, {}) = 0
    BY FS_EmptySet, TotalEquation
  <2> QED
    BY <2>1
<1>3. ASSUME NEW T \in SUBSET S, T # {}, \A x \in T : T \ {x} \in P
      PROVE  T \in P
  <2>1. Chosen(T) \in T
    BY <1>3, ChosenIn
  <2>2. Total(F, T) = F[Chosen(T)] + Total(F, T \ {Chosen(T)})
    BY <1>1, <1>3, TotalEquation
  <2> QED
    BY <1>3, <2>1, <2>2
<1> HIDE DEF P
<1>4. P = SUBSET S
  <2>1. P \in SUBSET SUBSET S
    BY DEF P
  <2> QED
    BY <1>2, <1>3, <2>1, SubsetInduction
<1> QED
  BY <1>4 DEF P

(* The sum does not depend on the order. *)
LEMMA TotalStep ==
  ASSUME NEW F, NEW S, IsFiniteSet(S), \A x \in S : F[x] \in Nat
  PROVE  /\ Total(F, {}) = 0
         /\ \A x \in S : Total(F, S) = F[x] + Total(F, S \ {x})
<1>1. Total(F, {}) = 0
  BY FS_EmptySet, TotalEquation
<1> DEFINE P == {T \in SUBSET S : \A x \in T : Total(F, T) = F[x] + Total(F, T \ {x})}
<1>2. \A T \in SUBSET S : IsFiniteSet(T)
  BY FS_Subset
<1>3. {} \in P
  BY <1>1
<1>4. ASSUME NEW T \in SUBSET S, T # {}, \A x \in T : T \ {x} \in P
      PROVE  T \in P
  <2> DEFINE c == Chosen(T)
  <2>1. c \in T
    BY <1>4, ChosenIn
  <2>2. Total(F, T) = F[c] + Total(F, T \ {c})
    BY <1>2, <1>4, TotalEquation
  <2> HIDE DEF c
  <2>4. ASSUME NEW x \in T PROVE Total(F, T) = F[x] + Total(F, T \ {x})
    <3>1. CASE x = c
      BY <2>2, <3>1
    <3>2. CASE x # c
      <4>1. x \in T \ {c} /\ c \in T \ {x} /\ (T \ {x}) \ {c} = (T \ {c}) \ {x}
        BY <2>1, <3>2
      <4>2. Total(F, T \ {c}) = F[x] + Total(F, (T \ {c}) \ {x})
        BY <1>4, <2>1, <4>1
      <4>3. Total(F, T \ {x}) = F[c] + Total(F, (T \ {c}) \ {x})
        BY <1>4, <4>1
      <4>4. Total(F, T \ {c}) \in Nat /\ Total(F, T \ {x}) \in Nat /\ F[x] \in Nat /\ F[c] \in Nat
        BY <2>1, TotalNat
      <4>5. Total(F, (T \ {c}) \ {x}) \in Nat
        BY TotalNat
      <4> QED
        BY <2>2, <4>2, <4>3, <4>4, <4>5
    <3> QED
      BY <3>1, <3>2
  <2> QED
    BY <2>4
<1> HIDE DEF P
<1>5. P = SUBSET S
  <2>1. P \in SUBSET SUBSET S
    BY DEF P
  <2> QED
    BY <1>3, <1>4, <2>1, SubsetInduction
<1>6. S \in P
  BY <1>5
<1> QED
  BY <1>1, <1>6 DEF P

(* Sums of disjoint parts, of two functions that agree, and of one that      *)
(* differs at a point.                                                       *)
LEMMA TotalParts ==
  ASSUME NEW F, NEW S, IsFiniteSet(S), \A x \in S : F[x] \in Nat, NEW U \in SUBSET S
  PROVE  /\ Total(F, S) = Total(F, U) + Total(F, S \ U)
         /\ Total(F, U) \in Nat /\ Total(F, S \ U) \in Nat /\ Total(F, S) \in Nat
<1> DEFINE P == {T \in SUBSET S : Total(F, S) = Total(F, T) + Total(F, S \ T)}
<1>1. \A T \in SUBSET S : IsFiniteSet(T)
  BY FS_Subset
<1>2. \A T \in SUBSET S : Total(F, T) \in Nat
  BY TotalNat
<1>3. \A T \in SUBSET S : \A x \in T : Total(F, T) = F[x] + Total(F, T \ {x})
  BY <1>1, TotalStep
<1>4. S \in SUBSET S /\ \A T : S \ T \in SUBSET S
  OBVIOUS
<1>5. {} \in P
  <2>1. Total(F, {}) = 0 /\ S \ {} = S
    BY TotalStep
  <2> QED
    BY <1>2, <1>4, <2>1
<1>6. ASSUME NEW T \in SUBSET S, T # {}, \A x \in T : T \ {x} \in P
      PROVE  T \in P
  <2>1. PICK x \in T : TRUE
    BY <1>6
  <2>2. Total(F, S) = Total(F, T \ {x}) + Total(F, S \ (T \ {x}))
    BY <1>6
  <2>3. Total(F, T) = F[x] + Total(F, T \ {x})
    BY <1>3
  <2>4. Total(F, S \ (T \ {x})) = F[x] + Total(F, S \ T)
    <3>1. x \in S \ (T \ {x}) /\ (S \ (T \ {x})) \ {x} = S \ T
      OBVIOUS
    <3> QED
      BY <1>3, <1>4, <3>1
  <2>5. F[x] \in Nat /\ Total(F, S \ T) \in Nat /\ Total(F, T \ {x}) \in Nat
    <3>1. T \ {x} \in SUBSET S
      OBVIOUS
    <3> QED
      BY <1>2, <1>4, <3>1
  <2> QED
    BY <2>2, <2>3, <2>4, <2>5
<1> HIDE DEF P
<1>7. P = SUBSET S
  <2>1. P \in SUBSET SUBSET S
    BY DEF P
  <2> QED
    BY <1>5, <1>6, <2>1, SubsetInduction
<1>8. U \in P
  BY <1>7
<1> QED
  BY <1>2, <1>4, <1>8 DEF P

(* The sums of two functions that agree. *)
LEMMA TotalSame ==
  ASSUME NEW F, NEW G, NEW S, IsFiniteSet(S), \A x \in S : F[x] \in Nat /\ G[x] = F[x]
  PROVE  Total(G, S) = Total(F, S)
<1> DEFINE P == {T \in SUBSET S : Total(G, T) = Total(F, T)}
<1>1. \A T \in SUBSET S : IsFiniteSet(T)
  BY FS_Subset
<1>2. {} \in P
  <2>1. Total(F, {}) = 0 /\ Total(G, {}) = 0
    BY TotalStep
  <2> QED
    BY <2>1
<1>3. ASSUME NEW T \in SUBSET S, T # {}, \A x \in T : T \ {x} \in P
      PROVE  T \in P
  <2>1. PICK x \in T : TRUE
    BY <1>3
  <2>2. Total(F, T) = F[x] + Total(F, T \ {x}) /\ Total(G, T) = G[x] + Total(G, T \ {x})
    BY <1>1, TotalStep
  <2> QED
    BY <1>3, <2>1, <2>2
<1> HIDE DEF P
<1>4. P = SUBSET S
  <2>1. P \in SUBSET SUBSET S
    BY DEF P
  <2> QED
    BY <1>2, <1>3, <2>1, SubsetInduction
<1>5. S \in P
  BY <1>4
<1> QED
  BY <1>5 DEF P

(* The sum of one that differs at a point. *)
LEMMA TotalAt ==
  ASSUME NEW F, NEW G, NEW S, IsFiniteSet(S), NEW c \in S, NEW n \in Nat,
         \A x \in S : F[x] \in Nat /\ G[x] = IF x = c THEN F[x] + n ELSE F[x]
  PROVE  Total(G, S) = Total(F, S) + n
<1>1. IsFiniteSet(S \ {c})
  BY FS_RemoveElement
<1>2. Total(G, S \ {c}) = Total(F, S \ {c})
  BY <1>1, TotalSame
<1>3. /\ Total(F, S) = F[c] + Total(F, S \ {c})
      /\ Total(G, S) = G[c] + Total(G, S \ {c})
  <2>1. \A x \in S : G[x] \in Nat
    OBVIOUS
  <2> QED
    BY <2>1, TotalStep
<1>4. Total(F, S \ {c}) \in Nat
  <2>1. S \ {c} \in SUBSET S
    OBVIOUS
  <2> QED
    BY <2>1, TotalNat
<1> QED
  BY <1>2, <1>3, <1>4

-----------------------------------------------------------------------------
(* Running sums: off[i] is the sum of the first i of the lengths len. *)
Ends(off, len, n) ==
  /\ off[0] = 0 /\ \A i \in 0 .. n : off[i] \in Nat
  /\ \A i \in 1 .. n : len[i] \in Nat /\ off[i] = off[i - 1] + len[i]

(* They can be computed, *)
LEMMA EndsExist ==
  ASSUME NEW len, NEW n \in Nat, \A i \in 1 .. n : len[i] \in Nat
  PROVE  \E off : Ends(off, len, n)
<1> DEFINE N == {k \in Nat : k <= n => \E off : Ends(off, len, k)}
<1>1. 0 \in N
  <2>1. Ends([i \in {0} |-> 0], len, 0)
    BY DEF Ends
  <2> QED
    BY <2>1
<1>2. ASSUME NEW k \in N PROVE k + 1 \in N
  <2>0. k \in Nat
    OBVIOUS
  <2> SUFFICES ASSUME k + 1 <= n PROVE \E off : Ends(off, len, k + 1)
    BY <2>0
  <2>1. PICK f : Ends(f, len, k)
    BY <2>0
  <2> DEFINE g == [i \in 0 .. k + 1 |-> IF i = k + 1 THEN f[k] + len[k + 1] ELSE f[i]]
  <2>2. f[k] \in Nat /\ len[k + 1] \in Nat
    BY <2>0, <2>1 DEF Ends
  <2>3. g[0] = 0
    BY <2>0, <2>1 DEF Ends
  <2>4. ASSUME NEW i \in 0 .. k + 1 PROVE g[i] \in Nat
    BY <2>0, <2>1, <2>2 DEF Ends
  <2>5. ASSUME NEW i \in 1 .. k + 1 PROVE len[i] \in Nat /\ g[i] = g[i - 1] + len[i]
    <3>1. i - 1 \in 0 .. k + 1 /\ i - 1 # k + 1 /\ i \in 0 .. k + 1
      BY <2>0
    <3>2. g[i - 1] = f[i - 1]
      BY <3>1
    <3>3. CASE i = k + 1
      BY <2>0, <2>2, <3>1, <3>2, <3>3
    <3>4. CASE i # k + 1
      <4>1. i \in 1 .. k /\ g[i] = f[i]
        BY <2>0, <3>1, <3>4
      <4>2. f[i] = f[i - 1] + len[i] /\ len[i] \in Nat
        BY <2>1, <4>1 DEF Ends
      <4> QED
        BY <3>2, <4>1, <4>2
    <3> QED
      BY <3>3, <3>4
  <2> HIDE DEF g
  <2>6. Ends(g, len, k + 1)
    BY <2>3, <2>4, <2>5 DEF Ends
  <2> QED
    BY <2>6
<1>3. N = Nat
  <2> HIDE DEF N
  <2>1. N \in SUBSET Nat
    BY DEF N
  <2> QED
    BY <1>1, <1>2, <2>1, SetInduction
<1>4. n \in N
  BY <1>3
<1> QED
  BY <1>4

(* and never fall. *)
LEMMA EndsGrow ==
  ASSUME NEW len, NEW n \in Nat, NEW off, Ends(off, len, n),
         NEW j \in 0 .. n, NEW i \in 0 .. j
  PROVE  off[i] <= off[j]
<1> DEFINE T == {k \in Nat : i + k <= n => off[i] <= off[i + k]}
<1>1. 0 \in T
  BY DEF Ends
<1>2. ASSUME NEW k \in T PROVE k + 1 \in T
  <2>0. k \in Nat
    OBVIOUS
  <2> SUFFICES ASSUME i + (k + 1) <= n PROVE off[i] <= off[i + (k + 1)]
    BY <2>0
  <2>1. off[i] <= off[i + k]
    BY <2>0
  <2>2. i + (k + 1) \in 1 .. n /\ (i + (k + 1)) - 1 = i + k /\ i + k \in 0 .. n /\ i \in 0 .. n
    BY <2>0
  <2>3. off[i + (k + 1)] = off[i + k] + len[i + (k + 1)] /\ len[i + (k + 1)] \in Nat
    BY <2>2 DEF Ends
  <2>4. off[i + k] \in Nat /\ off[i] \in Nat
    BY <2>2 DEF Ends
  <2> QED
    BY <2>1, <2>3, <2>4
<1>3. T = Nat
  <2> HIDE DEF T
  <2>1. T \in SUBSET Nat
    BY DEF T
  <2> QED
    BY <1>1, <1>2, <2>1, SetInduction
<1>4. j - i \in Nat /\ i + (j - i) = j /\ j <= n
  OBVIOUS
<1>5. i + (j - i) <= n => off[i] <= off[i + (j - i)]
  BY <1>3, <1>4
<1> QED
  BY <1>4, <1>5

(* No two places are at the same distance from the start. *)
LEMMA PlaceUnique ==
  ASSUME NEW len, NEW n \in Nat, NEW off, Ends(off, len, n),
         NEW i \in 1 .. n, NEW j \in 1 .. len[i],
         NEW k \in 1 .. n, NEW l \in 1 .. len[k], off[i - 1] + j = off[k - 1] + l
  PROVE  i = k /\ j = l
<1>1. /\ i - 1 \in 0 .. n /\ k - 1 \in 0 .. n /\ i \in 0 .. n /\ k \in 0 .. n
      /\ (i < k => i \in 0 .. k - 1) /\ (k < i => k \in 0 .. i - 1)
  OBVIOUS
<1>2. (i < k => off[i] <= off[k - 1]) /\ (k < i => off[k] <= off[i - 1])
  BY <1>1, EndsGrow
<1>3. /\ off[i] = off[i - 1] + len[i] /\ off[k] = off[k - 1] + len[k]
      /\ len[i] \in Nat /\ len[k] \in Nat /\ off[i - 1] \in Nat /\ off[k - 1] \in Nat
  BY <1>1 DEF Ends
<1>4. ~(i < k) /\ ~(k < i)
  BY <1>2, <1>3
<1>5. i = k
  BY <1>4
<1> QED
  BY <1>3, <1>5

(* Where the sum of a longer row ends. *)
LEMMA EndsShift ==
  ASSUME NEW len, NEW ext, NEW n \in Nat, NEW off, Ends(off, len, n), NEW oft, Ends(oft, ext, n),
         NEW c \in Nat \ {0}, NEW d \in Nat,
         \A i \in 1 .. n : ext[i] = IF i = c THEN len[i] + d ELSE len[i],
         NEW m \in 0 .. n
  PROVE  oft[m] = IF m >= c THEN off[m] + d ELSE off[m]
<1> DEFINE T == {k \in Nat : k <= n => oft[k] = IF k >= c THEN off[k] + d ELSE off[k]}
<1>1. 0 \in T
  BY DEF Ends
<1>2. ASSUME NEW k \in T PROVE k + 1 \in T
  <2>0. k \in Nat
    OBVIOUS
  <2> SUFFICES ASSUME k + 1 <= n
               PROVE  oft[k + 1] = IF k + 1 >= c THEN off[k + 1] + d ELSE off[k + 1]
    BY <2>0
  <2>1. oft[k] = IF k >= c THEN off[k] + d ELSE off[k]
    BY <2>0
  <2>2. k + 1 \in 1 .. n /\ k + 1 - 1 = k /\ k \in 0 .. n
    BY <2>0
  <2>3. /\ off[k + 1] = off[k] + len[k + 1] /\ oft[k + 1] = oft[k] + ext[k + 1]
        /\ off[k] \in Nat /\ len[k + 1] \in Nat
    BY <2>2 DEF Ends
  <2>4. ext[k + 1] = IF k + 1 = c THEN len[k + 1] + d ELSE len[k + 1]
    BY <2>2
  <2> HIDE DEF T
  <2>5. CASE k + 1 = c
    BY <2>0, <2>1, <2>3, <2>4, <2>5
  <2>6. CASE k + 1 > c
    BY <2>0, <2>1, <2>3, <2>4, <2>6
  <2>7. CASE k + 1 < c
    BY <2>0, <2>1, <2>3, <2>4, <2>7
  <2> QED
    BY <2>0, <2>5, <2>6, <2>7
<1>3. T = Nat
  <2> HIDE DEF T
  <2>1. T \in SUBSET Nat
    BY DEF T
  <2> QED
    BY <1>1, <1>2, <2>1, SetInduction
<1>4. m \in T
  BY <1>3
<1> QED
  BY <1>4

(* They depend on the lengths before them only. *)
LEMMA EndsPrefix ==
  ASSUME NEW len, NEW n \in Nat, NEW off, Ends(off, len, n), NEW m \in 0 .. n
  PROVE  Ends(off, len, m)
BY DEF Ends

(* Every element up to the end lies in a row. *)
LEMMA PlaceExists ==
  ASSUME NEW len, NEW n \in Nat, NEW off, Ends(off, len, n), NEW k \in 1 .. off[n]
  PROVE  \E i \in 1 .. n : \E j \in 1 .. len[i] : k = off[i - 1] + j
<1> DEFINE T == {m \in Nat : m <= n /\ k <= off[m]}
<1>1. T \in SUBSET Nat /\ n \in T /\ 0 \notin T
  BY DEF Ends
<1> HIDE DEF T
<1>2. PICK i \in T : \A m \in T : i <= m
  BY <1>1, LeastElement
<1>3. i \in 1 .. n /\ i - 1 \in 0 .. n /\ i - 1 \notin T
  BY <1>1, <1>2 DEF T
<1>4. off[i - 1] < k /\ k <= off[i] /\ off[i] = off[i - 1] + len[i] /\ off[i - 1] \in Nat /\ len[i] \in Nat
  BY <1>2, <1>3 DEF T, Ends
<1>5. k - off[i - 1] \in 1 .. len[i] /\ k = off[i - 1] + (k - off[i - 1])
  BY <1>3, <1>4
<1> QED
  BY <1>3, <1>5

-----------------------------------------------------------------------------
(* Forests: the nodes D, below each node x the nodes k[x], and the roots R.  *)
ClosedUnder(k, T) == \A x \in T : k[x] \subseteq T
Within(D, k, c, T) == T \subseteq D /\ c \in T /\ ClosedUnder(k, T)
Reach(D, k, c) == {x \in D : \A T \in SUBSET D : Within(D, k, c, T) => x \in T}
Rooted(k, T) == \E x \in T : \A y \in T : x \notin k[y]
Beneath(D, k) == UNION {k[x] : x \in D}
Forest(D, k, R) ==
  /\ D = R \cup Beneath(D, k)
  /\ \A x \in D : k[x] \cap R = {}
  /\ \A x \in D : \A y \in D \ {x} : k[x] \cap k[y] = {}
  /\ \A T \in SUBSET D : T # {} => Rooted(k, T)

(* The roots are nodes, and so is what is below a node. *)
LEMMA ForestKids ==
  ASSUME NEW D, NEW k, NEW R, Forest(D, k, R)
  PROVE  R \subseteq D /\ ClosedUnder(k, D)
BY DEF Forest, ClosedUnder, Beneath

(* What can be reached is the least closed set, *)
LEMMA ReachLeast ==
  ASSUME NEW D, NEW k, NEW c, NEW T, Within(D, k, c, T)
  PROVE  Reach(D, k, c) \subseteq T
<1>1. T \in SUBSET D
  BY DEF Within
<1> QED
  BY <1>1 DEF Reach

(* and closed itself. *)
LEMMA ReachIs ==
  ASSUME NEW D, NEW k, ClosedUnder(k, D), NEW c \in D
  PROVE  Within(D, k, c, Reach(D, k, c))
<1>1. c \in Reach(D, k, c) /\ Reach(D, k, c) \subseteq D
  BY DEF Reach, Within
<1>2. ASSUME NEW x \in Reach(D, k, c), NEW y \in k[x] PROVE y \in Reach(D, k, c)
  <2>1. y \in D
    BY <1>1, <1>2 DEF ClosedUnder
  <2>2. ASSUME NEW T \in SUBSET D, Within(D, k, c, T) PROVE y \in T
    <3>1. x \in T
      BY <2>2, <1>2 DEF Reach
    <3> QED
      BY <1>2, <2>2, <3>1 DEF Within, ClosedUnder
  <2> QED
    BY <2>1, <2>2 DEF Reach
<1> QED
  BY <1>1, <1>2 DEF Within, ClosedUnder

(* Whatever else is in it lies below a member. *)
LEMMA ReachParent ==
  ASSUME NEW D, NEW k, ClosedUnder(k, D), NEW c \in D, NEW x \in Reach(D, k, c), x # c
  PROVE  \E y \in Reach(D, k, c) : x \in k[y]
<1> DEFINE T == Reach(D, k, c) \ {x}
<1>1. Within(D, k, c, Reach(D, k, c))
  BY ReachIs
<1>2. SUFFICES ASSUME \A y \in Reach(D, k, c) : x \notin k[y] PROVE FALSE
  OBVIOUS
<1>3. Within(D, k, c, T)
  BY <1>1, <1>2 DEF Within, ClosedUnder
<1>4. Reach(D, k, c) \subseteq T
  BY <1>3, ReachLeast
<1> QED
  BY <1>4

(* A node outside has nothing inside, but perhaps the top. *)
LEMMA ReachOutside ==
  ASSUME NEW D, NEW k, NEW R, Forest(D, k, R), NEW c \in D,
         NEW y \in D, y \notin Reach(D, k, c), NEW x \in k[y], x # c
  PROVE  x \notin Reach(D, k, c)
<1>1. ClosedUnder(k, D) /\ Within(D, k, c, Reach(D, k, c))
  BY ForestKids, ReachIs
<1>2. SUFFICES ASSUME x \in Reach(D, k, c) PROVE FALSE
  OBVIOUS
<1>3. PICK z \in Reach(D, k, c) : x \in k[z]
  BY <1>1, <1>2, ReachParent
<1>4. z \in D /\ z # y
  BY <1>1 DEF Within
<1> QED
  BY <1>3, <1>4 DEF Forest

(* No root but the node itself can be reached from a node. *)
LEMMA ReachRoots ==
  ASSUME NEW D, NEW k, NEW R, Forest(D, k, R), NEW c \in D
  PROVE  Reach(D, k, c) \cap R \subseteq {c}
<1>1. ClosedUnder(k, D) /\ Within(D, k, c, Reach(D, k, c))
  BY ForestKids, ReachIs
<1>2. SUFFICES ASSUME NEW x \in Reach(D, k, c), x \in R, x # c PROVE FALSE
  OBVIOUS
<1>3. PICK z \in Reach(D, k, c) : x \in k[z]
  BY <1>1, <1>2, ReachParent
<1> QED
  BY <1>1, <1>2, <1>3 DEF Forest, Within

(* Nothing lies below itself. *)
LEMMA ReachUp ==
  ASSUME NEW D, NEW k, NEW R, Forest(D, k, R), NEW c \in D, NEW u \in k[c]
  PROVE  u \in D /\ c \notin Reach(D, k, u)
<1>1. ClosedUnder(k, D)
  BY ForestKids
<1>2. u \in D
  BY <1>1 DEF ClosedUnder
<1>3. Within(D, k, u, Reach(D, k, u))
  BY <1>1, <1>2, ReachIs
<1>4. SUFFICES ASSUME c \in Reach(D, k, u) PROVE FALSE
  BY <1>2
<1>5. Reach(D, k, u) \in SUBSET D /\ Reach(D, k, u) # {}
  BY <1>3 DEF Within
<1>6. PICK x \in Reach(D, k, u) : \A y \in Reach(D, k, u) : x \notin k[y]
  BY <1>5 DEF Forest, Rooted
<1>7. x # u
  BY <1>4, <1>6
<1> QED
  BY <1>1, <1>2, <1>6, <1>7, ReachParent

(* A new node without anything below it is a root. *)
LEMMA ForestAdd ==
  ASSUME NEW D, NEW k, NEW R, Forest(D, k, R), NEW b, b \notin D,
         NEW h, \A x \in D : h[x] = k[x], h[b] = {}
  PROVE  Forest(D \cup {b}, h, R \cup {b})
<1> DEFINE E == D \cup {b}
<1>1. R \subseteq D /\ \A x \in D : k[x] \subseteq D
  BY ForestKids DEF ClosedUnder
<1>2. E = (R \cup {b}) \cup Beneath(E, h)
  <2>1. D = R \cup Beneath(D, k)
    BY DEF Forest
  <2>2. Beneath(E, h) = Beneath(D, k)
    BY DEF Beneath
  <2> QED
    BY <2>1, <2>2
<1>3. \A x \in E : h[x] \cap (R \cup {b}) = {}
  BY <1>1 DEF Forest
<1>4. \A x \in E : \A y \in E \ {x} : h[x] \cap h[y] = {}
  BY DEF Forest
<1>5. ASSUME NEW T \in SUBSET E, T # {} PROVE Rooted(h, T)
  <2>1. CASE T = {b}
    BY <2>1 DEF Rooted
  <2>2. CASE T # {b}
    <3>1. T \ {b} \in SUBSET D /\ T \ {b} # {}
      BY <1>5, <2>2
    <3>2. PICK x \in T \ {b} : \A y \in T \ {b} : x \notin k[y]
      BY <3>1 DEF Forest, Rooted
    <3>3. \A y \in T : x \notin h[y]
      BY <3>1, <3>2
    <3> QED
      BY <3>2, <3>3 DEF Rooted
  <2> QED
    BY <2>1, <2>2
<1> QED
  BY <1>2, <1>3, <1>4, <1>5 DEF Forest

(* A root becomes what lies below a node outside its tree. *)
LEMMA ForestGraft ==
  ASSUME NEW D, NEW k, NEW R, Forest(D, k, R), NEW v \in R, NEW c \in D, c \notin Reach(D, k, v),
         NEW h, \A x \in D : h[x] = IF x = c THEN k[c] \cup {v} ELSE k[x]
  PROVE  Forest(D, h, R \ {v})
<1>1. R \subseteq D /\ ClosedUnder(k, D) /\ v \in D
  BY ForestKids
<1>2. Within(D, k, v, Reach(D, k, v))
  BY <1>1, ReachIs
<1>3. \A x \in D : v \notin k[x]
  BY DEF Forest
<1>4. D = (R \ {v}) \cup Beneath(D, h)
  <2>1. D = R \cup Beneath(D, k)
    BY DEF Forest
  <2>2. Beneath(D, h) = Beneath(D, k) \cup {v}
    BY DEF Beneath
  <2> QED
    BY <2>1, <2>2
<1>5. \A x \in D : h[x] \cap (R \ {v}) = {}
  BY DEF Forest
<1>6. \A x \in D : \A y \in D \ {x} : h[x] \cap h[y] = {}
  BY <1>3 DEF Forest
<1>7. ASSUME NEW T \in SUBSET D, T # {} PROVE Rooted(h, T)
  <2> DEFINE U == T \ Reach(D, k, v)
  <2>1. CASE U = {}
    <3>1. c \notin T
      BY <2>1
    <3>2. PICK x \in T : \A y \in T : x \notin k[y]
      BY <1>7 DEF Forest, Rooted
    <3>3. \A y \in T : x \notin h[y]
      BY <3>1, <3>2
    <3> QED
      BY <3>3 DEF Rooted
  <2>2. CASE U # {}
    <3>1. U \in SUBSET D
      OBVIOUS
    <3>2. PICK x \in U : \A y \in U : x \notin k[y]
      BY <2>2, <3>1 DEF Forest, Rooted
    <3>3. ASSUME NEW y \in T PROVE x \notin h[y]
      <4>1. x # v /\ x \notin Reach(D, k, v)
        BY <1>2, <3>2 DEF Within
      <4>2. CASE y \in Reach(D, k, v)
        BY <1>2, <4>1, <4>2 DEF Within, ClosedUnder
      <4>3. CASE y \notin Reach(D, k, v)
        BY <3>2, <4>1, <4>3
      <4> QED
        BY <4>2, <4>3
    <3> QED
      BY <3>2, <3>3 DEF Rooted
  <2> QED
    BY <2>1, <2>2
<1> QED
  BY <1>4, <1>5, <1>6, <1>7 DEF Forest

(* What lay below a node becomes a root; its tree stays what it was. *)
LEMMA ForestCut ==
  ASSUME NEW D, NEW k, NEW R, Forest(D, k, R), NEW c \in D, NEW u \in k[c],
         NEW h, \A x \in D : h[x] = IF x = c THEN k[c] \ {u} ELSE k[x]
  PROVE  Forest(D, h, R \cup {u})
<1>3. \A x \in D : h[x] \subseteq k[x]
  OBVIOUS
<1>4. D = (R \cup {u}) \cup Beneath(D, h)
  <2>1. D = R \cup Beneath(D, k)
    BY DEF Forest
  <2>2. Beneath(D, h) \cup {u} = Beneath(D, k)
    BY DEF Beneath
  <2> QED
    BY <2>1, <2>2
<1>5. \A x \in D : h[x] \cap (R \cup {u}) = {}
  BY DEF Forest
<1>6. \A x \in D : \A y \in D \ {x} : h[x] \cap h[y] = {}
  BY <1>3 DEF Forest
<1>7. ASSUME NEW T \in SUBSET D, T # {} PROVE Rooted(h, T)
  <2>1. PICK x \in T : \A y \in T : x \notin k[y]
    BY <1>7 DEF Forest, Rooted
  <2> QED
    BY <1>3, <2>1 DEF Rooted
<1> QED
  BY <1>4, <1>5, <1>6, <1>7 DEF Forest

(* What can be reached from the node cut off stays what it was. *)
LEMMA ReachCut ==
  ASSUME NEW D, NEW k, NEW R, Forest(D, k, R), NEW c \in D, NEW u \in k[c],
         NEW h, \A x \in D : h[x] = IF x = c THEN k[c] \ {u} ELSE k[x]
  PROVE  Reach(D, h, u) = Reach(D, k, u)
<1>1. R \subseteq D /\ ClosedUnder(k, D)
  BY ForestKids
<1>2. u \in D /\ c \notin Reach(D, k, u)
  BY ReachUp
<1>3. \A x \in D : h[x] \subseteq k[x]
  OBVIOUS
<1>8. Forest(D, h, R \cup {u})
  BY ForestCut
<1>9. Within(D, k, u, Reach(D, k, u)) /\ Within(D, h, u, Reach(D, h, u))
  BY <1>1, <1>2, <1>8, ForestKids, ReachIs
<1>10. Within(D, h, u, Reach(D, k, u))
  BY <1>3, <1>9 DEF Within, ClosedUnder
<1>11. Reach(D, h, u) \subseteq Reach(D, k, u)
  BY <1>10, ReachLeast
<1>12. Within(D, k, u, Reach(D, h, u))
  BY <1>2, <1>9, <1>11 DEF Within, ClosedUnder
<1>13. Reach(D, k, u) \subseteq Reach(D, h, u)
  BY <1>12, ReachLeast
<1> QED
  BY <1>11, <1>13

(* A tree is given up. *)
LEMMA ForestDrop ==
  ASSUME NEW D, NEW k, NEW R, Forest(D, k, R), NEW v \in R
  PROVE  Forest(D \ Reach(D, k, v), k, R \ {v})
<1> DEFINE G == Reach(D, k, v)
           E == D \ G
<1>1. R \subseteq D /\ ClosedUnder(k, D) /\ v \in D
  BY ForestKids
<1>2. Within(D, k, v, G)
  BY <1>1, ReachIs
<1>3. G \cap R = {v}
  BY <1>1, <1>2, ReachRoots DEF Within
<1>4. ASSUME NEW y \in E, NEW x \in k[y] PROVE x \in E
  <2>1. x \in D /\ x # v
    BY <1>1 DEF ClosedUnder, Forest
  <2>2. x \notin G
    BY <1>1, <2>1, ReachOutside
  <2> QED
    BY <2>1, <2>2
<1> HIDE DEF G
<1>5. E = (R \ {v}) \cup Beneath(E, k)
  <2>1. D = R \cup Beneath(D, k)
    BY DEF Forest
  <2>2. Beneath(E, k) \subseteq E
    BY <1>4 DEF Beneath
  <2>3. ASSUME NEW x \in E, x \notin R PROVE x \in Beneath(E, k)
    <3>1. PICK y \in D : x \in k[y]
      BY <2>1, <2>3 DEF Beneath
    <3>2. y \notin G
      BY <1>2, <3>1 DEF Within, ClosedUnder
    <3> QED
      BY <3>1, <3>2 DEF Beneath
  <2> QED
    BY <1>1, <1>3, <2>2, <2>3
<1>6. \A x \in E : k[x] \cap (R \ {v}) = {}
  BY DEF Forest
<1>7. \A x \in E : \A y \in E \ {x} : k[x] \cap k[y] = {}
  BY DEF Forest
<1>8. ASSUME NEW T \in SUBSET E, T # {} PROVE Rooted(k, T)
  <2>1. T \in SUBSET D
    OBVIOUS
  <2> QED
    BY <1>8, <2>1 DEF Forest
<1>9. Forest(E, k, R \ {v})
  BY <1>5, <1>6, <1>7, <1>8 DEF Forest
<1> QED
  BY <1>9 DEF G

(* Only the nodes and what is below each of them matter. *)
LEMMA ForestSame ==
  ASSUME NEW D, NEW k, NEW R, Forest(D, k, R), NEW h, \A x \in D : h[x] = k[x]
  PROVE  Forest(D, h, R)
<1>1. Beneath(D, h) = Beneath(D, k)
  BY DEF Beneath
<1>2. ASSUME NEW T \in SUBSET D, T # {} PROVE Rooted(h, T)
  BY <1>2 DEF Forest, Rooted
<1> QED
  BY <1>1, <1>2 DEF Forest

(* A node's old part u goes with its tree, and the root v takes its place. *)
LEMMA ForestSwap ==
  ASSUME NEW D, NEW k, NEW R, Forest(D, k, R), NEW c \in D, NEW u \in k[c],
         NEW v \in R, c \notin Reach(D, k, v),
         NEW h, \A x \in D : h[x] = IF x = c THEN (k[c] \ {u}) \cup {v} ELSE k[x]
  PROVE  Forest(D \ Reach(D, k, u), h, R \ {v})
<1> DEFINE cut == [x \in D |-> IF x = c THEN k[c] \ {u} ELSE k[x]]
           G == Reach(D, k, u)
           E == D \ G
<1>1. Forest(D, cut, R \cup {u}) /\ Reach(D, cut, u) = G
  <2>1. \A x \in D : cut[x] = IF x = c THEN k[c] \ {u} ELSE k[x]
    OBVIOUS
  <2> HIDE DEF cut
  <2>2. Forest(D, cut, R \cup {u})
    BY <2>1, ForestCut
  <2>3. Reach(D, cut, u) = Reach(D, k, u)
    BY <2>1, ReachCut
  <2> QED
    BY <2>2, <2>3
<1>2. u \in D /\ c \notin G /\ R \subseteq D /\ ClosedUnder(k, D) /\ u \notin R
  BY ReachUp, ForestKids DEF Forest
<1>3. Forest(E, cut, (R \cup {u}) \ {u})
  BY <1>1, ForestDrop
<1>4. (R \cup {u}) \ {u} = R /\ c \in E /\ v # u
  BY <1>2
<1>5. v \notin G
  BY <1>2, <1>4, ReachRoots
<1>6. Within(D, k, v, Reach(D, k, v))
  BY <1>2, ReachIs
<1>7. ClosedUnder(cut, E)
  BY <1>3, ForestKids
<1>8. Within(E, cut, v, Reach(D, k, v) \cap E)
  <2>1. v \in E /\ v \in Reach(D, k, v)
    BY <1>2, <1>5, <1>6 DEF Within
  <2>2. ASSUME NEW x \in Reach(D, k, v) \cap E PROVE cut[x] \subseteq Reach(D, k, v) \cap E
    <3>1. x \in D /\ cut[x] \subseteq k[x] /\ cut[x] \subseteq E
      BY <1>7 DEF ClosedUnder
    <3> QED
      BY <1>6, <3>1 DEF Within, ClosedUnder
  <2> HIDE DEF cut, E
  <2> QED
    BY <2>1, <2>2 DEF Within, ClosedUnder
<1>9. c \notin Reach(E, cut, v)
  BY <1>8, ReachLeast
<1>10. \A x \in E : h[x] = IF x = c THEN cut[c] \cup {v} ELSE cut[x]
  OBVIOUS
<1> HIDE DEF cut, G, E
<1>11. Forest(E, cut, R)
  BY <1>3, <1>4
<1>12. Forest(E, h, R \ {v})
  BY <1>4, <1>9, <1>10, <1>11, ForestGraft
<1> QED
  BY <1>12 DEF E, G
=============================================================================
