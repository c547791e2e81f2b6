---------------------- MODULE CjsonNumberValue_proofs ----------------------
(***************************************************************************)
(* What a numeral is worth, for every width of the integers and numerals   *)
(* of every length: the accumulators hold what the parts of the numeral    *)
(* read so far denote.                                                     *)
(***************************************************************************)
EXTENDS CjsonNumberValue, CjsonInduction_proofs, FiniteSetTheorems

-----------------------------------------------------------------------------
(* Powers of two: 2 ^ n counts the subsets of 1 .. n. *)
LEMMA PowerIsNat ==
  ASSUME NEW n \in Nat
  PROVE  2 ^ n \in Nat \ {0}
<1>1. IsFiniteSet(1 .. n) /\ Cardinality(1 .. n) = n
  BY FS_Interval
<1>2. IsFiniteSet(SUBSET (1 .. n)) /\ Cardinality(SUBSET (1 .. n)) = 2 ^ n
  BY <1>1, FS_SUBSET
<1>3. Cardinality(SUBSET (1 .. n)) \in Nat
  BY <1>2, FS_CardinalityType
<1>4. Cardinality(SUBSET (1 .. n)) # 0
  BY <1>2, FS_EmptySet
<1> QED
  BY <1>2, <1>3, <1>4

LEMMA WidePower ==
  ASSUME NEW n \in Nat, n >= 4
  PROVE  2 ^ n >= 16
<1>1. IsFiniteSet(1 .. n) /\ Cardinality(1 .. n) = n
  BY FS_Interval
<1>2. 4 \in Int /\ 1 \in Int
  OBVIOUS
<1>3. IsFiniteSet(1 .. 4) /\ Cardinality(1 .. 4) = IF 1 > 4 THEN 0 ELSE 4 - 1 + 1
  BY <1>2, FS_Interval
<1>4. IsFiniteSet(SUBSET (1 .. n)) /\ Cardinality(SUBSET (1 .. n)) = 2 ^ n
  BY <1>1, FS_SUBSET
<1>5. Cardinality(1 .. 4) = 4
  BY <1>3
<1>6. IsFiniteSet(SUBSET (1 .. 4)) /\ Cardinality(SUBSET (1 .. 4)) = 2 ^ 4
  BY <1>3, <1>5, FS_SUBSET
<1>7. SUBSET (1 .. 4) \subseteq SUBSET (1 .. n)
  OBVIOUS
<1>8. Cardinality(SUBSET (1 .. 4)) <= Cardinality(SUBSET (1 .. n))
  BY <1>4, <1>7, FS_Subset
<1>9. 2 ^ 4 = 16
  OBVIOUS
<1> QED
  BY <1>4, <1>6, <1>8, <1>9

(* The limit of the integer arithmetic leaves room for one more digit. *)
LEMMA Limits ==
  /\ 2 ^ Width \in Nat /\ 2 ^ Width >= 16
  /\ ULONG_MAX \in Nat /\ ULONG_MAX \div 10 \in Nat
  /\ \A v \in Nat, w \in 0 .. 9 :
       v < ULONG_MAX \div 10 => v * 10 + w \in ULONG /\ (v * 10 + w) % 2 ^ Width = v * 10 + w
<1>1. 2 ^ Width \in Nat /\ 2 ^ Width >= 16
  BY PowerIsNat, WidePower, NumberValueAssumption
<1> DEFINE M == 2 ^ Width
<1>2. M \in Nat /\ M >= 16
  BY <1>1
<1>3. ULONG_MAX = M - 1 /\ ULONG = 0 .. M - 1
  BY DEF ULONG_MAX, ULONG
<1> HIDE DEF M
<1>4. ULONG_MAX \in Nat /\ ULONG_MAX \div 10 \in Nat
  BY <1>2, <1>3
<1>5. ASSUME NEW v \in Nat, NEW w \in 0 .. 9, v < ULONG_MAX \div 10
      PROVE  v * 10 + w \in ULONG /\ (v * 10 + w) % M = v * 10 + w
  BY <1>2, <1>3, <1>5
<1> QED
  BY <1>1, <1>4, <1>5 DEF M

-----------------------------------------------------------------------------
(* The function Spelled recurs on, for the first bytes of s. *)
Sums(f, s, N) ==
  f = [i \in N |-> IF i = 0 THEN 0 ELSE f[i - 1] * 10 + Worth(s[i])]

LEMMA SumExists ==
  ASSUME NEW s, NEW n \in Nat
  PROVE  \E f : Sums(f, s, 0 .. n)
<1> DEFINE T == {k \in Nat : \E f : Sums(f, s, 0 .. k)}
<1>1. 0 \in T
  <2> DEFINE f == [i \in 0 .. 0 |-> 0]
  <2>1. ASSUME NEW i \in 0 .. 0
        PROVE  f[i] = IF i = 0 THEN 0 ELSE f[i - 1] * 10 + Worth(s[i])
    OBVIOUS
  <2>2. Sums(f, s, 0 .. 0)
    BY <2>1 DEF Sums
  <2> QED
    BY <2>2
<1>2. ASSUME NEW k \in T PROVE k + 1 \in T
  <2>1. PICK f : Sums(f, s, 0 .. k)
    BY <1>2
  <2> DEFINE g == [i \in 0 .. k + 1 |-> IF i \in 0 .. k THEN f[i]
                                        ELSE f[i - 1] * 10 + Worth(s[i])]
  <2>2. ASSUME NEW i \in 0 .. k + 1
        PROVE  g[i] = IF i = 0 THEN 0 ELSE g[i - 1] * 10 + Worth(s[i])
    <3>1. CASE i \in 0 .. k
      <4>1. f[i] = IF i = 0 THEN 0 ELSE f[i - 1] * 10 + Worth(s[i])
        BY <2>1, <3>1 DEF Sums
      <4>2. i # 0 => i - 1 \in 0 .. k
        BY <3>1
      <4> QED
        BY <3>1, <4>1, <4>2
    <3>2. CASE i = k + 1
      <4>1. i # 0 /\ i - 1 \in 0 .. k /\ i \notin 0 .. k
        BY <3>2
      <4> QED
        BY <3>2, <4>1
    <3> QED
      BY <3>1, <3>2
  <2>3. Sums(g, s, 0 .. k + 1)
    BY <2>2 DEF Sums
  <2> QED
    BY <2>3
<1>3. T = Nat
  <2> HIDE DEF T
  <2>1. T \in SUBSET Nat
    BY DEF T
  <2> QED
    BY <1>1, <1>2, <2>1, SetInduction
<1> QED
  BY <1>3

(* s and t have the first n bytes in common. *)
Begins(s, t, n) == \A i \in 1 .. n : s[i] = t[i]

LEMMA SumAgrees ==
  ASSUME NEW s, NEW t, NEW f, NEW g, NEW n \in Nat, NEW m \in Nat, n <= m,
         Sums(f, s, 0 .. n), Sums(g, t, 0 .. m), Begins(s, t, n)
  PROVE  f[n] = g[n]
<1> DEFINE T == {k \in Nat : k <= n => f[k] = g[k]}
<1>1. /\ \A i \in 0 .. n : f[i] = IF i = 0 THEN 0 ELSE f[i - 1] * 10 + Worth(s[i])
      /\ \A i \in 0 .. m : g[i] = IF i = 0 THEN 0 ELSE g[i - 1] * 10 + Worth(t[i])
  BY DEF Sums
<1>2. 0 \in T
  BY <1>1
<1>3. ASSUME NEW k \in T PROVE k + 1 \in T
  <2> SUFFICES ASSUME k + 1 <= n PROVE f[k + 1] = g[k + 1]
    OBVIOUS
  <2>1. f[k] = g[k] /\ s[k + 1] = t[k + 1]
    BY DEF Begins
  <2>2. k + 1 \in 0 .. n /\ k + 1 \in 0 .. m /\ k + 1 # 0 /\ k + 1 - 1 = k
    OBVIOUS
  <2>3. f[k + 1] = f[k] * 10 + Worth(s[k + 1]) /\ g[k + 1] = g[k] * 10 + Worth(t[k + 1])
    BY <1>1, <2>2
  <2> QED
    BY <2>1, <2>3
<1>4. T = Nat
  <2> HIDE DEF T
  <2>1. T \in SUBSET Nat
    BY DEF T
  <2> QED
    BY <1>2, <1>3, <2>1, SetInduction
<1> QED
  BY <1>4

LEMMA SpelledSum ==
  ASSUME NEW S, NEW s \in Seq(S)
  PROVE  \E f : Sums(f, s, 0 .. Len(s)) /\ Spelled(s) = f[Len(s)]
<1>1. Len(s) \in Nat
  BY LenProperties
<1> DEFINE h == CHOOSE f : f = [i \in 0 .. Len(s) |-> IF i = 0 THEN 0 ELSE f[i - 1] * 10 + Worth(s[i])]
<1>2. Sums(h, s, 0 .. Len(s))
  BY <1>1, SumExists DEF Sums
<1>3. Spelled(s) = h[Len(s)]
  BY DEF Spelled
<1> QED
  BY <1>2, <1>3

LEMMA SpelledEmpty == Spelled(<< >>) = 0
<1>1. << >> \in Seq({}) /\ Len(<< >>) = 0
  BY EmptySeq
<1>2. PICK f : Sums(f, << >>, 0 .. 0) /\ Spelled(<< >>) = f[0]
  BY <1>1, SpelledSum
<1>3. f[0] = 0
  BY <1>2 DEF Sums
<1> QED
  BY <1>2, <1>3

LEMMA SumStep ==
  ASSUME NEW s, NEW n \in Nat, NEW g, Sums(g, s, 0 .. n + 1)
  PROVE  g[n + 1] = g[n] * 10 + Worth(s[n + 1])
BY DEF Sums

LEMMA SumNext ==
  ASSUME NEW s, NEW t, NEW f, NEW g, NEW n \in Nat,
         Sums(f, s, 0 .. n), Sums(g, t, 0 .. n + 1), Begins(s, t, n)
  PROVE  g[n + 1] = f[n] * 10 + Worth(t[n + 1])
<1>1. \A m \in Nat : n <= m /\ Sums(g, t, 0 .. m) => f[n] = g[n]
  BY SumAgrees
<1>2. n + 1 \in Nat /\ n <= n + 1
  OBVIOUS
<1> QED
  BY <1>1, <1>2, SumStep

LEMMA SpelledAppend ==
  ASSUME NEW S, NEW s \in Seq(S), NEW b \in S
  PROVE  Spelled(Append(s, b)) = Spelled(s) * 10 + Worth(b)
<1>1. PICK t : t = Append(s, b)
  OBVIOUS
<1>2. PICK n \in Nat : n = Len(s)
  BY LenProperties
<1>3. /\ t \in Seq(S) /\ Len(t) = n + 1 /\ t[n + 1] = b /\ Begins(s, t, n)
  BY <1>1, <1>2, AppendProperties DEF Begins
<1>4. PICK f : Sums(f, s, 0 .. n) /\ Spelled(s) = f[n]
  BY <1>2, SpelledSum
<1>5. PICK g : Sums(g, t, 0 .. n + 1) /\ Spelled(t) = g[n + 1]
  BY <1>3, SpelledSum
<1>6. g[n + 1] = f[n] * 10 + Worth(t[n + 1])
  BY <1>3, <1>4, <1>5, SumNext
<1> QED
  BY <1>1, <1>3, <1>4, <1>5, <1>6

-----------------------------------------------------------------------------
(* Where the first of some bytes is. *)
LEMMA FirstIs ==
  ASSUME NEW A, NEW s \in Seq(A), NEW S, NEW k \in 1 .. Len(s) + 1,
         \A i \in 1 .. k - 1 : s[i] \notin S, k <= Len(s) => s[k] \in S
  PROVE  First(s, S) = k
<1>1. Len(s) \in Nat /\ DOMAIN s = 1 .. Len(s)
  BY LenProperties
<1> DEFINE found == {i \in DOMAIN s : s[i] \in S}
<1>2. First(s, S) = IF found = {} THEN Len(s) + 1
                    ELSE CHOOSE i \in found : \A j \in found : i <= j
  BY DEF First
<1>3. CASE k = Len(s) + 1
  <2>1. found = {}
    BY <1>1, <1>3
  <2> QED
    BY <1>2, <1>3, <2>1
<1>4. CASE k <= Len(s)
  <2>1. k \in found
    BY <1>1, <1>4
  <2>2. \A j \in found : k <= j
    BY <1>1
  <2>3. \A i \in found : (\A j \in found : i <= j) => i = k
    BY <1>1, <2>1, <2>2
  <2> HIDE DEF found
  <2>4. (CHOOSE i \in found : \A j \in found : i <= j) = k
    BY <2>1, <2>2, <2>3
  <2> QED
    BY <1>2, <2>1, <2>4
<1> QED
  BY <1>1, <1>3, <1>4

LEMMA FirstHolds ==
  ASSUME NEW A, NEW s \in Seq(A), NEW S
  PROVE  /\ First(s, S) \in 1 .. Len(s) + 1
         /\ \A i \in 1 .. First(s, S) - 1 : s[i] \notin S
         /\ First(s, S) <= Len(s) => s[First(s, S)] \in S
<1>1. Len(s) \in Nat /\ DOMAIN s = 1 .. Len(s)
  BY LenProperties
<1> DEFINE found == {i \in DOMAIN s : s[i] \in S}
<1>2. CASE found = {}
  <2>1. First(s, S) = Len(s) + 1
    BY <1>2 DEF First
  <2> QED
    BY <1>1, <1>2, <2>1
<1>3. CASE found # {}
  <2>1. found \in SUBSET Nat
    BY <1>1
  <2>2. PICK k \in found : \A j \in found : k <= j
    <3> HIDE DEF found
    <3> QED
      BY <1>3, <2>1, LeastElement
  <2>3. k \in 1 .. Len(s) + 1 /\ k <= Len(s) /\ s[k] \in S
    BY <1>1, <2>2
  <2>4. \A i \in 1 .. k - 1 : s[i] \notin S
    BY <1>1, <2>2, <2>3
  <2>5. First(s, S) = k
    BY <2>3, <2>4, FirstIs
  <2> QED
    BY <2>3, <2>4, <2>5
<1> QED
  BY <1>2, <1>3

LEMMA FirstAppend ==
  ASSUME NEW A, NEW s \in Seq(A), NEW b \in A, NEW S
  PROVE  First(Append(s, b), S) =
           IF First(s, S) <= Len(s) THEN First(s, S)
           ELSE IF b \in S THEN Len(s) + 1 ELSE Len(s) + 2
<1> DEFINE t == Append(s, b)
           k == IF First(s, S) <= Len(s) THEN First(s, S)
                ELSE IF b \in S THEN Len(s) + 1 ELSE Len(s) + 2
<1>1. /\ Len(s) \in Nat /\ t \in Seq(A) /\ Len(t) = Len(s) + 1 /\ t[Len(s) + 1] = b
      /\ \A i \in 1 .. Len(s) : t[i] = s[i]
  BY AppendProperties, LenProperties
<1>2. /\ First(s, S) \in 1 .. Len(s) + 1
      /\ \A i \in 1 .. First(s, S) - 1 : s[i] \notin S
      /\ First(s, S) <= Len(s) => s[First(s, S)] \in S
  BY FirstHolds
<1> HIDE DEF t
<1>3. k \in 1 .. Len(t) + 1
  BY <1>1, <1>2
<1>4. \A i \in 1 .. k - 1 : t[i] \notin S
  <2> TAKE i \in 1 .. k - 1
  <2>1. CASE i \in 1 .. First(s, S) - 1
    BY <1>1, <1>2, <2>1
  <2>2. CASE i = Len(s) + 1 /\ b \notin S
    BY <1>1, <2>2
  <2> QED
    BY <1>1, <1>2, <2>1, <2>2
<1>5. k <= Len(t) => t[k] \in S
  BY <1>1, <1>2
<1> HIDE DEF k
<1>6. First(t, S) = k
  BY <1>1, <1>3, <1>4, <1>5, FirstIs
<1> QED
  BY <1>6 DEF t, k

-----------------------------------------------------------------------------
(* A part that ends before the last byte, and one that takes it in. *)
LEMMA PartKept ==
  ASSUME NEW A, NEW s \in Seq(A), NEW b \in A, NEW m \in Nat \ {0}, NEW n \in Int, n <= Len(s)
  PROVE  SubSeq(Append(s, b), m, n) = SubSeq(s, m, n)
OBVIOUS

LEMMA PartGrows ==
  ASSUME NEW A, NEW s \in Seq(A), NEW b \in A, NEW m \in Nat \ {0}, m <= Len(s) + 1
  PROVE  SubSeq(Append(s, b), m, Len(s) + 1) = Append(SubSeq(s, m, Len(s)), b)
OBVIOUS

LEMMA PartEmpty ==
  ASSUME NEW A, NEW s \in Seq(A), NEW m \in Int, NEW n \in Int, n < m
  PROVE  SubSeq(s, m, n) = << >>
OBVIOUS

-----------------------------------------------------------------------------
(* The places of a numeral, and of one with another byte. *)
LEMMA Places ==
  ASSUME NEW s \in Seq(Byte)
  PROVE  /\ Len(s) \in Nat
         /\ ExpAt(s) \in 1 .. Len(s) + 1 /\ DotAt(s) \in 1 .. Len(s) + 1
         /\ DotAt(s) <= ExpAt(s)
<1>1. Len(s) \in Nat
  BY LenProperties
<1>2. /\ ExpAt(s) \in 1 .. Len(s) + 1 /\ DotAt(s) \in 1 .. Len(s) + 1
      /\ ExpAt(s) <= Len(s) => s[ExpAt(s)] \in ExpSign
      /\ \A i \in 1 .. DotAt(s) - 1 : s[i] \notin ExpSign \cup {Dot}
  BY FirstHolds DEF ExpAt, DotAt
<1>3. DotAt(s) <= ExpAt(s)
  BY <1>1, <1>2
<1> QED
  BY <1>1, <1>2, <1>3

LEMMA PlacesNext ==
  ASSUME NEW s \in Seq(Byte), NEW b \in Byte
  PROVE  /\ ExpAt(Append(s, b)) = IF ExpAt(s) <= Len(s) THEN ExpAt(s)
                                  ELSE IF b \in ExpSign THEN Len(s) + 1 ELSE Len(s) + 2
         /\ DotAt(Append(s, b)) = IF DotAt(s) <= Len(s) THEN DotAt(s)
                                  ELSE IF b \in ExpSign \cup {Dot} THEN Len(s) + 1 ELSE Len(s) + 2
BY FirstAppend DEF ExpAt, DotAt

LEMMA Bytes ==
  /\ Digit \cap ExpSign = {} /\ Dot \notin Digit \cup ExpSign
  /\ Plus \notin Digit \cup ExpSign \cup {Dot} /\ Minus \notin Digit \cup ExpSign \cup {Dot}
  /\ \A b \in Digit : Worth(b) \in 0 .. 9
BY DEF Digit, ExpSign, Dot, Plus, Minus, Worth

(* Once there is a first byte the sign is settled. *)
LEMMA SignKept ==
  ASSUME NEW s \in Seq(Byte), NEW b \in Byte, s # << >>
  PROVE  /\ Negative(Append(s, b)) <=> Negative(s)
         /\ Sign(Append(s, b)) = Sign(s)
<1>1. Len(s) >= 1 /\ Append(s, b) # << >> /\ Append(s, b)[1] = s[1]
  OBVIOUS
<1> QED
  BY <1>1 DEF Negative, Sign

(* The parts of nothing. *)
LEMMA PlacesOfNothing ==
  /\ << >> \in Seq(Byte) /\ Len(<< >>) = 0
  /\ ExpAt(<< >>) = 1 /\ DotAt(<< >>) = 1
<1>1. << >> \in Seq(Byte) /\ Len(<< >>) = 0
  BY EmptySeq
<1>2. ExpAt(<< >>) \in 1 .. Len(<< >>) + 1 /\ DotAt(<< >>) \in 1 .. Len(<< >>) + 1
  BY <1>1, Places
<1>3. Len(<< >>) + 1 = 1
  BY <1>1
<1> QED
  BY <1>1, <1>2, <1>3

LEMMA PartsOfNothing ==
  /\ IntegerPart(<< >>) = << >> /\ Fraction(<< >>) = << >> /\ ExponentPart(<< >>) = << >>
  /\ Sign(<< >>) = 1 /\ ExponentSign(<< >>) = 1
<1>1. ~Negative(<< >>) /\ ~Signed(<< >>)
  BY PlacesOfNothing DEF Negative, Signed
<1>2. SubSeq(<< >>, 1, 0) = << >> /\ SubSeq(<< >>, 2, 0) = << >>
  BY PlacesOfNothing, PartEmpty
<1> QED
  BY <1>1, <1>2, PlacesOfNothing DEF IntegerPart, Fraction, ExponentPart, Sign, ExponentSign

(* A part that is behind the byte before it. *)
LEMMA IntegerKept ==
  ASSUME NEW s \in Seq(Byte), NEW b \in Byte, s # << >>,
         DotAt(s) <= Len(s) \/ b \in ExpSign \cup {Dot}
  PROVE  IntegerPart(Append(s, b)) = IntegerPart(s)
<1>1. DotAt(Append(s, b)) = DotAt(s) /\ DotAt(s) - 1 \in Int /\ DotAt(s) - 1 <= Len(s)
  BY Places, PlacesNext
<1>2. \A m \in {1, 2} : SubSeq(Append(s, b), m, DotAt(s) - 1) = SubSeq(s, m, DotAt(s) - 1)
  BY <1>1, PartKept
<1> QED
  BY <1>1, <1>2, SignKept DEF IntegerPart

LEMMA FractionKept ==
  ASSUME NEW s \in Seq(Byte), NEW b \in Byte, ExpAt(s) <= Len(s) \/ b \in ExpSign
  PROVE  Fraction(Append(s, b)) = Fraction(s)
<1>1. /\ DotAt(Append(s, b)) = DotAt(s) /\ ExpAt(Append(s, b)) = ExpAt(s)
      /\ DotAt(s) + 1 \in Nat \ {0} /\ ExpAt(s) - 1 \in Int /\ ExpAt(s) - 1 <= Len(s)
  BY Places, PlacesNext
<1>2. SubSeq(Append(s, b), DotAt(s) + 1, ExpAt(s) - 1) = SubSeq(s, DotAt(s) + 1, ExpAt(s) - 1)
  BY <1>1, PartKept
<1> QED
  BY <1>1, <1>2 DEF Fraction

(* Before the letter of an exponent there is none. *)
LEMMA NoExponent ==
  ASSUME NEW s \in Seq(Byte), ExpAt(s) >= Len(s)
  PROVE  ExponentPart(s) = << >> /\ ExponentSign(s) = 1 /\ ~Signed(s)
<1>1. Len(s) \in Nat /\ ExpAt(s) \in Nat
  BY Places
<1>2. ~Signed(s)
  BY <1>1 DEF Signed
<1>3. SubSeq(s, ExpAt(s) + 1, Len(s)) = << >>
  BY <1>1, PartEmpty
<1> QED
  BY <1>2, <1>3 DEF ExponentPart, ExponentSign

LEMMA NoFraction ==
  ASSUME NEW s \in Seq(Byte), DotAt(s) >= Len(s)
  PROVE  Fraction(s) = << >>
<1>1. Len(s) \in Nat /\ ExpAt(s) \in 1 .. Len(s) + 1 /\ DotAt(s) \in Nat
  BY Places
<1>2. SubSeq(s, DotAt(s) + 1, ExpAt(s) - 1) = << >>
  BY <1>1, PartEmpty
<1> QED
  BY <1>2 DEF Fraction
LEMMA OneByte ==
  ASSUME NEW b \in Byte, b \notin ExpSign \cup {Dot}, NEW t, t = Append(<< >>, b)
  PROVE  /\ t \in Seq(Byte) /\ t # << >> /\ Len(t) = 1 /\ t[1] = b
         /\ DotAt(t) = 2 /\ ExpAt(t) = 2
         /\ Fraction(t) = << >> /\ ExponentPart(t) = << >> /\ ExponentSign(t) = 1
<1>1. t \in Seq(Byte) /\ t # << >> /\ Len(t) = 1 /\ t[1] = b
  OBVIOUS
<1>2. DotAt(t) = 2 /\ ExpAt(t) = 2
  <2>1. Len(<< >>) + 2 = 2 /\ ~(1 <= Len(<< >>))
    BY PlacesOfNothing
  <2>2. /\ ExpAt(t) = IF ExpAt(<< >>) <= Len(<< >>) THEN ExpAt(<< >>)
                       ELSE IF b \in ExpSign THEN Len(<< >>) + 1 ELSE Len(<< >>) + 2
        /\ DotAt(t) = IF DotAt(<< >>) <= Len(<< >>) THEN DotAt(<< >>)
                       ELSE IF b \in ExpSign \cup {Dot} THEN Len(<< >>) + 1 ELSE Len(<< >>) + 2
    BY PlacesOfNothing, PlacesNext
  <2> QED
    BY <2>1, <2>2, PlacesOfNothing
<1>3. DotAt(t) >= Len(t) /\ ExpAt(t) >= Len(t)
  BY <1>1, <1>2
<1> QED
  BY <1>1, <1>2, <1>3, NoFraction, NoExponent

(* The part the byte belongs to grows by it. *)
LEMMA IntegerGrows ==
  ASSUME NEW s \in Seq(Byte), NEW b \in Byte, b \in Digit, DotAt(s) = Len(s) + 1
  PROVE  /\ IntegerPart(Append(s, b)) = Append(IntegerPart(s), b)
         /\ DotAt(Append(s, b)) = Len(s) + 2 /\ ExpAt(Append(s, b)) = Len(s) + 2
         /\ Sign(Append(s, b)) = Sign(s)
<1>1. /\ Len(s) \in Nat /\ ExpAt(s) = Len(s) + 1
      /\ DotAt(Append(s, b)) = Len(s) + 2 /\ ExpAt(Append(s, b)) = Len(s) + 2
  BY Places, PlacesNext, Bytes
<1>2. \A m \in Nat \ {0} : m <= Len(s) + 1 =>
        SubSeq(Append(s, b), m, Len(s) + 1) = Append(SubSeq(s, m, Len(s)), b)
  BY PartGrows
<1>3. Len(s) + 2 - 1 = Len(s) + 1 /\ Len(s) + 1 - 1 = Len(s)
  BY <1>1
<1>4. (Negative(Append(s, b)) <=> Negative(s)) /\ Sign(Append(s, b)) = Sign(s)
  <2>1. CASE s = << >>
    <3>1. Append(s, b)[1] = b
      BY <2>1
    <3> QED
      BY <2>1, <3>1, Bytes DEF Negative, Sign
  <2>2. CASE s # << >>
    BY <2>2, SignKept
  <2> QED
    BY <2>1, <2>2
<1>5. 1 <= Len(s) + 1 /\ (Negative(s) => 2 <= Len(s) + 1)
  BY <1>1 DEF Negative
<1>6. IntegerPart(s) = SubSeq(s, IF Negative(s) THEN 2 ELSE 1, Len(s))
  BY <1>3 DEF IntegerPart
<1>7. IntegerPart(Append(s, b)) = SubSeq(Append(s, b), IF Negative(s) THEN 2 ELSE 1, Len(s) + 1)
  BY <1>1, <1>3, <1>4 DEF IntegerPart
<1>8. IntegerPart(Append(s, b)) = Append(IntegerPart(s), b)
  <2>1. SubSeq(Append(s, b), 1, Len(s) + 1) = Append(SubSeq(s, 1, Len(s)), b)
    BY <1>2, <1>5
  <2>2. ASSUME Negative(s)
        PROVE  SubSeq(Append(s, b), 2, Len(s) + 1) = Append(SubSeq(s, 2, Len(s)), b)
    <3>1. 2 \in Nat \ {0} /\ 2 <= Len(s) + 1
      BY <1>5, <2>2
    <3> QED
      BY <3>1, PartGrows
  <2> QED
    BY <1>6, <1>7, <2>1, <2>2
<1> QED
  BY <1>1, <1>4, <1>8

LEMMA FractionGrows ==
  ASSUME NEW s \in Seq(Byte), NEW b \in Byte, b \in Digit,
         DotAt(s) <= Len(s), ExpAt(s) = Len(s) + 1
  PROVE  /\ Fraction(Append(s, b)) = Append(Fraction(s), b)
         /\ DotAt(Append(s, b)) = DotAt(s) /\ ExpAt(Append(s, b)) = Len(s) + 2
<1>1. /\ Len(s) \in Nat /\ DotAt(s) \in Nat
      /\ DotAt(Append(s, b)) = DotAt(s) /\ ExpAt(Append(s, b)) = Len(s) + 2
  BY Places, PlacesNext, Bytes
<1>2. SubSeq(Append(s, b), DotAt(s) + 1, Len(s) + 1) = Append(SubSeq(s, DotAt(s) + 1, Len(s)), b)
  <2>1. DotAt(s) + 1 \in Nat \ {0} /\ DotAt(s) + 1 <= Len(s) + 1
    BY <1>1
  <2> QED
    BY <2>1, PartGrows
<1>3. Len(s) + 2 - 1 = Len(s) + 1 /\ Len(s) + 1 - 1 = Len(s)
  BY <1>1
<1>4. Fraction(s) = SubSeq(s, DotAt(s) + 1, Len(s))
  BY <1>1, <1>3 DEF Fraction
<1>5. Fraction(Append(s, b)) = SubSeq(Append(s, b), DotAt(s) + 1, Len(s) + 1)
  BY <1>1, <1>3 DEF Fraction
<1> QED
  BY <1>1, <1>2, <1>4, <1>5

LEMMA ExponentGrows ==
  ASSUME NEW s \in Seq(Byte), NEW b \in Byte, b \in Digit, ExpAt(s) <= Len(s)
  PROVE  /\ ExponentPart(Append(s, b)) = Append(ExponentPart(s), b)
         /\ ExponentSign(Append(s, b)) = ExponentSign(s)
         /\ ExpAt(Append(s, b)) = ExpAt(s)
<1>1. /\ Len(s) \in Nat /\ ExpAt(s) \in Nat /\ ExpAt(Append(s, b)) = ExpAt(s)
      /\ Len(Append(s, b)) = Len(s) + 1
  BY Places, PlacesNext
<1>2. /\ Signed(Append(s, b)) <=> Signed(s)
      /\ Signed(s) => Append(s, b)[ExpAt(s) + 1] = s[ExpAt(s) + 1]
  <2>1. CASE ExpAt(s) = Len(s)
    <3>1. Append(s, b)[ExpAt(s) + 1] = b
      BY <1>1, <2>1
    <3> QED
      BY <1>1, <2>1, <3>1, Bytes DEF Signed
  <2>2. CASE ExpAt(s) < Len(s)
    <3>1. Append(s, b)[ExpAt(s) + 1] = s[ExpAt(s) + 1]
      BY <1>1, <2>2
    <3> QED
      BY <1>1, <2>2, <3>1 DEF Signed
  <2> QED
    BY <1>1, <2>1, <2>2
<1>3. ExponentSign(Append(s, b)) = ExponentSign(s)
  BY <1>1, <1>2 DEF ExponentSign
<1>4. \A m \in Nat \ {0} : m <= Len(s) + 1 =>
        SubSeq(Append(s, b), m, Len(s) + 1) = Append(SubSeq(s, m, Len(s)), b)
  BY PartGrows
<1>5. /\ ExpAt(s) + 1 \in Nat \ {0} /\ ExpAt(s) + 1 <= Len(s) + 1
      /\ ExpAt(s) + 2 \in Nat \ {0}
      /\ Signed(s) => ExpAt(s) + 2 <= Len(s) + 1
  BY <1>1 DEF Signed
<1>6. ExponentPart(s) = SubSeq(s, ExpAt(s) + (IF Signed(s) THEN 2 ELSE 1), Len(s))
  BY DEF ExponentPart
<1>7. ExponentPart(Append(s, b)) =
        SubSeq(Append(s, b), ExpAt(s) + (IF Signed(s) THEN 2 ELSE 1), Len(s) + 1)
  BY <1>1, <1>2 DEF ExponentPart
<1>8. CASE Signed(s)
  <2>1. SubSeq(Append(s, b), ExpAt(s) + 2, Len(s) + 1) = Append(SubSeq(s, ExpAt(s) + 2, Len(s)), b)
    BY <1>4, <1>5, <1>8
  <2> QED
    BY <1>1, <1>3, <1>6, <1>7, <1>8, <2>1
<1>9. CASE ~Signed(s)
  <2>1. SubSeq(Append(s, b), ExpAt(s) + 1, Len(s) + 1) = Append(SubSeq(s, ExpAt(s) + 1, Len(s)), b)
    BY <1>4, <1>5
  <2> QED
    BY <1>1, <1>3, <1>6, <1>7, <1>9, <2>1
<1> QED
  BY <1>8, <1>9

(* The sign of an exponent. *)
LEMMA ExponentSigned ==
  ASSUME NEW s \in Seq(Byte), NEW b \in Byte, b \in {Plus, Minus}, ExpAt(s) = Len(s)
  PROVE  /\ ExponentPart(Append(s, b)) = << >>
         /\ ExponentSign(Append(s, b)) = IF b = Minus THEN -1 ELSE 1
         /\ ExpAt(Append(s, b)) = Len(s) /\ Signed(Append(s, b))
<1>1. /\ Len(s) \in Nat /\ ExpAt(Append(s, b)) = Len(s)
      /\ Append(s, b) \in Seq(Byte) /\ Len(Append(s, b)) = Len(s) + 1
      /\ Append(s, b)[Len(s) + 1] = b
  BY Places, PlacesNext
<1>2. Signed(Append(s, b))
  BY <1>1 DEF Signed
<1>3. SubSeq(Append(s, b), Len(s) + 2, Len(s) + 1) = << >>
  BY <1>1, PartEmpty
<1> QED
  BY <1>1, <1>2, <1>3 DEF ExponentPart, ExponentSign

-----------------------------------------------------------------------------
(* The element, and where the numeral stands in each of its states. *)
Element == [value : Nat, multiplier : Int, dwCurrentExponent : Nat,
            dwSignBase : {-1, 1}, dwSignExponent : {-1, 1},
            numberType : {"UnsignedLong", "Double"}, state : NumberState]

Placed(s, state) ==
  /\ state = "FirstSymbol" <=> s = << >>
  /\ state = "IntegerDigits" => DotAt(s) = Len(s) + 1
  /\ state = "FractionalDigitsFirst" => DotAt(s) = Len(s) /\ ExpAt(s) = Len(s) + 1
  /\ state = "FractionalDigits" => DotAt(s) < Len(s) /\ ExpAt(s) = Len(s) + 1
  /\ state = "ExponentFirst" => ExpAt(s) = Len(s)
  /\ state = "ExponentFirstAfterSign" => ExpAt(s) < Len(s)
  /\ state = "Exponent" => ExpAt(s) < Len(s)

(* What the accumulators are worth. *)
Mantissa(n, s) ==
  /\ IntegerPart(s) \in Seq(Digit) /\ Fraction(s) \in Seq(Digit)
  /\ n.value = Spelled(IntegerPart(s) \o Fraction(s))
  /\ n.multiplier + Len(Fraction(s)) = 0
  /\ n.dwSignBase = Sign(s)
Exponent(n, s) ==
  /\ ExponentPart(s) \in Seq(Digit)
  /\ Len(ExponentPart(s)) <= 1 => n.dwCurrentExponent = Spelled(ExponentPart(s))
  /\ n.state = "Exponent" <=> ExponentPart(s) # << >>
  /\ n.dwSignExponent = ExponentSign(s)

(* Integers are within bounds, doubles beyond those of an integer. *)
Kind(n) ==
  /\ n.numberType = "UnsignedLong" =>
       n.state \in {"FirstSymbol", "IntegerDigits"} /\ n.value \in ULONG
  /\ n.state = "FirstSymbol" => n.numberType = "UnsignedLong"
  /\ n.state = "IntegerDigits" /\ n.numberType = "Double" => n.value >= 10 * (ULONG_MAX \div 10)

Right(n, s) == Placed(s, n.state) /\ Mantissa(n, s) /\ Exponent(n, s) /\ Kind(n)

NumInv ==
  /\ number \in Element /\ numeral \in Seq(Byte)
  /\ Right(number, numeral)
  /\ result \in {Pending, Refused} \cup Created(number)

-----------------------------------------------------------------------------
(* The element after a byte. *)
ElementAfter(n, b) == [Accumulated(n, b, NumberNext(n.state, b)) EXCEPT !.state = NumberNext(n.state, b)]

(* Digits at the end of either part are digits at the end of both. *)
LEMMA DigitsGrow ==
  ASSUME NEW p \in Seq(Digit), NEW q \in Seq(Digit), NEW b \in Digit
  PROVE  /\ p \o q \in Seq(Digit) /\ Append(p, b) \in Seq(Digit)
         /\ Spelled(p \o Append(q, b)) = Spelled(p \o q) * 10 + Worth(b)
         /\ Spelled(Append(p, b) \o << >>) = Spelled(p \o << >>) * 10 + Worth(b)
<1>1. p \o q \in Seq(Digit) /\ p \o << >> \in Seq(Digit) /\ Append(p, b) \in Seq(Digit)
  OBVIOUS
<1>2. p \o Append(q, b) = Append(p \o q, b)
  OBVIOUS
<1>3. Append(p, b) \o << >> = Append(p \o << >>, b)
  OBVIOUS
<1> QED
  BY <1>1, <1>2, <1>3, SpelledAppend

LEMMA FirstMinus ==
  ASSUME NEW n \in Element, NEW s \in Seq(Byte), Right(n, s), NEW b \in Byte,
         n.state = "FirstSymbol", b = Minus
  PROVE  ElementAfter(n, b) \in Element /\ Right(ElementAfter(n, b), Append(s, b))
<1> DEFINE m == ElementAfter(n, b)
           t == Append(s, b)
<1>1. s = << >>
  BY DEF Right, Placed
<1>2. /\ m \in Element /\ m.state = "IntegerDigits" /\ m.dwSignBase = -1
      /\ m.value = n.value /\ m.multiplier = n.multiplier /\ m.numberType = n.numberType
      /\ m.dwCurrentExponent = n.dwCurrentExponent /\ m.dwSignExponent = n.dwSignExponent
  BY DEF ElementAfter, Accumulated, NumberNext, Element, NumberState
<1>3. t = Append(<< >>, b) /\ b \notin ExpSign \cup {Dot}
  BY <1>1, Bytes
<1> HIDE DEF m, t
<1>4. /\ t \in Seq(Byte) /\ t # << >> /\ Len(t) = 1 /\ t[1] = Minus
      /\ DotAt(t) = 2 /\ ExpAt(t) = 2
      /\ Fraction(t) = << >> /\ ExponentPart(t) = << >> /\ ExponentSign(t) = 1
  BY <1>3, OneByte
<1>5. IntegerPart(t) = << >> /\ Sign(t) = -1
  <2>1. Negative(t)
    BY <1>4 DEF Negative
  <2>2. SubSeq(t, 2, 1) = << >>
    BY <1>4, PartEmpty
  <2> QED
    BY <1>4, <2>1, <2>2 DEF IntegerPart, Sign
<1>6. Mantissa(m, t)
  <2>1. IntegerPart(t) = IntegerPart(s) /\ Fraction(t) = Fraction(s)
    BY <1>1, <1>4, <1>5, PartsOfNothing
  <2> QED
    BY <1>2, <1>5, <2>1 DEF Right, Mantissa
<1>7. Exponent(m, t)
  BY <1>1, <1>2, <1>4, PartsOfNothing DEF Right, Exponent
<1>8. Placed(t, m.state)
  BY <1>2, <1>4 DEF Placed
<1>9. Kind(m)
  BY <1>2 DEF Right, Kind
<1> QED
  BY <1>2, <1>6, <1>7, <1>8, <1>9 DEF Right, m, t

LEMMA FirstDigit ==
  ASSUME NEW n \in Element, NEW s \in Seq(Byte), Right(n, s), NEW b \in Byte,
         n.state = "FirstSymbol", b \in Digit
  PROVE  ElementAfter(n, b) \in Element /\ Right(ElementAfter(n, b), Append(s, b))
<1> DEFINE m == ElementAfter(n, b)
           t == Append(s, b)
<1>1. s = << >> /\ n.numberType = "UnsignedLong"
  BY DEF Right, Placed, Kind
<1>2. /\ m \in Element /\ m.state = "IntegerDigits" /\ m.dwSignBase = n.dwSignBase
      /\ m.value = Worth(b) /\ m.multiplier = n.multiplier /\ m.numberType = n.numberType
      /\ m.dwCurrentExponent = n.dwCurrentExponent /\ m.dwSignExponent = n.dwSignExponent
  BY Bytes DEF ElementAfter, Accumulated, NumberNext, Element, NumberState
<1>3. t = Append(<< >>, b) /\ b \notin ExpSign \cup {Dot}
  BY <1>1, Bytes
<1>4. IntegerPart(t) = Append(<< >>, b) /\ Sign(t) = 1
  <2>1. DotAt(<< >>) = Len(<< >>) + 1
    BY PlacesOfNothing
  <2>2. /\ IntegerPart(Append(<< >>, b)) = Append(IntegerPart(<< >>), b)
        /\ Sign(Append(<< >>, b)) = Sign(<< >>)
    BY <2>1, PlacesOfNothing, IntegerGrows
  <2> QED
    BY <1>3, <2>2, PartsOfNothing
<1> HIDE DEF m, t
<1>5. /\ t \in Seq(Byte) /\ t # << >> /\ Len(t) = 1
      /\ DotAt(t) = 2 /\ ExpAt(t) = 2
      /\ Fraction(t) = << >> /\ ExponentPart(t) = << >> /\ ExponentSign(t) = 1
  BY <1>3, OneByte
<1>6. Mantissa(m, t)
  <2>1. << >> \in Seq(Digit) /\ << >> \o << >> = << >>
    OBVIOUS
  <2>2. /\ Spelled(Append(<< >>, b) \o << >>) = Worth(b)
        /\ Append(<< >>, b) \in Seq(Digit)
    <3>1. /\ Spelled(Append(<< >>, b) \o << >>) = Spelled(<< >> \o << >>) * 10 + Worth(b)
          /\ Append(<< >>, b) \in Seq(Digit)
      BY <2>1, DigitsGrow
    <3> QED
      BY <2>1, <3>1, SpelledEmpty, Bytes
  <2> QED
    BY <1>1, <1>2, <1>4, <1>5, <2>1, <2>2, PartsOfNothing DEF Right, Mantissa
<1>7. Exponent(m, t)
  BY <1>1, <1>2, <1>5, PartsOfNothing DEF Right, Exponent
<1>8. Placed(t, m.state)
  BY <1>2, <1>5 DEF Placed
<1>9. Kind(m)
  <2>1. Worth(b) \in ULONG
    BY Bytes, Limits DEF ULONG
  <2> QED
    BY <1>1, <1>2, <2>1 DEF Kind
<1> QED
  BY <1>2, <1>6, <1>7, <1>8, <1>9 DEF Right, m, t

LEMMA TenTimes ==
  \A v, k \in Nat, w \in 0 .. 9 : v >= k => v * 10 + w >= 10 * k /\ v * 10 + w \in Nat
OBVIOUS

LEMMA Longer ==
  ASSUME NEW s \in Seq(Byte), NEW b \in Byte
  PROVE  Append(s, b) \in Seq(Byte) /\ Len(Append(s, b)) = Len(s) + 1 /\ Append(s, b) # << >>
BY AppendProperties

(* Another digit before the point. *)
LEMMA DigitBeforePoint ==
  ASSUME NEW n \in Element, NEW s \in Seq(Byte), Right(n, s), NEW b \in Byte,
         n.state = "IntegerDigits", b \in Digit
  PROVE  ElementAfter(n, b) \in Element /\ Right(ElementAfter(n, b), Append(s, b))
<1> DEFINE m == ElementAfter(n, b)
           t == Append(s, b)
<1>1. DotAt(s) = Len(s) + 1 /\ ExpAt(s) = Len(s) + 1 /\ Len(s) \in Nat /\ s # << >>
  BY Places DEF Right, Placed
<1>2. Worth(b) \in 0 .. 9 /\ n.value \in Nat 
  BY Bytes, Limits DEF Element
<1>3. /\ m \in Element /\ m.state = "IntegerDigits" /\ m.dwSignBase = n.dwSignBase
      /\ m.value = n.value * 10 + Worth(b) /\ m.multiplier = n.multiplier
      /\ m.dwCurrentExponent = n.dwCurrentExponent /\ m.dwSignExponent = n.dwSignExponent
      /\ m.numberType = "UnsignedLong" => m.value \in ULONG
      /\ m.numberType = "Double" => m.value >= 10 * (ULONG_MAX \div 10)
  <2>1. CASE n.numberType = "UnsignedLong" /\ BelowLimit(n.value)
    <3>1. /\ n.value * 10 + Worth(b) \in ULONG
          /\ (n.value * 10 + Worth(b)) % 2 ^ Width = n.value * 10 + Worth(b)
      BY <1>2, <2>1, Limits DEF BelowLimit
    <3>2. n.value * 10 + Worth(b) \in ULONG /\ n.value * 10 + Worth(b) \in Nat
      BY <1>2, <3>1
    <3>3. IntegerDigit(n, b) = [n EXCEPT !.value = n.value * 10 + Worth(b)]
      BY <2>1, <3>1 DEF IntegerDigit
    <3> QED
      BY <2>1, <3>2, <3>3 DEF ElementAfter, Accumulated, NumberNext, Element, NumberState
  <2>2. CASE ~(n.numberType = "UnsignedLong" /\ BelowLimit(n.value))
    <3>1. n.value >= ULONG_MAX \div 10
      <4>1. CASE n.numberType = "UnsignedLong"
        BY <1>2, <2>2, <4>1, Limits DEF BelowLimit
      <4>2. CASE n.numberType = "Double"
        BY <1>2, <4>2, Limits DEF Right, Kind
      <4> QED
        BY <4>1, <4>2 DEF Element
    <3>2. n.value * 10 + Worth(b) >= 10 * (ULONG_MAX \div 10) /\ n.value * 10 + Worth(b) \in Nat
      BY <1>2, <3>1, Limits, TenTimes
    <3>3. IntegerDigit(n, b) = [n EXCEPT !.value = n.value * 10 + Worth(b), !.numberType = "Double"]
      BY <2>2 DEF IntegerDigit
    <3> QED
      BY <3>2, <3>3 DEF ElementAfter, Accumulated, NumberNext, Element, NumberState
  <2> QED
    BY <2>1, <2>2
<1>4. /\ IntegerPart(t) = Append(IntegerPart(s), b) /\ Sign(t) = Sign(s)
      /\ DotAt(t) = Len(s) + 2 /\ ExpAt(t) = Len(s) + 2
  BY <1>1, IntegerGrows
<1>5. t \in Seq(Byte) /\ Len(t) = Len(s) + 1 /\ t # << >>
  BY Longer
<1> HIDE DEF m, t
<1>6. /\ Fraction(s) = << >> /\ ExponentPart(s) = << >> /\ ExponentSign(s) = 1
      /\ Fraction(t) = << >> /\ ExponentPart(t) = << >> /\ ExponentSign(t) = 1
  <2>1. /\ DotAt(s) >= Len(s) /\ ExpAt(s) >= Len(s)
        /\ DotAt(t) >= Len(t) /\ ExpAt(t) >= Len(t)
    BY <1>1, <1>4, <1>5
  <2> QED
    BY <1>5, <2>1, NoFraction, NoExponent
<1>7. Mantissa(m, t)
  <2>1. IntegerPart(s) \in Seq(Digit) /\ n.value = Spelled(IntegerPart(s) \o << >>)
    BY <1>6 DEF Right, Mantissa
  <2>2. << >> \in Seq(Digit)
    OBVIOUS
  <2>3. /\ IntegerPart(t) \in Seq(Digit)
        /\ Spelled(IntegerPart(t) \o << >>) = n.value * 10 + Worth(b)
    BY <1>4, <2>1, <2>2, DigitsGrow
  <2> QED
    BY <1>3, <1>4, <1>6, <2>2, <2>3 DEF Right, Mantissa
<1>8. Exponent(m, t)
  BY <1>3, <1>6 DEF Right, Exponent
<1>9. Placed(t, m.state)
  BY <1>3, <1>4, <1>5 DEF Placed
<1>10. Kind(m)
  BY <1>3 DEF Kind
<1> QED
  BY <1>3, <1>7, <1>8, <1>9, <1>10 DEF Right, m, t

(* The point, and the letter of an exponent. *)
LEMMA Point ==
  ASSUME NEW n \in Element, NEW s \in Seq(Byte), Right(n, s), NEW b \in Byte,
         n.state = "IntegerDigits", b = Dot
  PROVE  ElementAfter(n, b) \in Element /\ Right(ElementAfter(n, b), Append(s, b))
<1> DEFINE m == ElementAfter(n, b)
           t == Append(s, b)
<1>1. DotAt(s) = Len(s) + 1 /\ ExpAt(s) = Len(s) + 1 /\ Len(s) \in Nat /\ s # << >>
  BY Places DEF Right, Placed
<1>2. /\ m \in Element /\ m.state = "FractionalDigitsFirst" /\ m.dwSignBase = n.dwSignBase
      /\ m.value = n.value /\ m.multiplier = n.multiplier /\ m.numberType = "Double"
      /\ m.dwCurrentExponent = n.dwCurrentExponent /\ m.dwSignExponent = n.dwSignExponent
  BY Bytes DEF ElementAfter, Accumulated, NumberNext, Element, NumberState
<1>3. IntegerPart(t) = IntegerPart(s) /\ Sign(t) = Sign(s)
  BY <1>1, IntegerKept, SignKept
<1>4. DotAt(t) = Len(s) + 1 /\ ExpAt(t) = Len(s) + 2
  BY <1>1, PlacesNext, Bytes
<1>5. t \in Seq(Byte) /\ Len(t) = Len(s) + 1 /\ t # << >>
  BY Longer
<1> HIDE DEF m, t
<1>6. /\ Fraction(s) = << >> /\ ExponentPart(s) = << >> /\ ExponentSign(s) = 1
      /\ Fraction(t) = << >> /\ ExponentPart(t) = << >> /\ ExponentSign(t) = 1
  <2>1. /\ DotAt(s) >= Len(s) /\ ExpAt(s) >= Len(s)
        /\ DotAt(t) >= Len(t) /\ ExpAt(t) >= Len(t)
    BY <1>1, <1>4, <1>5
  <2> QED
    BY <1>5, <2>1, NoFraction, NoExponent
<1>7. Mantissa(m, t)
  BY <1>2, <1>3, <1>6 DEF Right, Mantissa
<1>8. Exponent(m, t)
  BY <1>2, <1>6 DEF Right, Exponent
<1>9. Placed(t, m.state)
  BY <1>1, <1>2, <1>4, <1>5 DEF Placed
<1>10. Kind(m)
  BY <1>2 DEF Kind
<1> QED
  BY <1>2, <1>7, <1>8, <1>9, <1>10 DEF Right, m, t

LEMMA ExponentLetter ==
  ASSUME NEW n \in Element, NEW s \in Seq(Byte), Right(n, s), NEW b \in Byte,
         n.state \in {"IntegerDigits", "FractionalDigits"}, b \in ExpSign
  PROVE  ElementAfter(n, b) \in Element /\ Right(ElementAfter(n, b), Append(s, b))
<1> DEFINE m == ElementAfter(n, b)
           t == Append(s, b)
<1>1. ExpAt(s) = Len(s) + 1 /\ Len(s) \in Nat /\ s # << >>
  BY Places DEF Right, Placed
<1>2. /\ m \in Element /\ m.state = "ExponentFirst" /\ m.dwSignBase = n.dwSignBase
      /\ m.value = n.value /\ m.multiplier = n.multiplier /\ m.numberType = "Double"
      /\ m.dwCurrentExponent = n.dwCurrentExponent /\ m.dwSignExponent = n.dwSignExponent
  <2>1. b \notin Digit /\ b # Dot
    BY Bytes
  <2>2. CASE n.state = "IntegerDigits"
    BY <2>1, <2>2 DEF ElementAfter, Accumulated, NumberNext, Element, NumberState
  <2>3. CASE n.state = "FractionalDigits"
    <3>1. n.numberType = "Double"
      BY <2>3 DEF Right, Kind, Element
    <3> QED
      BY <2>1, <2>3, <3>1 DEF ElementAfter, Accumulated, NumberNext, Element, NumberState
  <2> QED
    BY <2>2, <2>3
<1>3. IntegerPart(t) = IntegerPart(s) /\ Sign(t) = Sign(s) /\ Fraction(t) = Fraction(s)
  BY <1>1, IntegerKept, SignKept, FractionKept
<1>4. ExpAt(t) = Len(s) + 1
  BY <1>1, PlacesNext
<1>5. t \in Seq(Byte) /\ Len(t) = Len(s) + 1 /\ t # << >>
  BY Longer
<1> HIDE DEF m, t
<1>6. /\ ExponentPart(s) = << >> /\ ExponentSign(s) = 1
      /\ ExponentPart(t) = << >> /\ ExponentSign(t) = 1
  <2>1. ExpAt(s) >= Len(s) /\ ExpAt(t) >= Len(t)
    BY <1>1, <1>4, <1>5
  <2> QED
    BY <1>5, <2>1, NoExponent
<1>7. Mantissa(m, t)
  BY <1>2, <1>3 DEF Right, Mantissa
<1>8. Exponent(m, t)
  BY <1>2, <1>6 DEF Right, Exponent
<1>9. Placed(t, m.state)
  BY <1>1, <1>2, <1>4, <1>5 DEF Placed
<1>10. Kind(m)
  BY <1>2 DEF Kind
<1> QED
  BY <1>2, <1>7, <1>8, <1>9, <1>10 DEF Right, m, t

(* A digit behind the point. *)
LEMMA DigitBehindPoint ==
  ASSUME NEW n \in Element, NEW s \in Seq(Byte), Right(n, s), NEW b \in Byte,
         n.state \in {"FractionalDigitsFirst", "FractionalDigits"}, b \in Digit
  PROVE  ElementAfter(n, b) \in Element /\ Right(ElementAfter(n, b), Append(s, b))
<1> DEFINE m == ElementAfter(n, b)
           t == Append(s, b)
<1>1. DotAt(s) <= Len(s) /\ ExpAt(s) = Len(s) + 1 /\ Len(s) \in Nat /\ s # << >> /\ DotAt(s) \in Nat
  BY Places DEF Right, Placed
<1>2. Worth(b) \in 0 .. 9 /\ n.value \in Nat /\ n.numberType = "Double"
  BY Bytes DEF Right, Kind, Element
<1>3. /\ m \in Element /\ m.state = "FractionalDigits" /\ m.dwSignBase = n.dwSignBase
      /\ m.value = n.value * 10 + Worth(b) /\ m.multiplier = n.multiplier - 1
      /\ m.numberType = "Double"
      /\ m.dwCurrentExponent = n.dwCurrentExponent /\ m.dwSignExponent = n.dwSignExponent
  <2>1. PICK v \in Nat : v = n.value * 10 + Worth(b)
    BY <1>2
  <2>2. PICK k \in Int : k = n.multiplier - 1
    BY DEF Element
  <2>3. m = [[n EXCEPT !.value = v, !.multiplier = k] EXCEPT !.state = "FractionalDigits"]
    BY <2>1, <2>2 DEF ElementAfter, Accumulated, FractionalDigit, NumberNext
  <2>4. "FractionalDigits" \in NumberState
    BY DEF NumberState
  <2> HIDE DEF m
  <2>5. m \in Element
    BY <2>3, <2>4 DEF Element
  <2>6. /\ m.state = "FractionalDigits" /\ m.dwSignBase = n.dwSignBase
        /\ m.value = v /\ m.multiplier = k /\ m.numberType = n.numberType
        /\ m.dwCurrentExponent = n.dwCurrentExponent /\ m.dwSignExponent = n.dwSignExponent
    BY <2>3 DEF Element
  <2> QED
    BY <1>2, <2>1, <2>2, <2>5, <2>6
<1>4. IntegerPart(t) = IntegerPart(s) /\ Sign(t) = Sign(s)
  BY <1>1, IntegerKept, SignKept
<1>5. /\ Fraction(t) = Append(Fraction(s), b)
      /\ DotAt(t) = DotAt(s) /\ ExpAt(t) = Len(s) + 2
  BY <1>1, FractionGrows
<1>6. t \in Seq(Byte) /\ Len(t) = Len(s) + 1 /\ t # << >>
  BY Longer
<1> HIDE DEF m, t
<1>7. /\ ExponentPart(s) = << >> /\ ExponentSign(s) = 1
      /\ ExponentPart(t) = << >> /\ ExponentSign(t) = 1
  <2>1. ExpAt(s) >= Len(s) /\ ExpAt(t) >= Len(t)
    BY <1>1, <1>5, <1>6
  <2> QED
    BY <1>6, <2>1, NoExponent
<1>8. Mantissa(m, t)
  <2>1. /\ IntegerPart(s) \in Seq(Digit) /\ Fraction(s) \in Seq(Digit)
        /\ n.value = Spelled(IntegerPart(s) \o Fraction(s)) /\ n.multiplier + Len(Fraction(s)) = 0
        /\ n.dwSignBase = Sign(s)
    BY DEF Right, Mantissa
  <2>2. Spelled(IntegerPart(s) \o Append(Fraction(s), b)) = n.value * 10 + Worth(b)
    BY <2>1, DigitsGrow
  <2>3. /\ Append(Fraction(s), b) \in Seq(Digit)
        /\ n.multiplier - 1 + Len(Append(Fraction(s), b)) = 0
    <3>1. /\ Len(Append(Fraction(s), b)) = Len(Fraction(s)) + 1 /\ Len(Fraction(s)) \in Nat
          /\ Append(Fraction(s), b) \in Seq(Digit)
      BY <2>1, AppendProperties, LenProperties
    <3>2. n.multiplier \in Int
      BY DEF Element
    <3> QED
      BY <2>1, <3>1, <3>2
  <2> QED
    BY <1>3, <1>4, <1>5, <2>1, <2>2, <2>3 DEF Mantissa
<1>9. Exponent(m, t)
  BY <1>3, <1>7 DEF Right, Exponent
<1>10. Placed(t, m.state)
  BY <1>1, <1>3, <1>5, <1>6 DEF Placed
<1>11. Kind(m)
  BY <1>3 DEF Kind
<1> QED
  BY <1>3, <1>8, <1>9, <1>10, <1>11 DEF Right, m, t

(* The sign of an exponent, and its digits. *)
LEMMA SignOfExponent ==
  ASSUME NEW n \in Element, NEW s \in Seq(Byte), Right(n, s), NEW b \in Byte,
         n.state = "ExponentFirst", b \in {Plus, Minus}
  PROVE  ElementAfter(n, b) \in Element /\ Right(ElementAfter(n, b), Append(s, b))
<1> DEFINE m == ElementAfter(n, b)
           t == Append(s, b)
<1>1. ExpAt(s) = Len(s) /\ DotAt(s) <= Len(s) /\ Len(s) \in Nat /\ s # << >>
  BY Places DEF Right, Placed
<1>2. /\ m \in Element /\ m.state = "ExponentFirstAfterSign" /\ m.dwSignBase = n.dwSignBase
      /\ m.value = n.value /\ m.multiplier = n.multiplier /\ m.numberType = "Double"
      /\ m.dwCurrentExponent = n.dwCurrentExponent
      /\ m.dwSignExponent = IF b = Minus THEN -1 ELSE n.dwSignExponent
  <2>1. b \notin Digit /\ n.numberType = "Double"
    BY Bytes DEF Right, Kind, Element
  <2> QED
    BY <2>1 DEF ElementAfter, Accumulated, NumberNext, Element, NumberState
<1>3. IntegerPart(t) = IntegerPart(s) /\ Sign(t) = Sign(s) /\ Fraction(t) = Fraction(s)
  BY <1>1, IntegerKept, SignKept, FractionKept
<1>4. /\ ExponentPart(t) = << >> /\ ExponentSign(t) = (IF b = Minus THEN -1 ELSE 1)
      /\ ExpAt(t) = Len(s)
  BY <1>1, ExponentSigned
<1>5. t \in Seq(Byte) /\ Len(t) = Len(s) + 1 /\ t # << >>
  BY Longer
<1> HIDE DEF m, t
<1>6. ExponentPart(s) = << >> /\ ExponentSign(s) = 1
  BY <1>1, NoExponent
<1>7. Mantissa(m, t)
  BY <1>2, <1>3 DEF Right, Mantissa
<1>8. Exponent(m, t)
  BY <1>2, <1>4, <1>6 DEF Right, Exponent
<1>9. Placed(t, m.state)
  BY <1>1, <1>2, <1>4, <1>5 DEF Placed
<1>10. Kind(m)
  BY <1>2 DEF Kind
<1> QED
  BY <1>2, <1>7, <1>8, <1>9, <1>10 DEF Right, m, t

LEMMA DigitOfExponent ==
  ASSUME NEW n \in Element, NEW s \in Seq(Byte), Right(n, s), NEW b \in Byte,
         n.state \in {"ExponentFirst", "ExponentFirstAfterSign", "Exponent"}, b \in Digit
  PROVE  ElementAfter(n, b) \in Element /\ Right(ElementAfter(n, b), Append(s, b))
<1> DEFINE m == ElementAfter(n, b)
           t == Append(s, b)
<1>1. ExpAt(s) <= Len(s) /\ DotAt(s) <= Len(s) /\ Len(s) \in Nat /\ s # << >> /\ ExpAt(s) \in Nat
  BY Places DEF Right, Placed
<1>2. /\ m \in Element /\ m.state = "Exponent" /\ m.dwSignBase = n.dwSignBase
      /\ m.value = n.value /\ m.multiplier = n.multiplier /\ m.numberType = "Double"
      /\ n.state # "Exponent" => m.dwCurrentExponent = Worth(b)
      /\ m.dwSignExponent = n.dwSignExponent
  <2>1. n.numberType = "Double"
    BY DEF Right, Kind, Element
  <2>2. CASE n.state # "Exponent"
    <3>1. Worth(b) \in Nat
      BY Bytes
    <3> QED
      BY <2>1, <2>2, <3>1, Bytes DEF ElementAfter, Accumulated, NumberNext, Element, NumberState
  <2>3. CASE n.state = "Exponent"
    <3>1. PICK v \in Nat : v = n.dwCurrentExponent + Worth(b)
      BY Bytes DEF Element
    <3>2. m = [[n EXCEPT !.dwCurrentExponent = v] EXCEPT !.state = "Exponent"]
      BY <2>3, <3>1 DEF ElementAfter, Accumulated, ExponentDigit, NumberNext
    <3> HIDE DEF m
    <3> QED
      BY <2>1, <2>3, <3>2 DEF Element
  <2> QED
    BY <2>2, <2>3
<1>3. IntegerPart(t) = IntegerPart(s) /\ Sign(t) = Sign(s) /\ Fraction(t) = Fraction(s)
  BY <1>1, IntegerKept, SignKept, FractionKept
<1>4. /\ ExponentPart(t) = Append(ExponentPart(s), b) /\ ExponentSign(t) = ExponentSign(s)
      /\ ExpAt(t) = ExpAt(s)
  BY <1>1, ExponentGrows
<1>5. t \in Seq(Byte) /\ Len(t) = Len(s) + 1 /\ t # << >>
  BY Longer
<1> HIDE DEF m, t
<1>6. Mantissa(m, t)
  BY <1>2, <1>3 DEF Right, Mantissa
<1>7. Exponent(m, t)
  <2>1. ExponentPart(s) \in Seq(Digit) /\ (n.state = "Exponent" <=> ExponentPart(s) # << >>)
    BY DEF Right, Exponent
  <2>2. /\ ExponentPart(t) \in Seq(Digit) /\ ExponentPart(t) # << >>
        /\ Len(ExponentPart(t)) = Len(ExponentPart(s)) + 1
    BY <1>4, <2>1, AppendProperties
  <2>3. Len(ExponentPart(t)) <= 1 => m.dwCurrentExponent = Spelled(ExponentPart(t))
    <3> SUFFICES ASSUME Len(ExponentPart(t)) <= 1
                 PROVE  m.dwCurrentExponent = Spelled(ExponentPart(t))
      OBVIOUS
    <3>1. Len(ExponentPart(s)) = 0
      BY <2>1, <2>2, LenProperties
    <3>2. ExponentPart(s) = << >> /\ n.state # "Exponent"
      BY <2>1, <3>1, EmptySeq
    <3>3. << >> \in Seq(Digit)
      BY EmptySeq
    <3>4. Spelled(Append(<< >>, b)) = Spelled(<< >>) * 10 + Worth(b)
      BY <3>3, SpelledAppend
    <3>5. 0 * 10 + Worth(b) = Worth(b)
      BY Bytes
    <3> QED
      BY <1>2, <1>4, <3>2, <3>4, <3>5, SpelledEmpty
  <2> QED
    BY <1>2, <1>4, <2>2, <2>3 DEF Right, Exponent
<1>8. Placed(t, m.state)
  BY <1>1, <1>2, <1>4, <1>5 DEF Placed
<1>9. Kind(m)
  BY <1>2 DEF Kind
<1> QED
  BY <1>2, <1>6, <1>7, <1>8, <1>9 DEF Right, m, t

-----------------------------------------------------------------------------
(* Every byte the automaton accepts. *)
LEMMA AcceptRight ==
  ASSUME NEW n \in Element, NEW s \in Seq(Byte), Right(n, s), NEW b \in Byte,
         NumberNext(n.state, b) \in NumberState
  PROVE  ElementAfter(n, b) \in Element /\ Right(ElementAfter(n, b), Append(s, b))
<1>1. n.state \in NumberState
  BY DEF Element
<1>2. "error" \notin NumberState /\ "finish" \notin NumberState
  BY DEF NumberState
<1>3. CASE n.state = "FirstSymbol"
  <2>1. b \in Digit \/ b = Minus
    BY <1>2, <1>3 DEF NumberNext
  <2> QED
    BY <1>3, <2>1, FirstMinus, FirstDigit
<1>4. CASE n.state = "IntegerDigits"
  <2>1. b \in Digit \/ b = Dot \/ b \in ExpSign
    BY <1>2, <1>4 DEF NumberNext
  <2> QED
    BY <1>4, <2>1, DigitBeforePoint, Point, ExponentLetter
<1>5. CASE n.state = "FractionalDigitsFirst"
  <2>1. b \in Digit
    BY <1>2, <1>5 DEF NumberNext
  <2> QED
    BY <1>5, <2>1, DigitBehindPoint
<1>6. CASE n.state = "FractionalDigits"
  <2>1. b \in Digit \/ b \in ExpSign
    BY <1>2, <1>6 DEF NumberNext
  <2> QED
    BY <1>6, <2>1, DigitBehindPoint, ExponentLetter
<1>7. CASE n.state = "ExponentFirst"
  <2>1. b \in Digit \/ b \in {Plus, Minus}
    BY <1>2, <1>7 DEF NumberNext
  <2> QED
    BY <1>7, <2>1, SignOfExponent, DigitOfExponent
<1>8. CASE n.state \in {"ExponentFirstAfterSign", "Exponent"}
  <2>1. b \in Digit
    BY <1>2, <1>8 DEF NumberNext
  <2> QED
    BY <1>8, <2>1, DigitOfExponent
<1> QED
  BY <1>1, <1>3, <1>4, <1>5, <1>6, <1>7, <1>8 DEF NumberState

LEMMA InitNum == Init => NumInv
<1> SUFFICES ASSUME Init PROVE NumInv
  OBVIOUS
<1>1. number = NewNumber /\ numeral = << >> /\ result = Pending
  BY DEF Init
<1>2. number \in Element
  BY <1>1 DEF NewNumber, Element, NumberState
<1>3. Mantissa(number, numeral)
  <2>1. << >> \in Seq(Digit) /\ << >> \o << >> = << >> /\ Len(<< >>) = 0
    OBVIOUS
  <2> QED
    <3>1. number.value = 0 /\ number.multiplier = 0 /\ number.dwSignBase = 1
      BY <1>1 DEF NewNumber
    <3>2. Spelled(<< >> \o << >>) = 0
      BY <2>1, SpelledEmpty, Zenon
    <3>3. number.multiplier + Len(<< >>) = 0
      BY <2>1, <3>1
    <3> QED
      BY <1>1, <2>1, <3>1, <3>2, <3>3, PartsOfNothing DEF Mantissa
<1>4. Exponent(number, numeral)
  <2>1. << >> \in Seq(Digit)
    OBVIOUS
  <2> QED
    BY <1>1, <2>1, PartsOfNothing, SpelledEmpty DEF Exponent, NewNumber
<1>5. Placed(numeral, number.state)
  BY <1>1 DEF Placed, NewNumber
<1>6. Kind(number)
  <2>1. 0 \in ULONG
    BY Limits DEF ULONG
  <2> QED
    BY <1>1, <2>1 DEF Kind, NewNumber
<1> QED
  BY <1>1, <1>2, <1>3, <1>4, <1>5, <1>6, PlacesOfNothing DEF Right, NumInv

LEMMA StepNum == NumInv /\ [Next]_vars => NumInv'
<1> SUFFICES ASSUME NumInv, [Next]_vars PROVE NumInv'
  OBVIOUS
<1>1. CASE Next
  <2>1. PICK b \in Byte : Accept(b) \/ Finish(b) \/ Refuse(b)
    BY <1>1 DEF Next
  <2>2. result = Pending
    BY <1>1 DEF Next
  <2>3. CASE Accept(b)
    <3>1. /\ number' = ElementAfter(number, b) /\ numeral' = Append(numeral, b) /\ result' = result
          /\ NumberNext(number.state, b) \in NumberState
      BY <2>3 DEF Accept, After, ElementAfter
    <3>2. number' \in Element /\ Right(number', numeral')
      BY <3>1, AcceptRight DEF NumInv
    <3>3. numeral' \in Seq(Byte)
      BY <3>1, Longer DEF NumInv
    <3> QED
      BY <2>2, <3>1, <3>2, <3>3 DEF NumInv
  <2>4. CASE Finish(b)
    BY <2>4 DEF Finish, NumInv
  <2>5. CASE Refuse(b)
    BY <2>5 DEF Refuse, NumInv
  <2> QED
    BY <2>1, <2>3, <2>4, <2>5
<1>2. CASE UNCHANGED vars
  BY <1>2 DEF vars, NumInv
<1> QED
  BY <1>1, <1>2

LEMMA NumInvariant == Spec => []NumInv
BY InitNum, StepNum, PTL DEF Spec

-----------------------------------------------------------------------------
(* An integer has neither fraction nor exponent. *)
LEMMA WholeNumber ==
  ASSUME NumInv, number.numberType = "UnsignedLong"
  PROVE  /\ number.value \in ULONG /\ number.value = Spelled(IntegerPart(numeral))
         /\ Fraction(numeral) = << >> /\ ExponentPart(numeral) = << >>
<1>1. /\ number.state \in {"FirstSymbol", "IntegerDigits"} /\ number.value \in ULONG
      /\ numeral \in Seq(Byte)
  BY DEF NumInv, Right, Kind
<1>2. Fraction(numeral) = << >> /\ ExponentPart(numeral) = << >>
  <2>1. CASE number.state = "FirstSymbol"
    <3>1. numeral = << >>
      BY <2>1 DEF NumInv, Right, Placed
    <3> QED
      BY <3>1, PartsOfNothing
  <2>2. CASE number.state = "IntegerDigits"
    <3>1. DotAt(numeral) = Len(numeral) + 1
      BY <2>2 DEF NumInv, Right, Placed
    <3>2. DotAt(numeral) >= Len(numeral) /\ ExpAt(numeral) >= Len(numeral)
      BY <1>1, <3>1, Places
    <3> QED
      BY <1>1, <3>2, NoFraction, NoExponent
  <2> QED
    BY <1>1, <2>1, <2>2
<1>3. /\ IntegerPart(numeral) \in Seq(Digit)
      /\ number.value = Spelled(IntegerPart(numeral) \o << >>)
  BY <1>2 DEF NumInv, Right, Mantissa
<1>4. IntegerPart(numeral) \o << >> = IntegerPart(numeral)
  BY <1>3
<1> QED
  BY <1>1, <1>2, <1>3, <1>4

LEMMA Results ==
  ASSUME NumInv, HasResult
  PROVE  /\ result \in Created(number)
         /\ result.type = "Double" <=> number.numberType = "Double"
<1>1. result \in Created(number)
  BY DEF NumInv, HasResult, Pending, Refused
<1>2. CASE number.numberType = "Double"
  BY <1>1, <1>2 DEF Created
<1>3. CASE number.numberType # "Double"
  BY <1>1, <1>3 DEF Created
<1> QED
  BY <1>1, <1>2, <1>3

(* The integer accumulator never wraps, whatever the width of the integers   *)
(* and the length of the numeral (cjsonParser.c:562).                        *)
THEOREM NoWrap == Spec => []NeverWraps
<1>1. NumInv => NeverWraps
  BY WholeNumber DEF NeverWraps
<1> QED
  BY <1>1, NumInvariant, PTL

(* A numeral without point and exponent becomes a double only when one digit *)
(* less leaves no room for any digit (cjsonParser.c:562).                    *)
THEOREM DoublesAreNeeded == Spec => []IntegersStayIntegers
<1>1. NumInv => IntegersStayIntegers
  <2> SUFFICES ASSUME NumInv, HasResult, result.type = "Double"
               PROVE  \/ DotAt(numeral) <= Len(numeral)
                      \/ Spelled(IntegerPart(numeral)) >= 10 * (ULONG_MAX \div 10)
    BY DEF IntegersStayIntegers
  <2>1. number.numberType = "Double" /\ number \in Element /\ numeral \in Seq(Byte)
    BY Results DEF NumInv
  <2>2. /\ Len(numeral) \in Nat /\ DotAt(numeral) \in Nat /\ ExpAt(numeral) \in Nat
        /\ DotAt(numeral) <= ExpAt(numeral)
    BY <2>1, Places
  <2>3. CASE number.state = "IntegerDigits"
    <3>1. /\ IntegerPart(numeral) \in Seq(Digit)
          /\ number.value = Spelled(IntegerPart(numeral) \o Fraction(numeral))
          /\ number.value >= 10 * (ULONG_MAX \div 10)
      BY <2>1, <2>3 DEF NumInv, Right, Mantissa, Kind
    <3>2. DotAt(numeral) = Len(numeral) + 1
      BY <2>3 DEF NumInv, Right, Placed
    <3>3. Fraction(numeral) = << >>
      BY <2>1, <2>2, <3>2, NoFraction
    <3>4. IntegerPart(numeral) \o << >> = IntegerPart(numeral)
      BY <3>1
    <3> QED
      BY <3>1, <3>3, <3>4
  <2>4. CASE number.state # "IntegerDigits"
    <3>1. number.state # "FirstSymbol"
      BY <2>1 DEF NumInv, Right, Kind
    <3>2. number.state \in {"FractionalDigitsFirst", "FractionalDigits", "ExponentFirst",
                            "ExponentFirstAfterSign", "Exponent"}
      BY <2>1, <2>4, <3>1 DEF Element, NumberState
    <3>3. Placed(numeral, number.state)
      BY DEF NumInv, Right
    <3>4. DotAt(numeral) <= Len(numeral) \/ ExpAt(numeral) <= Len(numeral)
      BY <2>2, <3>2, <3>3 DEF Placed
    <3> QED
      BY <2>2, <3>4
  <2> QED
    BY <2>3, <2>4
<1> QED
  BY <1>1, NumInvariant, PTL

(* By the kind of the number: the accumulators are what the parts denote. *)
LEMMA FaithfulHolds ==
  ASSUME NumInv, HasResult, Len(ExponentPart(numeral)) <= 1,
         result.type = "SignedLong" => Spelled(IntegerPart(numeral)) < 2 ^ (Width - 1)
  PROVE  Equals(result, Denoted(numeral))
<1> DEFINE d == Denoted(numeral)
<1>1. /\ number \in Element
      /\ number.value = Spelled(IntegerPart(numeral) \o Fraction(numeral))
      /\ number.multiplier + Len(Fraction(numeral)) = 0 /\ number.dwSignBase = Sign(numeral)
      /\ number.dwCurrentExponent = Spelled(ExponentPart(numeral))
      /\ number.dwSignExponent = ExponentSign(numeral)
      /\ Fraction(numeral) \in Seq(Digit)
  BY DEF NumInv, Right, Mantissa, Exponent
<1>2. /\ number.value \in Nat /\ number.dwCurrentExponent \in Nat /\ number.multiplier \in Int
      /\ number.dwSignBase \in {-1, 1} /\ number.dwSignExponent \in {-1, 1}
      /\ number.numberType \in {"UnsignedLong", "Double"}
      /\ Len(Fraction(numeral)) \in Nat
  BY <1>1, LenProperties DEF Element
<1>3. /\ d.mantissa = number.dwSignBase * number.value
      /\ d.scale = number.dwSignExponent * number.dwCurrentExponent - Len(Fraction(numeral))
  BY <1>1 DEF Denoted
<1> HIDE DEF d
<1>4. CASE number.numberType = "Double"
  <2>1. /\ result.mantissa = number.value * number.dwSignBase
        /\ result.scale = number.multiplier + number.dwSignExponent * number.dwCurrentExponent
    BY <1>4, Results DEF Created
  <2>2. result.mantissa = d.mantissa
    BY <1>2, <1>3, <2>1
  <2>3. result.scale = d.scale
    <3>1. CASE number.dwSignExponent = 1
      BY <1>1, <1>2, <1>3, <2>1, <3>1
    <3>2. CASE number.dwSignExponent = -1
      BY <1>1, <1>2, <1>3, <2>1, <3>2
    <3> QED
      BY <1>2, <3>1, <3>2
  <2> QED
    BY <2>2, <2>3 DEF Equals, d
<1>5. CASE number.numberType = "UnsignedLong"
  <2>1. /\ number.value = Spelled(IntegerPart(numeral))
        /\ Len(Fraction(numeral)) = 0 /\ number.dwCurrentExponent = 0
    BY <1>1, <1>5, WholeNumber, SpelledEmpty, EmptySeq
  <2>2. d.scale = 0
    BY <1>2, <1>3, <2>1
  <2>3. CASE number.dwSignBase = 1
    <3>1. result.mantissa = number.value /\ result.scale = 0
      BY <1>5, <2>3, Results DEF Created
    <3> QED
      BY <1>2, <1>3, <2>2, <2>3, <3>1 DEF Equals, d
  <2>4. CASE number.dwSignBase = -1
    <3>1. result \in {[type |-> "SignedLong", mantissa |-> v, scale |-> 0] : v \in Negated(number.value)}
      BY <1>5, <2>4, Results DEF Created
    <3>2. result.type = "SignedLong" /\ result.mantissa \in Negated(number.value) /\ result.scale = 0
      BY <3>1
    <3>3. Negated(number.value) = {-number.value}
      BY <2>1, <3>2 DEF Negated
    <3>4. result.mantissa = -number.value
      BY <3>2, <3>3
    <3> QED
      BY <1>2, <1>3, <2>2, <2>4, <3>2, <3>4 DEF Equals, d
  <2> QED
    BY <1>2, <2>3, <2>4
<1> QED
  BY <1>2, <1>4, <1>5

(* The number delivered is the one the numeral denotes, for exponents of at  *)
(* most one digit and negative integers within signed long: for every width  *)
(* of the integers and numerals of every length (cjsonParser.c:532).         *)
THEOREM NumbersAreFaithful == Spec => []Faithful
<1>1. NumInv => Faithful
  BY FaithfulHolds DEF Faithful
<1> QED
  BY <1>1, NumInvariant, PTL
=============================================================================
