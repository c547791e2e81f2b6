-------------------- MODULE CjsonSerializerText_proofs --------------------
(***************************************************************************)
(* The serializer writes the text of its document: CjsonSerializer         *)
(* implements DocumentWriter.                                              *)
(*                                                                         *)
(* Every element of the stack owes a text: what its handler, and those of  *)
(* the elements it will push, have still to write.  What has been written, *)
(* followed by what the elements owe, the top first, is the text of the    *)
(* document (TextInv).  A step writes the beginning of what its top owes,  *)
(* or passes some of that on to an element it pushes (Advances).           *)
(***************************************************************************)
EXTENDS CjsonSerializer_proofs

-----------------------------------------------------------------------------
(* Texts. *)
Text == Seq(Int)

LEMMA Assoc == \A a, b, c \in Text : (a \o b) \o c = a \o (b \o c)
<1> SUFFICES ASSUME NEW a \in Text, NEW b \in Text, NEW c \in Text
             PROVE  (a \o b) \o c = a \o (b \o c)
  OBVIOUS
<1> QED
  BY ConcatAssociative DEF Text

LEMMA Concat ==
  /\ << >> \in Text
  /\ \A a, b \in Text : a \o b \in Text /\ Len(a \o b) = Len(a) + Len(b)
  /\ \A a \in Text : << >> \o a = a /\ a \o << >> = a /\ Len(a) \in Nat
BY ConcatProperties, ConcatEmptySeq, LenProperties DEF Text

LEMMA ListOf ==
  ASSUME NEW S, NEW n \in Nat, NEW f, f = [i \in 1 .. n |-> f[i]], \A i \in 1 .. n : f[i] \in S
  PROVE  f \in Seq(S) /\ Len(f) = n
OBVIOUS

LEMMA FlattenText == \A s \in Seq(Text) : FlattenSeq(s) \in Text
BY FlattenType DEF Text

LEMMA FlattenFirst ==
  ASSUME NEW s \in Seq(Text), NEW r \in Seq(Text),
         Len(s) = Len(r) + 1, \A i \in 1 .. Len(r) : r[i] = s[i + 1]
  PROVE  FlattenSeq(s) = s[1] \o FlattenSeq(r)
<1> DEFINE n == Len(r)
           f == CHOOSE f : Flattens(f, s, n + 1)
           g == CHOOSE g : Flattens(g, r, n)
<1>1. n \in Nat /\ (\A i \in 1 .. n : r[i] \in Text) /\ s[1] \in Text /\ Len(s) = n + 1
  <2>1. n \in Nat /\ Len(s) = n + 1
    BY LenProperties
  <2>2. 1 \in 1 .. Len(s)
    BY <2>1
  <2> QED
    BY <2>1, <2>2, ElementOfSeq DEF Text
<1>2. Flattens(f, s, n + 1) /\ Flattens(g, r, n)
  <2>1. n + 1 \in Nat
    BY <1>1
  <2> QED
    BY <1>1, <2>1, FlattenExists
<1>3. FlattenSeq(s) = f[n + 1] /\ (n # 0 => FlattenSeq(r) = g[n]) /\ (n = 0 => r = << >>)
  <2>1. Len(s) # 0
    BY <1>1
  <2>2. FlattenSeq(s) = f[n + 1]
    BY <1>1, <2>1 DEF FlattenSeq, f, Flattens
  <2> QED
    BY <2>2, EmptySeq DEF FlattenSeq, g, Flattens
<1> HIDE DEF f, g
<1>4. \A i \in 1 .. n + 1 : f[i] = IF i = 1 THEN s[i] ELSE f[i - 1] \o s[i]
  BY <1>2 DEF Flattens
<1>5. \A i \in 1 .. n : g[i] = IF i = 1 THEN r[i] ELSE g[i - 1] \o r[i]
  BY <1>2 DEF Flattens
<1>6. \A i \in 1 .. n : r[i] = s[i + 1]
  OBVIOUS
<1> HIDE DEF n
<1> DEFINE P(k) == g[k] \in Text /\ f[k + 1] = s[1] \o g[k]
           T == {k \in Nat : k \in 1 .. n => P(k)}
<1> HIDE DEF P
<1>7. 0 \in T
  OBVIOUS
<1>8. ASSUME NEW k \in T PROVE k + 1 \in T
  <2> SUFFICES ASSUME k + 1 \in 1 .. n PROVE P(k + 1)
    OBVIOUS
  <2>1. k \in Nat /\ k + 1 \in 1 .. n + 1 /\ k + 2 \in 1 .. n + 1 /\ k + 1 + 1 = k + 2
    BY <1>1
  <2>2. g[k + 1] = IF k = 0 THEN r[1] ELSE g[k] \o r[k + 1]
    BY <1>5, <2>1
  <2>3. f[k + 2] = f[k + 1] \o r[k + 1]
    <3>1. f[k + 2] = f[k + 1] \o s[k + 2]
      <4>1. k + 2 # 1
        BY <2>1
      <4>2. \A i \in 1 .. n + 1 : i # 1 => f[i] = f[i - 1] \o s[i]
        BY <1>4
      <4> DEFINE m == k + 2
      <4>3. m \in 1 .. n + 1 /\ m # 1 /\ m - 1 = k + 1 /\ m = k + 2
        BY <2>1, <4>1
      <4> HIDE DEF m
      <4>4. f[m] = f[m - 1] \o s[m]
        BY <4>2, <4>3
      <4> QED
        BY <4>3, <4>4
    <3>2. r[k + 1] = s[k + 2] /\ k + 2 - 1 = k + 1
      BY <1>6, <2>1
    <3> QED
      BY <3>1, <3>2
  <2>4. r[k + 1] \in Text
    BY <1>1
  <2>5. CASE k = 0
    <3>1. f[1] = s[1] /\ k + 1 = 1 /\ k + 1 + 1 = 2 /\ k + 2 = 2
      BY <1>1, <1>4, <2>1, <2>5
    <3>2. g[1] = r[1] /\ f[2] = s[1] \o r[1] /\ r[1] \in Text
      BY <2>2, <2>3, <2>4, <2>5, <3>1
    <3> QED
      BY <3>1, <3>2 DEF P
  <2>6. CASE k # 0
    <3>1. g[k] \in Text /\ f[k + 1] = s[1] \o g[k]
      <4>1. P(k)
        BY <1>1, <2>1, <2>6
      <4> QED
        BY <4>1 DEF P
    <3>2. (s[1] \o g[k]) \o r[k + 1] = s[1] \o (g[k] \o r[k + 1])
      BY <1>1, <2>4, <3>1, Assoc
    <3>3. g[k] \o r[k + 1] \in Text
      BY <2>4, <3>1, Concat
    <3> QED
      BY <2>1, <2>2, <2>3, <2>6, <3>1, <3>2, <3>3 DEF P
  <2> QED
    BY <2>5, <2>6
<1>9. T = Nat
  <2>1. T \in SUBSET Nat
    OBVIOUS
  <2> HIDE DEF T
  <2> QED
    BY <1>7, <1>8, <2>1, SetInduction
<1>10. CASE n = 0
  <2>1. f[1] = s[1] /\ FlattenSeq(r) = << >>
    BY <1>3, <1>4, <1>10 DEF FlattenSeq, n
  <2>2. s[1] \o << >> = s[1]
    BY <1>1, Concat
  <2> QED
    BY <1>3, <1>10, <2>1, <2>2
<1>11. CASE n # 0
  <2>1. n \in T /\ n \in 1 .. n
    <3> HIDE DEF T
    <3> QED
      BY <1>1, <1>9, <1>11
  <2>2. P(n)
    BY <2>1
  <2> QED
    BY <1>3, <1>11, <2>2 DEF P
<1> QED
  BY <1>10, <1>11

LEMMA FlattenNone == FlattenSeq(<< >>) = << >>
BY EmptySeq DEF FlattenSeq

-----------------------------------------------------------------------------
(* What follows element j of a list: the others, a comma before each; from    *)
(* the start, the texts as they are joined.                                   *)
Commas(x, j) == FlattenSeq([i \in 1 .. Len(x) - j |-> <<Comma>> \o x[i + j]])
From(x, j) == IF j = 0 THEN Joined(x) ELSE Commas(x, j)

LEMMA CommaText == <<Comma>> \in Text
BY DEF Comma, Text

LEMMA CommasAre ==
  ASSUME NEW x \in Seq(Text), NEW j \in Nat, j <= Len(x)
  PROVE  /\ Commas(x, j) \in Text
         /\ j < Len(x) => Commas(x, j) = (<<Comma>> \o x[j + 1]) \o Commas(x, j + 1)
         /\ j = Len(x) => Commas(x, j) = << >>
<1> DEFINE n == Len(x)
           s(k) == [i \in 1 .. n - k |-> <<Comma>> \o x[i + k]]
<1>1. n \in Nat /\ \A i \in 1 .. n : x[i] \in Text
  BY LenProperties, ElementOfSeq DEF Text
<1>2. ASSUME NEW k \in 0 .. n
      PROVE  s(k) \in Seq(Text) /\ Len(s(k)) = n - k
  <2>1. n - k \in Nat /\ \A i \in 1 .. n - k : i + k \in 1 .. n
    BY <1>1
  <2>2. \A i \in 1 .. n - k : <<Comma>> \o x[i + k] \in Text
    BY <1>1, <2>1, CommaText, Concat
  <2> DEFINE m == n - k
             f == s(k)
  <2>3. f = [i \in 1 .. m |-> f[i]] /\ m \in Nat /\ \A i \in 1 .. m : f[i] \in Text
    BY <2>1, <2>2
  <2> HIDE DEF f, m
  <2>4. f \in Seq(Text) /\ Len(f) = m
    BY <2>3, ListOf
  <2> QED
    BY <2>4 DEF f, m
<1>3. j \in 0 .. n
  BY <1>1
<1>4. Commas(x, j) \in Text
  <2>1. s(j) \in Seq(Text)
    BY <1>2, <1>3 
  <2> HIDE DEF s
  <2> QED
    BY <2>1, FlattenText DEF Commas, s
<1>5. ASSUME j < n PROVE Commas(x, j) = (<<Comma>> \o x[j + 1]) \o Commas(x, j + 1)
  <2>1. j + 1 \in 0 .. n /\ 1 \in 1 .. n - j /\ 1 + j = j + 1
    BY <1>1, <1>5
  <2>2. /\ s(j) \in Seq(Text) /\ s(j + 1) \in Seq(Text)
        /\ Len(s(j)) = n - j /\ Len(s(j + 1)) = n - (j + 1)
    BY <1>2, <1>3, <2>1 
  <2>3. \A i \in 1 .. n - (j + 1) : s(j + 1)[i] = s(j)[i + 1]
    <3>1. \A i \in 1 .. n - (j + 1) : i + 1 \in 1 .. n - j /\ i + (j + 1) = (i + 1) + j
      BY <1>1
    <3> HIDE DEF n
    <3> QED
      BY <3>1
  <2>4. s(j)[1] = <<Comma>> \o x[j + 1]
    BY <2>1
  <2>5. n - j = n - (j + 1) + 1
    BY <1>1
  <2> HIDE DEF s, n
  <2>6. FlattenSeq(s(j)) = s(j)[1] \o FlattenSeq(s(j + 1))
    BY <2>2, <2>3, <2>5, FlattenFirst
  <2> QED
    BY <2>4, <2>6 DEF Commas, s, n
<1>6. ASSUME j = n PROVE Commas(x, j) = << >>
  <2>1. Len(s(j)) = 0 /\ s(j) \in Seq(Text)
    BY <1>1, <1>2, <1>3, <1>6
  <2>2. s(j) = << >>
    <3> HIDE DEF s
    <3> QED
      BY <2>1, EmptySeq
  <2> QED
    BY <2>2, FlattenNone DEF Commas
<1> QED
  BY <1>4, <1>5, <1>6

LEMMA JoinedIs ==
  ASSUME NEW x \in Seq(Text)
  PROVE  /\ Joined(x) \in Text
         /\ x = << >> => Joined(x) = << >>
         /\ x # << >> => Joined(x) = x[1] \o Commas(x, 1)
<1> DEFINE n == Len(x)
           s == [i \in DOMAIN x |-> IF i = 1 THEN x[i] ELSE <<Comma>> \o x[i]]
           r == [i \in 1 .. n - 1 |-> <<Comma>> \o x[i + 1]]
<1>1. n \in Nat /\ DOMAIN x = 1 .. n /\ \A i \in 1 .. n : x[i] \in Text
  BY LenProperties, ElementOfSeq DEF Text
<1>2. s \in Seq(Text) /\ Len(s) = n
  <2>1. \A i \in 1 .. n : (IF i = 1 THEN x[i] ELSE <<Comma>> \o x[i]) \in Text
    BY <1>1, CommaText, Concat
  <2> HIDE DEF n
  <2> QED
    BY <1>1, <2>1
<1>3. Joined(x) = FlattenSeq(s)
  BY DEF Joined
<1>4. Joined(x) \in Text
  <2> HIDE DEF s
  <2> QED
    BY <1>2, <1>3, FlattenText 
<1>5. ASSUME x = << >> PROVE Joined(x) = << >>
  <2>1. Len(s) = 0
    BY <1>2, <1>5, EmptySeq
  <2>2. s = << >>
    <3> HIDE DEF s
    <3> QED
      BY <1>2, <2>1, EmptySeq
  <2> QED
    BY <1>3, <2>2, FlattenNone
<1>6. ASSUME x # << >> PROVE Joined(x) = x[1] \o Commas(x, 1)
  <2>1. n # 0
    BY <1>6, EmptySeq
  <2>2. n - 1 \in Nat /\ n = n - 1 + 1 /\ 1 \in 1 .. n /\ \A i \in 1 .. n - 1 : i + 1 \in 1 .. n /\ i + 1 # 1
    BY <1>1, <2>1
  <2>3. r \in Seq(Text) /\ Len(r) = n - 1
    <3>1. \A i \in 1 .. n - 1 : <<Comma>> \o x[i + 1] \in Text
      BY <1>1, <2>2, CommaText, Concat
    <3> DEFINE m == n - 1
    <3>2. r = [i \in 1 .. m |-> r[i]] /\ m \in Nat /\ \A i \in 1 .. m : r[i] \in Text
      BY <2>2, <3>1
    <3> HIDE DEF r, m
    <3>3. r \in Seq(Text) /\ Len(r) = m
      BY <3>2, ListOf
    <3> QED
      BY <3>3 DEF m
  <2>4. s[1] = x[1] /\ \A i \in 1 .. n - 1 : r[i] = s[i + 1]
    <3> HIDE DEF n
    <3> QED
      BY <1>1, <2>2
  <2>5. FlattenSeq(r) = Commas(x, 1)
    BY DEF Commas
  <2> HIDE DEF s, r, n
  <2>6. FlattenSeq(s) = s[1] \o FlattenSeq(r)
    BY <1>2, <2>2, <2>3, <2>4, FlattenFirst 
  <2> QED
    BY <1>3, <2>4, <2>5, <2>6
<1> QED
  BY <1>4, <1>5, <1>6

LEMMA FromIs ==
  ASSUME NEW x \in Seq(Text), NEW j \in Nat, j <= Len(x)
  PROVE  /\ From(x, j) \in Text
         /\ j = Len(x) => From(x, j) = << >>
         /\ j < Len(x) /\ j = 0 => From(x, j) = x[j + 1] \o From(x, j + 1)
         /\ j < Len(x) /\ j # 0 => From(x, j) = <<Comma>> \o (x[j + 1] \o From(x, j + 1))
<1>1. Len(x) \in Nat /\ \A i \in 1 .. Len(x) : x[i] \in Text
  BY LenProperties, ElementOfSeq DEF Text
<1>2. CASE j = 0
  <2>1. From(x, j) = Joined(x) /\ From(x, j + 1) = Commas(x, 1)
    BY <1>2 DEF From
  <2>2. (Len(x) = 0) <=> (x = << >>)
    BY EmptySeq
  <2> QED
    BY <1>1, <1>2, <2>1, <2>2, JoinedIs
<1>3. CASE j # 0
  <2>1. From(x, j) = Commas(x, j) /\ From(x, j + 1) = Commas(x, j + 1)
    BY <1>3 DEF From
  <2>2. ASSUME j < Len(x) PROVE From(x, j) = <<Comma>> \o (x[j + 1] \o From(x, j + 1))
    <3>1. j + 1 \in 1 .. Len(x) /\ j + 1 \in Nat /\ j + 1 <= Len(x)
      BY <1>1, <2>2
    <3>2. x[j + 1] \in Text /\ Commas(x, j + 1) \in Text
      BY <1>1, <3>1, CommasAre
    <3>3. (<<Comma>> \o x[j + 1]) \o Commas(x, j + 1) = <<Comma>> \o (x[j + 1] \o Commas(x, j + 1))
      BY <3>2, CommaText, Assoc 
    <3> QED
      BY <2>1, <2>2, <3>3, CommasAre
  <2> QED
    BY <1>3, <2>1, <2>2, CommasAre
<1> QED
  BY <1>2, <1>3

-----------------------------------------------------------------------------
(* The text of a unit is what the handler of strings writes for it. *)
LEMMA SpellIs ==
  ASSUME NEW v \in 0 .. 15
  PROVE  (CHOOSE b \in HexDigit : b < 97 /\ HexValue(b) = v) = v + IF v > 9 THEN 55 ELSE 48
<1> DEFINE d == v + IF v > 9 THEN 55 ELSE 48
<1>1. \A b \in HexDigit : b < 97 => HexValue(b) = IF b < 58 THEN b - 48 ELSE b - 55
  BY DEF HexDigit, HexValue, Digit
<1>2. d \in HexDigit /\ d < 97 /\ (v > 9 <=> d >= 58) /\ (v <= 9 => d = v + 48) /\ (v > 9 => d = v + 55)
  BY DEF HexDigit, Digit
<1> HIDE DEF d
<1>3. HexValue(d) = v
  <2>1. d \in Int
    BY <1>2 DEF HexDigit, Digit
  <2> QED
    BY <1>1, <1>2, <2>1
<1>4. ASSUME NEW b \in HexDigit, b < 97, HexValue(b) = v PROVE b = d
  <2>1. b \in 48 .. 57 \/ b \in 65 .. 70
    BY <1>4 DEF HexDigit, Digit
  <2>2. v = IF b < 58 THEN b - 48 ELSE b - 55
    BY <1>1, <1>4
  <2> QED
    BY <1>2, <2>1, <2>2
<1>5. (CHOOSE b \in HexDigit : b < 97 /\ HexValue(b) = v) = d
  BY <1>2, <1>3, <1>4
<1> QED
  BY <1>5 DEF d

LEMMA HexTextIs ==
  ASSUME NEW u \in CodeUnit
  PROVE  HexText(u) = HexDigits(u)
<1> DEFINE a == u \div 4096
           b == (u \div 256) % 16
           c == (u \div 16) % 16
           d == u % 16
           D(v) == v + IF v > 9 THEN 55 ELSE 48
           p == <<4096, 256, 16, 1>>
           Spell(v) == CHOOSE b_1 \in HexDigit : b_1 < 97 /\ HexValue(b_1) = v
<1>1. u \in Nat /\ u < 65536
  BY DEF CodeUnit
<1>2. a \in 0 .. 15 /\ b \in 0 .. 15 /\ c \in 0 .. 15 /\ d \in 0 .. 15
  BY <1>1
<1>3. (u \div 4096) % 16 = a /\ (u \div 1) % 16 = d
  BY <1>1
<1>4. HexText(u) = <<Spell(a), Spell(b), Spell(c), Spell(d)>>
  BY DEF HexText
<1>5. HexDigits(u) = [i \in 1 .. 4 |-> D((u \div p[i]) % 16)]
  BY DEF HexDigits
<1>6. /\ Spell(a) = D(a) /\ Spell(b) = D(b) /\ Spell(c) = D(c) /\ Spell(d) = D(d)
  <2> HIDE DEF a, b, c, d
  <2> QED
    BY <1>2, SpellIs
<1>7. p[1] = 4096 /\ p[2] = 256 /\ p[3] = 16 /\ p[4] = 1
  OBVIOUS
<1>8. /\ (u \div p[1]) % 16 = a /\ (u \div p[2]) % 16 = b
      /\ (u \div p[3]) % 16 = c /\ (u \div p[4]) % 16 = d
  BY <1>3, <1>7
<1> HIDE DEF a, b, c, d, Spell, p, D
<1>9. HexDigits(u) = <<D(a), D(b), D(c), D(d)>>
  <2> DEFINE h == [i \in 1 .. 4 |-> D((u \div p[i]) % 16)]
  <2>1. h[1] = D(a) /\ h[2] = D(b) /\ h[3] = D(c) /\ h[4] = D(d)
    BY <1>8
  <2>2. h = [i \in 1 .. 4 |-> h[i]]
    OBVIOUS
  <2> HIDE DEF h
  <2>3. h = <<h[1], h[2], h[3], h[4]>>
    BY <2>2
  <2> QED
    BY <1>5, <2>1, <2>3 DEF h
<1> QED
  BY <1>4, <1>6, <1>9

LEMMA EscapeIs ==
  ASSUME NEW u \in 0 .. 127
  PROVE  UnitText(u) = IF u \in NeedsEscape THEN <<Backslash, EscapeLetter(u)>> ELSE <<u>>
<1>1. ~(u >= 128)
  OBVIOUS
<1>2. CASE u = Quote
  <2>1. EscapeLetter(u) = Quote /\ u \in NeedsEscape
    BY <1>2 DEF EscapeLetter, NeedsEscape, Quote
  <2> QED
    BY <1>1, <1>2, <2>1 DEF UnitText
<1>3. CASE u # Quote
  <2> DEFINE D == {Backslash, Slash, LetterB, LetterF, LetterN, LetterR, LetterT}
  <2>1. /\ DOMAIN Unescaped = D
        /\ \A b \in D : Unescaped[b] = CASE b = LetterB -> 8 [] b = LetterF -> 12
                                         [] b = LetterN -> 10 [] b = LetterR -> 13
                                         [] b = LetterT -> 9 [] OTHER -> b
    BY DEF Unescaped
  <2>2. \A b \in D : Unescaped[b] = u <=> (u \in NeedsEscape /\ b = EscapeLetter(u))
    BY <1>3, <2>1 DEF NeedsEscape, EscapeLetter, Quote, Backslash, Slash, LetterB, LetterF,
                      LetterN, LetterR, LetterT
  <2>3. u \in NeedsEscape => EscapeLetter(u) \in D
    BY <1>3 DEF NeedsEscape, EscapeLetter, Quote, Backslash, Slash, LetterB, LetterF,
                LetterN, LetterR, LetterT
  <2> HIDE DEF D
  <2>4. CASE u \in NeedsEscape
    <3>1. \E b \in DOMAIN Unescaped : Unescaped[b] = u
      BY <2>1, <2>2, <2>3, <2>4
    <3>2. (CHOOSE b \in DOMAIN Unescaped : Unescaped[b] = u) = EscapeLetter(u)
      BY <2>1, <2>2, <2>3, <2>4
    <3> QED
      BY <1>1, <1>3, <2>4, <3>1, <3>2 DEF UnitText
  <2>5. CASE u \notin NeedsEscape
    <3>1. ~\E b \in DOMAIN Unescaped : Unescaped[b] = u
      BY <2>1, <2>2, <2>5
    <3> QED
      BY <1>1, <1>3, <2>5, <3>1 DEF UnitText
  <2> QED
    BY <2>4, <2>5
<1> QED
  BY <1>2, <1>3

LEMMA EscapeLetterByte == \A u \in 0 .. 127 : EscapeLetter(u) \in Octet
BY DEF EscapeLetter, LetterB, LetterF, LetterN, LetterR, LetterT, Octet

LEMMA OctetText == \A s \in Seq(Octet) : s \in Text
BY SeqMonotonic DEF Octet, Text

LEMMA UnitTextType ==
  ASSUME NEW u \in CodeUnit
  PROVE  UnitText(u) \in Text
<1>1. u \in Nat /\ u < 65536
  BY DEF CodeUnit
<1>2. CASE u >= 128
  <2>1. UnitText(u) = <<Backslash, LetterU>> \o HexDigits(u)
    BY <1>2, HexTextIs DEF UnitText
  <2>2. HexDigits(u) \in Text
    BY <1>1, HexDigitsType, OctetText
  <2>3. <<Backslash, LetterU>> \in Text
    BY DEF Backslash, LetterU, Text
  <2> QED
    BY <2>1, <2>2, <2>3, Concat
<1>3. CASE u < 128
  <2>1. u \in 0 .. 127
    BY <1>1, <1>3
  <2>2. EscapeLetter(u) \in Int
    BY <2>1, EscapeLetterByte DEF Octet
  <2>3. <<Backslash, EscapeLetter(u)>> \in Text /\ <<u>> \in Text
    BY <2>1, <2>2 DEF Backslash, Text
  <2> QED
    BY <2>1, <2>3, EscapeIs
<1> QED
  BY <1>1, <1>2, <1>3

(* The text of a string is a quote, the spelling of its units and its end.   *)
Closing(tail) == IF tail = << >> THEN <<Quote>> ELSE <<Stop>>
Spelling(us) == FlattenSeq([i \in DOMAIN us |-> UnitText(us[i])])

LEMMA SpellingType == \A us \in Seq(CodeUnit) : Spelling(us) \in Text
<1> SUFFICES ASSUME NEW us \in Seq(CodeUnit) PROVE Spelling(us) \in Text
  OBVIOUS
<1> DEFINE s == [i \in DOMAIN us |-> UnitText(us[i])]
           n == Len(us)
<1>1. n \in Nat /\ DOMAIN us = 1 .. n /\ \A i \in 1 .. n : us[i] \in CodeUnit
  BY LenProperties, ElementOfSeq
<1>2. s = [i \in 1 .. n |-> s[i]] /\ \A i \in 1 .. n : s[i] \in Text
  BY <1>1, UnitTextType
<1> HIDE DEF s, n
<1>3. s \in Seq(Text)
  BY <1>1, <1>2, ListOf
<1> QED
  BY <1>3, FlattenText DEF Spelling, s

LEMMA ClosingType == \A t : Closing(t) \in Text /\ <<Quote>> \in Text
BY DEF Closing, Quote, Stop, Text

LEMMA StringTextType ==
  ASSUME NEW v \in StringValue
  PROVE  /\ StringText(v) \in Text
         /\ StringText(v) = <<Quote>> \o (Spelling(v.units) \o Closing(v.tail))
<1>1. v.units \in Seq(CodeUnit)
  BY DEF StringValue
<1>2. Spelling(v.units) \in Text /\ Closing(v.tail) \in Text /\ <<Quote>> \in Text
  BY <1>1, SpellingType, ClosingType
<1>3. StringText(v) = (<<Quote>> \o Spelling(v.units)) \o Closing(v.tail)
  BY DEF StringText, Spelling, Closing
<1> QED
  BY <1>2, <1>3, Assoc, Concat

-----------------------------------------------------------------------------
(* The text of a document exists: no value lies inside itself.                *)
ElementTexts(f, n) == [i \in DOMAIN Tree[n].elements |-> f[Tree[n].elements[i]]]
MemberText(f, m)   == StringText(m.key) \o <<Colon>> \o f[m.value]
MemberTexts(f, n)  == [i \in DOMAIN Tree[n].members |-> MemberText(f, Tree[n].members[i])]
Spelt(f, n) ==
  LET v == Tree[n]
  IN CASE v.type = "Constant" -> Literal[v.value]
       [] v.type = "Number" -> Printed(v.digits)
       [] v.type = "String" -> StringText(v)
       [] v.type = "Array" -> <<LBracket>> \o Joined(ElementTexts(f, n)) \o <<RBracket>>
       [] v.type = "Object" -> <<LBrace>> \o Joined(MemberTexts(f, n)) \o <<RBrace>>

LEMMA InsideIs ==
  ASSUME NEW n \in Node
  PROVE  /\ Inside(n) \subseteq Node
         /\ Tree[n].type = "Array" =>
              /\ Tree[n].elements \in Seq(Node)
              /\ \A i \in DOMAIN Tree[n].elements : Tree[n].elements[i] \in Inside(n)
         /\ Tree[n].type = "Object" =>
              /\ Tree[n].members \in Seq([key : StringValue, value : Node])
              /\ \A i \in DOMAIN Tree[n].members : /\ Tree[n].members[i].value \in Inside(n)
                                                   /\ Tree[n].members[i].key \in StringValue
<1>1. CASE Tree[n].type = "Array"
  <2>1. Tree[n].elements \in Seq(Node) /\ Inside(n) = ToSet(Tree[n].elements)
    BY <1>1, TreeAssumption DEF Inside
  <2> DEFINE s == Tree[n].elements
  <2>2. s \in Seq(Node) /\ Inside(n) = {s[i] : i \in DOMAIN s}
    BY <2>1 DEF ToSet
  <2> HIDE DEF s
  <2>3. DOMAIN s = 1 .. Len(s) /\ \A i \in 1 .. Len(s) : s[i] \in Node
    BY <2>2, ElementOfSeq, LenProperties
  <2>4. Inside(n) \subseteq Node /\ \A i \in DOMAIN s : s[i] \in Inside(n)
    BY <2>2, <2>3
  <2> QED
    BY <1>1, <2>2, <2>4 DEF s
<1>2. CASE Tree[n].type = "Object"
  <2> DEFINE s == Tree[n].members
             M == [key : StringValue, value : Node]
  <2>1. s \in Seq(M)
    BY <1>2, TreeAssumption
  <2>2. Inside(n) = {m.value : m \in {s[i] : i \in DOMAIN s}}
    BY <1>2 DEF Inside, ToSet
  <2> HIDE DEF s
  <2>3. DOMAIN s = 1 .. Len(s) /\ \A i \in 1 .. Len(s) : s[i] \in M
    BY <2>1, ElementOfSeq, LenProperties
  <2>4. \A i \in DOMAIN s : s[i].value \in Node /\ s[i].key \in StringValue
    BY <2>3
  <2>5. Inside(n) \subseteq Node /\ \A i \in DOMAIN s : s[i].value \in Inside(n)
    BY <2>2, <2>4
  <2> QED
    BY <1>2, <2>1, <2>4, <2>5 DEF s
<1>3. CASE Tree[n].type # "Array" /\ Tree[n].type # "Object"
  BY <1>3 DEF Inside
<1> QED
  BY <1>1, <1>2, <1>3

LEMMA SpeltAgree ==
  ASSUME NEW n \in Node, NEW f, NEW g, \A m \in Inside(n) : f[m] = g[m]
  PROVE  Spelt(f, n) = Spelt(g, n)
<1>1. CASE Tree[n].type = "Array"
  <2>1. ElementTexts(f, n) = ElementTexts(g, n)
    BY <1>1, InsideIs DEF ElementTexts
  <2> QED
    BY <1>1, <2>1 DEF Spelt
<1>2. CASE Tree[n].type = "Object"
  <2>1. \A i \in DOMAIN Tree[n].members :
          MemberText(f, Tree[n].members[i]) = MemberText(g, Tree[n].members[i])
    BY <1>2, InsideIs DEF MemberText
  <2>2. MemberTexts(f, n) = MemberTexts(g, n)
    BY <2>1 DEF MemberTexts
  <2> QED
    BY <1>2, <2>2, SMTT(30) DEF Spelt
<1>3. CASE Tree[n].type # "Array" /\ Tree[n].type # "Object"
  BY <1>3, TreeAssumption DEF Spelt
<1> QED
  BY <1>1, <1>2, <1>3

Solves(f, S) == /\ S \subseteq Node /\ \A n \in S : Inside(n) \subseteq S
                /\ \A n \in S : f[n] = Spelt(f, n)

LEMMA SolvesAgree ==
  ASSUME NEW f, NEW S, Solves(f, S), NEW g, NEW U, Solves(g, U), NEW n \in S \cap U
  PROVE  f[n] = g[n]
<1> DEFINE T == {m \in S \cap U : f[m] # g[m]}
<1> SUFFICES ASSUME T # {} PROVE FALSE
  OBVIOUS
<1>1. T \in SUBSET Node
  BY DEF Solves
<1>2. PICK m \in T : Inside(m) \cap T = {}
  BY <1>1, NodeAssumption
<1>3. Inside(m) \subseteq S \cap U /\ m \in Node
  BY <1>1 DEF Solves
<1>4. \A k \in Inside(m) : f[k] = g[k]
  BY <1>2, <1>3
<1>5. Spelt(f, m) = Spelt(g, m)
  BY <1>3, <1>4, SpeltAgree
<1> QED
  BY <1>2, <1>5 DEF Solves

LEMMA DocTextExists == \E f : f = [n \in Node |-> Spelt(f, n)]
<1> DEFINE Known == {n \in Node : \E f, S : Solves(f, S) /\ n \in S}
           F(n) == CHOOSE f : \E S : Solves(f, S) /\ n \in S
           val == [n \in Node |-> F(n)[n]]
<1>1. ASSUME NEW f, NEW S, Solves(f, S), NEW n \in S
      PROVE  n \in Known /\ val[n] = f[n]
  <2>1. n \in Known /\ n \in Node
    BY <1>1 DEF Solves
  <2>2. \E S_1 : Solves(F(n), S_1) /\ n \in S_1
    BY <2>1
  <2>3. val[n] = F(n)[n]
    BY <2>1
  <2> HIDE DEF F, val
  <2>4. F(n)[n] = f[n]
    BY <1>1, <2>2, SolvesAgree
  <2> QED
    BY <2>1, <2>3, <2>4
<1>2. ASSUME NEW n \in Known
      PROVE  Inside(n) \subseteq Known /\ val[n] = Spelt(val, n) /\ n \in Node
  <2>1. PICK f, S : Solves(f, S) /\ n \in S
    OBVIOUS
  <2>2. Inside(n) \subseteq S /\ f[n] = Spelt(f, n) /\ n \in Node
    BY <2>1 DEF Solves
  <2>3. \A m \in S : m \in Known /\ val[m] = f[m]
    BY <1>1, <2>1
  <2> HIDE DEF Known, val
  <2>4. \A m \in Inside(n) : val[m] = f[m]
    BY <2>2, <2>3
  <2>5. Spelt(val, n) = Spelt(f, n)
    BY <2>2, <2>4, SpeltAgree
  <2> QED
    BY <2>1, <2>2, <2>3, <2>5
<1>3. Known \subseteq Node /\ DOMAIN val = Node
  OBVIOUS
<1>4. ASSUME NEW n \in Node \ Known, Inside(n) \subseteq Known PROVE FALSE
  <2> DEFINE h == [m \in Known \cup {n} |-> IF m = n THEN Spelt(val, n) ELSE val[m]]
  <2>1. \A m \in Known : h[m] = val[m]
    OBVIOUS
  <2>2. h[n] = Spelt(val, n)
    OBVIOUS
  <2> HIDE DEF h, Known, val
  <2>3. \A m \in Known \cup {n} : Inside(m) \subseteq Known /\ m \in Node
    BY <1>2, <1>3, <1>4
  <2>4. ASSUME NEW m \in Known \cup {n} PROVE h[m] = Spelt(h, m)
    <3>1. Spelt(h, m) = Spelt(val, m)
      BY <2>1, <2>3, SpeltAgree
    <3> QED
      BY <1>2, <2>1, <2>2, <3>1
  <2>5. Solves(h, Known \cup {n})
    BY <2>3, <2>4 DEF Solves
  <2> QED
    BY <1>1, <1>4, <2>5
<1> HIDE DEF Known, val
<1>5. Known = Node
  <2> SUFFICES ASSUME Node \ Known # {} PROVE FALSE
    BY <1>3
  <2>1. PICK n \in Node \ Known : Inside(n) \cap (Node \ Known) = {}
    BY NodeAssumption
  <2>2. Inside(n) \subseteq Known
    BY <2>1, InsideIs
  <2> QED
    BY <1>4, <2>1, <2>2
<1>6. val = [n \in Node |-> Spelt(val, n)]
  <2>1. \A n \in Node : val[n] = Spelt(val, n)
    BY <1>2, <1>5
  <2>2. val = [n \in Node |-> val[n]]
    BY DEF val
  <2> QED
    BY <2>1, <2>2
<1> QED
  BY <1>6

LEMMA DocTextIs ==
  ASSUME NEW n \in Node
  PROVE  /\ Tree[n].type = "Constant" => DocText[n] = Literal[Tree[n].value]
         /\ Tree[n].type = "Number" => DocText[n] = Printed(Tree[n].digits)
         /\ Tree[n].type = "String" => DocText[n] = StringText(Tree[n])
         /\ Tree[n].type = "Array" =>
              DocText[n] = <<LBracket>> \o Joined(ElementTexts(DocText, n)) \o <<RBracket>>
         /\ Tree[n].type = "Object" =>
              DocText[n] = <<LBrace>> \o Joined(MemberTexts(DocText, n)) \o <<RBrace>>
<1> DEFINE Is(f) == f = [m \in Node |-> TextOf(Tree[m], f)]
<1>1. DocText = CHOOSE f : Is(f)
  BY DEF DocText
<1>2. \A f : Is(f) <=> f = [m \in Node |-> Spelt(f, m)]
  BY DEF TextOf, Spelt, ElementTexts, MemberTexts, MemberText
<1> HIDE DEF Is
<1>4. DocText = [m \in Node |-> Spelt(DocText, m)]
  <2>1. \E f : Is(f)
    BY <1>2, DocTextExists
  <2>2. Is(DocText)
    BY <1>1, <2>1
  <2> QED
    BY <1>2, <2>2
<1>3. DocText[n] = Spelt(DocText, n)
  BY <1>4
<1> QED
  BY <1>3 DEF Spelt

LEMMA PrintedType ==
  ASSUME NEW d \in Seq(Octet) \ {<< >>}
  PROVE  Printed(d) \in Seq(Octet)
<1>1. SubSeq(d, 1, Len(d) - 1) \in Seq(Octet)
  BY AsAppend
<1>2. <<0>> \in Seq(Octet)
  BY DEF Octet
<1> QED
  BY <1>1, <1>2, ConcatProperties DEF Printed

LEMMA ElementTextsType ==
  ASSUME NEW n \in Node, Tree[n].type = "Array", NEW f, \A m \in Inside(n) : f[m] \in Text
  PROVE  /\ ElementTexts(f, n) \in Seq(Text)
         /\ Len(ElementTexts(f, n)) = Len(Tree[n].elements)
         /\ \A i \in 1 .. Len(Tree[n].elements) : ElementTexts(f, n)[i] = f[Tree[n].elements[i]]
         /\ <<LBracket>> \o Joined(ElementTexts(f, n)) \o <<RBracket>> \in Text
<1> DEFINE e == Tree[n].elements
           k == Len(e)
           x == ElementTexts(f, n)
<1>1. e \in Seq(Node) /\ \A i \in DOMAIN e : e[i] \in Inside(n)
  BY InsideIs
<1>2. k \in Nat /\ DOMAIN e = 1 .. k
  BY <1>1, LenProperties
<1>3. x = [i \in 1 .. k |-> x[i]] /\ \A i \in 1 .. k : x[i] = f[e[i]] /\ x[i] \in Text
  BY <1>1, <1>2 DEF ElementTexts
<1> HIDE DEF e, k, x
<1>4. x \in Seq(Text) /\ Len(x) = k
  BY <1>2, <1>3, ListOf
<1>5. Joined(x) \in Text /\ <<LBracket>> \in Text /\ <<RBracket>> \in Text
  BY <1>4, JoinedIs DEF LBracket, RBracket, Text
<1>6. <<LBracket>> \o Joined(x) \o <<RBracket>> \in Text
  BY <1>5, Concat
<1> QED
  BY <1>3, <1>4, <1>6 DEF e, k, x

LEMMA MemberTextsType ==
  ASSUME NEW n \in Node, Tree[n].type = "Object", NEW f, \A m \in Inside(n) : f[m] \in Text
  PROVE  /\ MemberTexts(f, n) \in Seq(Text)
         /\ Len(MemberTexts(f, n)) = Len(Tree[n].members)
         /\ \A i \in 1 .. Len(Tree[n].members) :
              MemberTexts(f, n)[i] = MemberText(f, Tree[n].members[i])
         /\ <<LBrace>> \o Joined(MemberTexts(f, n)) \o <<RBrace>> \in Text
<1> DEFINE e == Tree[n].members
           k == Len(e)
           x == MemberTexts(f, n)
<1>1. /\ e \in Seq([key : StringValue, value : Node])
      /\ \A i \in DOMAIN e : e[i].value \in Inside(n) /\ e[i].key \in StringValue
  BY InsideIs
<1>2. k \in Nat /\ DOMAIN e = 1 .. k
  BY <1>1, LenProperties
<1>3. \A i \in 1 .. k : MemberText(f, e[i]) \in Text
  <2>1. <<Colon>> \in Text
    BY DEF Colon, Text
  <2>2. \A i \in 1 .. k : StringText(e[i].key) \in Text /\ f[e[i].value] \in Text
    BY <1>1, <1>2, StringTextType
  <2> HIDE DEF e, k
  <2> QED
    BY <2>1, <2>2, Concat DEF MemberText
<1>4. x = [i \in 1 .. k |-> x[i]] /\ \A i \in 1 .. k : x[i] = MemberText(f, e[i]) /\ x[i] \in Text
  BY <1>2, <1>3 DEF MemberTexts
<1> HIDE DEF e, k, x
<1>5. x \in Seq(Text) /\ Len(x) = k
  BY <1>2, <1>4, ListOf
<1>6. Joined(x) \in Text /\ <<LBrace>> \in Text /\ <<RBrace>> \in Text
  BY <1>5, JoinedIs DEF LBrace, RBrace, Text
<1>7. <<LBrace>> \o Joined(x) \o <<RBrace>> \in Text
  BY <1>6, Concat
<1> QED
  BY <1>4, <1>5, <1>7 DEF e, k, x

LEMMA DocTextType == \A n \in Node : DocText[n] \in Text
<1> DEFINE T == {n \in Node : DocText[n] \notin Text}
<1> SUFFICES ASSUME T # {} PROVE FALSE
  OBVIOUS
<1>1. PICK n \in T : Inside(n) \cap T = {}
  BY NodeAssumption
<1>2. n \in Node /\ DocText[n] \notin Text /\ \A m \in Inside(n) : DocText[m] \in Text
  BY <1>1, InsideIs
<1> HIDE DEF T
<1>3. CASE Tree[n].type = "Constant"
  <2>1. Tree[n].value \in DOMAIN Literal
    BY <1>2, <1>3, TreeAssumption
  <2>2. \A v \in DOMAIN Literal : Literal[v] \in Text
    <3>1. /\ DOMAIN Literal = {"True", "False", "Null"}
          /\ Literal["True"] = <<116, 114, 117, 101>>
          /\ Literal["False"] = <<102, 97, 108, 115, 101>>
          /\ Literal["Null"] = <<110, 117, 108, 108>>
      BY DEF Literal
    <3>2. /\ <<116, 114, 117, 101>> \in Text
          /\ <<102, 97, 108, 115, 101>> \in Text
          /\ <<110, 117, 108, 108>> \in Text
      BY DEF Text
    <3>3. Literal["True"] \in Text /\ Literal["False"] \in Text /\ Literal["Null"] \in Text
      BY ONLY <3>1, <3>2
    <3> QED
      BY <3>1, <3>3, Zenon
  <2> QED
    BY <1>2, <1>3, <2>1, <2>2, DocTextIs
<1>4. CASE Tree[n].type = "Number"
  <2>1. Tree[n].digits \in Seq(Octet) \ {<< >>}
    BY <1>2, <1>4, TreeAssumption
  <2>2. Printed(Tree[n].digits) \in Seq(Octet)
    BY <2>1, PrintedType
  <2> QED
    BY <1>2, <1>4, <2>2, OctetText, DocTextIs
<1>5. CASE Tree[n].type = "String"
  <2>1. Tree[n] \in StringValue
    BY <1>2, <1>5, TreeAssumption
  <2> QED
    BY <1>2, <1>5, <2>1, StringTextType, DocTextIs
<1>6. CASE Tree[n].type = "Array"
  BY <1>2, <1>6, ElementTextsType, DocTextIs, Zenon
<1>7. CASE Tree[n].type = "Object"
  BY <1>2, <1>7, MemberTextsType, DocTextIs, Zenon
<1> QED
  BY <1>2, <1>3, <1>4, <1>5, <1>6, <1>7, TreeAssumption

-----------------------------------------------------------------------------
(* What is left of a sequence after its first k elements. *)
Beyond(w, k) == SubSeq(w, k + 1, Len(w))

LEMMA BeyondIs ==
  ASSUME NEW S, NEW w \in Seq(S), NEW k \in Nat
  PROVE  /\ Beyond(w, k) \in Seq(S)
         /\ Len(Beyond(w, k)) = IF k <= Len(w) THEN Len(w) - k ELSE 0
         /\ \A i \in 1 .. Len(Beyond(w, k)) : Beyond(w, k)[i] = w[i + k]
<1> DEFINE n == Len(w)
           m == k + 1
           b == SubSeq(w, m, n)
<1>1. n \in Nat /\ m \in Int /\ \A i \in m .. n : w[i] \in S
  BY LenProperties, ElementOfSeq
<1>2. /\ b \in Seq(S) /\ Len(b) = IF m <= n THEN n - m + 1 ELSE 0
      /\ \A i \in 1 .. n - m + 1 : b[i] = w[m + i - 1]
  <2> HIDE DEF m, n
  <2> QED
    BY <1>1, SubSeqProperties
<1>3. Len(b) = IF k <= n THEN n - k ELSE 0
  BY <1>1, <1>2
<1>4. \A i \in 1 .. Len(b) : i \in 1 .. n - m + 1 /\ m + i - 1 = i + k
  <2> HIDE DEF b
  <2> QED
    BY <1>1, <1>3
<1>5. \A i \in 1 .. Len(b) : b[i] = w[i + k]
  <2> HIDE DEF b, m, n
  <2> QED
    BY <1>2, <1>4
<1> QED
  BY <1>2, <1>3, <1>5 DEF Beyond

LEMMA BeyondBeyond ==
  ASSUME NEW S, NEW w \in Seq(S), NEW k \in Nat, NEW m \in Nat
  PROVE  Beyond(Beyond(w, k), m) = Beyond(w, k + m)
<1> DEFINE a == Beyond(w, k)
           b == Beyond(a, m)
           c == Beyond(w, k + m)
<1>1. Len(w) \in Nat /\ k + m \in Nat
  BY LenProperties
<1>2. /\ a \in Seq(S) /\ Len(a) = IF k <= Len(w) THEN Len(w) - k ELSE 0
      /\ \A i \in 1 .. Len(a) : a[i] = w[i + k]
  BY BeyondIs
<1>3. /\ c \in Seq(S) /\ Len(c) = IF k + m <= Len(w) THEN Len(w) - (k + m) ELSE 0
      /\ \A i \in 1 .. Len(c) : c[i] = w[i + (k + m)]
  BY <1>1, BeyondIs
<1> HIDE DEF a, c
<1>4. /\ b \in Seq(S) /\ Len(b) = IF m <= Len(a) THEN Len(a) - m ELSE 0
      /\ \A i \in 1 .. Len(b) : b[i] = a[i + m]
  BY <1>2, BeyondIs
<1> HIDE DEF b
<1>5. Len(b) = Len(c)
  BY <1>1, <1>2, <1>3, <1>4
<1>6. ASSUME NEW i \in 1 .. Len(b) PROVE b[i] = c[i]
  <2>1. i + m \in 1 .. Len(a) /\ (i + m) + k = i + (k + m)
    BY <1>1, <1>2, <1>4
  <2>2. a[i + m] = w[(i + m) + k]
    BY <1>2, <2>1
  <2> QED
    BY <1>3, <1>4, <1>5, <2>1, <2>2
<1>7. b = c
  BY <1>3, <1>4, <1>5, <1>6, SeqEqual
<1> QED
  BY <1>7 DEF a, b, c

LEMMA BeyondNone ==
  ASSUME NEW S, NEW w \in Seq(S)
  PROVE  Beyond(w, 0) = w /\ Beyond(w, Len(w)) = << >>
<1> DEFINE a == Beyond(w, 0)
           b == Beyond(w, Len(w))
<1>1. Len(w) \in Nat
  BY LenProperties
<1>2. a \in Seq(S) /\ Len(a) = Len(w) /\ \A i \in 1 .. Len(a) : a[i] = w[i + 0]
  BY <1>1, BeyondIs
<1>3. b \in Seq(S) /\ Len(b) = 0
  BY <1>1, BeyondIs
<1> HIDE DEF a, b
<1>4. b = << >>
  BY <1>3, EmptySeq
<1>5. \A i \in 1 .. Len(a) : a[i] = w[i]
  BY <1>1, <1>2
<1>6. a = w
  BY <1>2, <1>5, SeqEqual
<1> QED
  BY <1>4, <1>6 DEF a, b

(* A sequence is its first k elements and the others. *)
LEMMA BeyondSplit ==
  ASSUME NEW S, NEW w \in Seq(S), NEW k \in Nat, k <= Len(w)
  PROVE  /\ SubSeq(w, 1, k) \in Seq(S) /\ Len(SubSeq(w, 1, k)) = k
         /\ w = SubSeq(w, 1, k) \o Beyond(w, k)
<1> DEFINE a == SubSeq(w, 1, k)
           b == Beyond(w, k)
           c == a \o b
<1>1. Len(w) \in Nat
  BY LenProperties
<1>2. a \in Seq(S) /\ Len(a) = k /\ \A i \in 1 .. k : a[i] = w[i]
  BY Prefix
<1>3. b \in Seq(S) /\ Len(b) = Len(w) - k /\ \A i \in 1 .. Len(b) : b[i] = w[i + k]
  BY <1>1, BeyondIs
<1> HIDE DEF a, b
<1>4. /\ c \in Seq(S) /\ Len(c) = Len(a) + Len(b)
      /\ \A i \in 1 .. Len(a) + Len(b) : c[i] = IF i <= Len(a) THEN a[i] ELSE b[i - Len(a)]
  BY <1>2, <1>3, ConcatProperties
<1> HIDE DEF c
<1>5. ASSUME NEW i \in 1 .. Len(w) PROVE c[i] = w[i]
  <2>1. CASE i <= k
    BY <1>1, <1>2, <1>3, <1>4, <2>1
  <2>2. CASE i > k
    <3>1. i - k \in 1 .. Len(b) /\ (i - k) + k = i /\ ~(i <= Len(a)) /\ i \in 1 .. Len(a) + Len(b)
      BY <1>1, <1>2, <1>3, <2>2
    <3>2. b[i - k] = w[(i - k) + k]
      BY <1>3, <3>1
    <3> QED
      BY <1>2, <1>4, <3>1, <3>2
  <2> QED
    BY <1>1, <2>1, <2>2
<1>6. Len(c) = Len(w)
  BY <1>1, <1>2, <1>3, <1>4
<1>7. c = w
  BY <1>4, <1>5, <1>6, SeqEqual
<1> QED
  BY <1>2, <1>7 DEF a, b, c

(* What follows the first of two sequences is the second. *)
LEMMA BeyondConcat ==
  ASSUME NEW S, NEW a \in Seq(S), NEW b \in Seq(S)
  PROVE  /\ Beyond(a \o b, Len(a)) = b /\ SubSeq(a \o b, 1, Len(a)) = a
         /\ a \o b \in Seq(S) /\ Len(a \o b) = Len(a) + Len(b)
<1> DEFINE w == a \o b
           c == Beyond(w, Len(a))
           d == SubSeq(w, 1, Len(a))
<1>1. Len(a) \in Nat /\ Len(b) \in Nat
  BY LenProperties
<1>2. /\ w \in Seq(S) /\ Len(w) = Len(a) + Len(b)
      /\ \A i \in 1 .. Len(a) + Len(b) : w[i] = IF i <= Len(a) THEN a[i] ELSE b[i - Len(a)]
  BY ConcatProperties
<1> HIDE DEF w
<1>3. Len(a) <= Len(w)
  BY <1>1, <1>2
<1>4. /\ c \in Seq(S) /\ Len(c) = Len(w) - Len(a)
      /\ \A i \in 1 .. Len(c) : c[i] = w[i + Len(a)]
  BY <1>1, <1>2, <1>3, BeyondIs
<1>5. d \in Seq(S) /\ Len(d) = Len(a) /\ \A i \in 1 .. Len(a) : d[i] = w[i]
  BY <1>1, <1>2, <1>3, Prefix
<1> HIDE DEF c, d
<1>6. \A i \in 1 .. Len(a) : d[i] = a[i]
  BY <1>1, <1>2, <1>5
<1>7. ASSUME NEW i \in 1 .. Len(c) PROVE c[i] = b[i]
  <2>1. /\ i + Len(a) \in 1 .. Len(a) + Len(b) /\ ~(i + Len(a) <= Len(a))
        /\ (i + Len(a)) - Len(a) = i
    BY <1>1, <1>2, <1>4
  <2> QED
    BY <1>2, <1>4, <2>1
<1>8. d = a
  BY <1>5, <1>6, SeqEqual
<1>9. Len(c) = Len(b)
  BY <1>1, <1>2, <1>4
<1>10. c = b
  BY <1>4, <1>7, <1>9, SeqEqual
<1> QED
  BY <1>2, <1>8, <1>10 DEF c, d, w

LEMMA TailIs ==
  ASSUME NEW S, NEW w \in Seq(S), w # << >>
  PROVE  Tail(w) = Beyond(w, 1) /\ Head(w) = w[1] /\ Head(w) \in S
<1> DEFINE t == Tail(w)
           b == Beyond(w, 1)
<1>1. Len(w) \in Nat /\ Len(w) # 0
  BY LenProperties, EmptySeq
<1>2. /\ t \in Seq(S) /\ Len(t) = Len(w) - 1 /\ Head(w) \in S
      /\ \A i \in 1 .. Len(t) : t[i] = w[i + 1]
  BY HeadTailProperties
<1>3. b \in Seq(S) /\ Len(b) = Len(w) - 1 /\ \A i \in 1 .. Len(b) : b[i] = w[i + 1]
  BY <1>1, BeyondIs
<1> HIDE DEF t, b
<1>4. t = b
  BY <1>2, <1>3, SeqEqual
<1> QED
  BY <1>2, <1>4 DEF t, b

-----------------------------------------------------------------------------
(* The text t is what is still to be written for the bytes w of a string: w   *)
(* begins with a unit, and t with its text, until there is only the tail.     *)
Encoded(us) == FlattenSeq([i \in DOMAIN us |-> Utf8(us[i])])
NoCharacter(tl) == tl # << >> => Head(tl) >= 128 /\ Decode(tl).e # "Ok"
Spells(w, t) ==
  \E us \in Seq(CodeUnit), tl \in Seq(Octet) :
    NoCharacter(tl) /\ w = Encoded(us) \o tl /\ t = Spelling(us) \o Closing(tl)

LEMMA UnitsStep ==
  ASSUME NEW us \in Seq(CodeUnit)
  PROVE  /\ us = << >> => Encoded(us) = << >> /\ Spelling(us) = << >>
         /\ us # << >> =>
              /\ us[1] \in CodeUnit /\ Tail(us) \in Seq(CodeUnit)
              /\ Encoded(us) = Utf8(us[1]) \o Encoded(Tail(us))
              /\ Spelling(us) = UnitText(us[1]) \o Spelling(Tail(us))
<1> DEFINE e(v) == [i \in DOMAIN v |-> Utf8(v[i])]
           s(v) == [i \in DOMAIN v |-> UnitText(v[i])]
<1>1. ASSUME NEW v \in Seq(CodeUnit)
      PROVE  /\ Len(v) \in Nat /\ e(v) \in Seq(Text) /\ s(v) \in Seq(Text)
             /\ Len(e(v)) = Len(v) /\ Len(s(v)) = Len(v)
             /\ \A i \in 1 .. Len(v) : e(v)[i] = Utf8(v[i]) /\ s(v)[i] = UnitText(v[i])
  <2>1. /\ Len(v) \in Nat /\ DOMAIN v = 1 .. Len(v)
        /\ \A i \in 1 .. Len(v) : v[i] \in CodeUnit
    BY LenProperties, ElementOfSeq
  <2>2. \A i \in 1 .. Len(v) : Utf8(v[i]) \in Text /\ UnitText(v[i]) \in Text
    BY <2>1, Utf8Bytes, OctetText, UnitTextType
  <2> DEFINE f == e(v)
             g == s(v)
  <2>3. /\ f = [i \in 1 .. Len(v) |-> f[i]] /\ \A i \in 1 .. Len(v) : f[i] = Utf8(v[i])
        /\ g = [i \in 1 .. Len(v) |-> g[i]] /\ \A i \in 1 .. Len(v) : g[i] = UnitText(v[i])
    BY <2>1
  <2> HIDE DEF f, g
  <2>4. f \in Seq(Text) /\ Len(f) = Len(v) /\ g \in Seq(Text) /\ Len(g) = Len(v)
    BY <2>1, <2>2, <2>3, ListOf
  <2> QED
    BY <2>1, <2>3, <2>4 DEF f, g
<1>2. \A v : Encoded(v) = FlattenSeq(e(v)) /\ Spelling(v) = FlattenSeq(s(v))
  BY DEF Encoded, Spelling
<1> HIDE DEF e, s
<1>3. CASE us = << >>
  <2>1. Len(e(us)) = 0 /\ Len(s(us)) = 0 /\ e(us) \in Seq(Text) /\ s(us) \in Seq(Text)
    BY <1>1, <1>3, EmptySeq
  <2>2. e(us) = << >> /\ s(us) = << >>
    BY <2>1, EmptySeq
  <2> QED
    BY <1>2, <1>3, <2>2, FlattenNone
<1>4. CASE us # << >>
  <2> DEFINE r == Tail(us)
  <2>1. /\ r \in Seq(CodeUnit) /\ Len(us) = Len(r) + 1 /\ Len(r) \in Nat
        /\ \A i \in 1 .. Len(r) : r[i] = us[i + 1]
    <3>1. Len(us) \in Nat /\ Len(us) # 0
      BY <1>4, LenProperties, EmptySeq
    <3>2. /\ r \in Seq(CodeUnit) /\ Len(r) = Len(us) - 1
          /\ \A i \in 1 .. Len(r) : r[i] = us[i + 1]
      BY <1>4, HeadTailProperties
    <3> HIDE DEF r
    <3> QED
      BY <3>1, <3>2
  <2> HIDE DEF r
  <2>2. \A i \in 1 .. Len(r) : i \in 1 .. Len(r) /\ i + 1 \in 1 .. Len(us) /\ 1 \in 1 .. Len(us)
    BY <2>1
  <2>3. 1 \in 1 .. Len(us)
    BY <2>1
  <2>4. \A i \in 1 .. Len(r) : e(r)[i] = e(us)[i + 1] /\ s(r)[i] = s(us)[i + 1]
    BY <1>1, <2>1, <2>2
  <2>5. /\ e(us) \in Seq(Text) /\ e(r) \in Seq(Text) /\ Len(e(us)) = Len(e(r)) + 1
        /\ s(us) \in Seq(Text) /\ s(r) \in Seq(Text) /\ Len(s(us)) = Len(s(r)) + 1
        /\ Len(e(r)) = Len(r) /\ Len(s(r)) = Len(r)
    BY <1>1, <2>1
  <2>6. FlattenSeq(e(us)) = e(us)[1] \o FlattenSeq(e(r))
    BY <2>4, <2>5, FlattenFirst
  <2>7. FlattenSeq(s(us)) = s(us)[1] \o FlattenSeq(s(r))
    BY <2>4, <2>5, FlattenFirst
  <2>8. e(us)[1] = Utf8(us[1]) /\ s(us)[1] = UnitText(us[1]) /\ us[1] \in CodeUnit
    BY <1>1, <2>3, ElementOfSeq
  <2> QED
    BY <1>2, <1>4, <2>1, <2>6, <2>7, <2>8 DEF r
<1> QED
  BY <1>3, <1>4

LEMMA EncodedType == \A us \in Seq(CodeUnit) : Encoded(us) \in Seq(Octet)
<1> SUFFICES ASSUME NEW us \in Seq(CodeUnit) PROVE Encoded(us) \in Seq(Octet)
  OBVIOUS
<1> DEFINE v == [type |-> "String", units |-> us, tail |-> << >>]
<1>1. v \in StringValue /\ v.units = us /\ v.tail = << >>
  BY DEF StringValue
<1>2. Bytes(v) = Encoded(us) \o << >>
  BY <1>1 DEF Bytes, Encoded
<1> DEFINE s == [i \in DOMAIN us |-> Utf8(us[i])]
           n == Len(us)
<1>3. n \in Nat /\ DOMAIN us = 1 .. n /\ \A i \in 1 .. n : us[i] \in CodeUnit
  BY LenProperties, ElementOfSeq
<1>4. s = [i \in 1 .. n |-> s[i]] /\ \A i \in 1 .. n : s[i] \in Seq(Octet)
  BY <1>3, Utf8Bytes
<1> HIDE DEF s, n
<1>5. s \in Seq(Seq(Octet))
  BY <1>3, <1>4, ListOf
<1> QED
  BY <1>5, FlattenType DEF Encoded, s

(* A string has the text of its units in front of its closing quote. *)
LEMMA SpellsString ==
  ASSUME NEW v \in StringValue, EndsInNoCharacter(v)
  PROVE  \E t \in Text : Spells(Bytes(v), t) /\ StringText(v) = <<Quote>> \o t
<1> DEFINE t == Spelling(v.units) \o Closing(v.tail)
<1>1. v.units \in Seq(CodeUnit) /\ v.tail \in Seq(Octet)
  BY DEF StringValue
<1>2. t \in Text
  BY <1>1, SpellingType, ClosingType, Concat
<1>3. Bytes(v) = Encoded(v.units) \o v.tail
  BY DEF Bytes, Encoded
<1>4. NoCharacter(v.tail)
  BY DEF NoCharacter, EndsInNoCharacter
<1>5. Spells(Bytes(v), t)
  BY <1>1, <1>3, <1>4 DEF Spells
<1> QED
  BY <1>2, <1>5, StringTextType

(* The first unit. *)
(* Bytes that begin with a unit, and a text that begins with what is written  *)
(* for it.                                                                    *)
BeginsWithUnit(w, t) ==
  \E u \in CodeUnit, w1 \in Seq(Octet), s \in Text :
    w = Utf8(u) \o w1 /\ t = UnitText(u) \o s /\ Spells(w1, s)

LEMMA SpellsFirst ==
  ASSUME NEW w \in Seq(Octet), NEW t, Spells(w, t)
  PROVE  /\ t \in Text
         /\ (t = Closing(w) /\ NoCharacter(w)) \/ BeginsWithUnit(w, t)
<1>1. PICK us \in Seq(CodeUnit), tl \in Seq(Octet) :
        NoCharacter(tl) /\ w = Encoded(us) \o tl /\ t = Spelling(us) \o Closing(tl)
  BY DEF Spells
<1>2. Spelling(us) \in Text /\ Closing(tl) \in Text
  BY SpellingType, ClosingType
<1>3. CASE us = << >>
  <2>1. Encoded(us) = << >> /\ Spelling(us) = << >>
    BY <1>3, UnitsStep
  <2>2. w = tl /\ t = Closing(tl)
    BY <1>1, <1>2, <2>1, ConcatEmptySeq, Concat
  <2> QED
    BY <1>1, <1>2, <2>2
<1>4. CASE us # << >>
  <2> DEFINE r == Tail(us)
             u == us[1]
             w1 == Encoded(r) \o tl
             s == Spelling(r) \o Closing(tl)
  <2>1. /\ u \in CodeUnit /\ r \in Seq(CodeUnit)
        /\ Encoded(us) = Utf8(u) \o Encoded(r) /\ Spelling(us) = UnitText(u) \o Spelling(r)
    BY <1>4, UnitsStep
  <2> HIDE DEF r, u
  <2>2. /\ Utf8(u) \in Seq(Octet) /\ Encoded(r) \in Seq(Octet)
        /\ UnitText(u) \in Text /\ Spelling(r) \in Text
    BY <2>1, Utf8Bytes, EncodedType, UnitTextType, SpellingType
  <2>3. w1 \in Seq(Octet) /\ s \in Text
    BY <1>2, <2>2, ConcatProperties, Concat
  <2>4. Spells(w1, s)
    BY <1>1, <2>1 DEF Spells
  <2>5. w = Utf8(u) \o w1
    <3>1. Utf8(u) \in Text /\ Encoded(r) \in Text /\ tl \in Text
      BY <2>2, OctetText
    <3>2. (Utf8(u) \o Encoded(r)) \o tl = Utf8(u) \o (Encoded(r) \o tl)
      BY <3>1, Assoc
    <3> QED
      BY <1>1, <2>1, <3>2
  <2>6. t = UnitText(u) \o s
    <3>1. (UnitText(u) \o Spelling(r)) \o Closing(tl) = UnitText(u) \o (Spelling(r) \o Closing(tl))
      BY <1>2, <2>2, Assoc, Zenon
    <3> QED
      BY <1>1, <2>1, <3>1
  <2> HIDE DEF w1, s
  <2>7. BeginsWithUnit(w, t)
    BY <2>1, <2>3, <2>4, <2>5, <2>6, Zenon DEF BeginsWithUnit
  <2>8. t \in Text
    BY <2>2, <2>3, <2>6, Concat
  <2> QED
    BY <2>7, <2>8
<1> QED
  BY <1>3, <1>4

LEMMA SpellsNothing ==
  ASSUME NEW t, Spells(<< >>, t)
  PROVE  t = <<Quote>>
<1>1. << >> \in Seq(Octet) /\ Len(<< >>) = 0
  BY EmptySeq
<1>2. ASSUME NEW u \in CodeUnit, NEW w1 \in Seq(Octet), << >> = Utf8(u) \o w1 PROVE FALSE
  <2>1. Utf8(u) \in Seq(Octet) /\ Len(Utf8(u)) # 0 /\ Len(Utf8(u)) \in Nat /\ Len(w1) \in Nat
    <3>1. Utf8(u) \in Seq(Octet)
      BY Utf8Bytes
    <3>2. Len(Utf8(u)) # 0
      BY DEF Utf8
    <3> QED
      BY <3>1, <3>2, LenProperties
  <2>2. Len(Utf8(u) \o w1) = Len(Utf8(u)) + Len(w1)
    BY <2>1, ConcatProperties
  <2> QED
    BY <1>1, <1>2, <2>1, <2>2
<1>3. t = Closing(<< >>)
  <2> DEFINE w == << >>
  <2>1. w \in Seq(Octet) /\ Spells(w, t)
    BY <1>1
  <2>2. \A u \in CodeUnit, w1 \in Seq(Octet) : w # Utf8(u) \o w1
    BY <1>2
  <2> HIDE DEF w
  <2>3. ~BeginsWithUnit(w, t)
    BY <2>2, Zenon DEF BeginsWithUnit
  <2>4. t = Closing(w)
    BY <2>1, <2>3, SpellsFirst, Zenon
  <2> QED
    BY <2>4 DEF w
<1> QED
  BY <1>3 DEF Closing

(* A byte below 128 is a unit of its own. *)
LEMMA SpellsPlain ==
  ASSUME NEW w \in Seq(Octet), NEW t, Spells(w, t), w # << >>, Head(w) < 128
  PROVE  /\ Head(w) \in 0 .. 127
         /\ \E s \in Text : t = UnitText(Head(w)) \o s /\ Spells(Beyond(w, 1), s)
<1>1. Head(w) \in Octet /\ ~NoCharacter(w)
  BY TailIs DEF NoCharacter, Octet
<1>2. PICK u \in CodeUnit, w1 \in Seq(Octet), s \in Text :
        w = Utf8(u) \o w1 /\ t = UnitText(u) \o s /\ Spells(w1, s)
  <2>1. BeginsWithUnit(w, t)
    BY <1>1, SpellsFirst, Zenon
  <2> QED
    BY <2>1, Zenon DEF BeginsWithUnit
<1>3. u \in Nat /\ u < 65536 /\ Utf8(u) \in Seq(Octet) /\ Utf8(u) \in Seq(Int)
  BY Utf8Bytes, OctetText DEF CodeUnit, Text
<1>4. Utf8(u)[1] = Head(w)
  <2>1. Len(Utf8(u)) # 0 /\ Len(Utf8(u)) \in Nat /\ Len(w1) \in Nat
    <3>1. Len(Utf8(u)) # 0
      BY DEF Utf8
    <3> QED
      BY <1>3, <3>1, LenProperties
  <2>2. (Utf8(u) \o w1)[1] = Utf8(u)[1]
    <3>1. 1 \in 1 .. Len(Utf8(u)) + Len(w1) /\ 1 <= Len(Utf8(u))
      BY <2>1
    <3> QED
      BY <1>3, <3>1, ConcatProperties
  <2>3. Head(w) = w[1]
    BY TailIs
  <2> QED
    BY <1>2, <2>2, <2>3
<1>5. u <= 127
  <2> SUFFICES ASSUME u > 127 PROVE FALSE
    BY <1>3
  <2>1. CASE u <= 2047
    <3>1. Utf8(u)[1] = 192 + (u \div 64)
      BY <1>3, <2>1 DEF Utf8
    <3> QED
      BY <1>3, <1>4, <3>1
  <2>2. CASE u > 2047
    <3>1. Utf8(u)[1] = 224 + (u \div 4096)
      BY <1>3, <2>2 DEF Utf8
    <3> QED
      BY <1>3, <1>4, <3>1
  <2> QED
    BY <1>3, <2>1, <2>2
<1>6. Utf8(u) = <<u>> /\ Len(<<u>>) = 1 /\ u = Head(w)
  BY <1>4, <1>5 DEF Utf8
<1>7. Beyond(w, 1) = w1
  <2>1. Beyond(Utf8(u) \o w1, Len(Utf8(u))) = w1
    BY <1>3, BeyondConcat
  <2>2. Len(Utf8(u)) = 1
    BY <1>6
  <2> QED
    BY <1>2, <2>1, <2>2
<1>8. u \in 0 .. 127
  BY <1>3, <1>5
<1> QED
  BY <1>2, <1>6, <1>7, <1>8

(* The decoder, apart from the arithmetic: two and three are the units of a   *)
(* character of so many bytes.                                                *)
Decoded(w, two, three) ==
  LET Bad(e) == [e |-> e, n |-> 0, unit |-> 0]
      Good(n, u) == [e |-> "Ok", n |-> n, unit |-> u]
  IN IF w[1] \in 224 .. 239
       THEN IF Len(w) < 3 \/ \E i \in 2 .. 3 : ~Continuation(w[i])
              THEN Bad("InvalidParam") ELSE Good(3, three)
     ELSE IF w[1] \in 192 .. 223
       THEN IF Len(w) < 2 \/ ~Continuation(w[2])
              THEN Bad("InvalidParam") ELSE Good(2, two)
     ELSE Bad("EncodingError")

LEMMA DecodeIs ==
  ASSUME NEW w
  PROVE  Decode(w) = Decoded(w, (w[1] % 32) * 64 + (w[2] % 64),
                             (w[1] % 16) * 4096 + (w[2] % 64) * 64 + (w[3] % 64))
BY DEF Decode, Decoded

(* The decoder finds the unit a character of several bytes stands for. *)
LEMMA DecodesUnit ==
  ASSUME NEW u \in CodeUnit, u > 127, NEW w1 \in Seq(Octet), NEW w, w = Utf8(u) \o w1
  PROVE  /\ Decode(w) = [e |-> "Ok", n |-> Len(Utf8(u)), unit |-> u]
         /\ w[1] >= 128 /\ Beyond(w, Len(Utf8(u))) = w1
         /\ Len(Utf8(u)) \in Nat /\ Len(Utf8(u)) <= Len(w)
<1> DEFINE Found == /\ Decode(w) = [e |-> "Ok", n |-> Len(Utf8(u)), unit |-> u]
                    /\ w[1] >= 128 /\ Len(Utf8(u)) \in Nat /\ Len(Utf8(u)) <= Len(w)
<1> HIDE DEF Found
<1>1. u \in Nat /\ u < 65536 /\ Utf8(u) \in Seq(Octet) /\ Len(w1) \in Nat
  BY Utf8Bytes, LenProperties DEF CodeUnit
<1>2. /\ Len(w) = Len(Utf8(u)) + Len(w1)
      /\ \A i \in 1 .. Len(Utf8(u)) + Len(w1) :
           i <= Len(Utf8(u)) => w[i] = Utf8(u)[i]
  BY <1>1, ConcatProperties
<1>3. Beyond(w, Len(Utf8(u))) = w1
  BY <1>1, BeyondConcat
<1>4. ASSUME u <= 2047
      PROVE  Found
  <2> DEFINE a == 192 + (u \div 64)
             b == 128 + (u % 64)
  <2>1. /\ a \in 192 .. 223 /\ a % 32 = u \div 64 /\ b % 64 = u % 64 /\ b \div 64 = 2
        /\ (a % 32) * 64 + (b % 64) = u
    <3>1. u \div 64 \in 0 .. 31 /\ u % 64 \in 0 .. 63 /\ (u \div 64) * 64 + (u % 64) = u
      BY <1>1, <1>4
    <3>2. \A x \in 0 .. 31 : (192 + x) % 32 = x /\ 192 + x \in 192 .. 223
      BY SMTT(30)
    <3>3. \A y \in 0 .. 63 : (128 + y) % 64 = y /\ (128 + y) \div 64 = 2
      OBVIOUS
    <3> DEFINE q == u \div 64
               r == u % 64
    <3>4. q \in 0 .. 31 /\ r \in 0 .. 63 /\ q * 64 + r = u /\ a = 192 + q /\ b = 128 + r
      BY <3>1
    <3> HIDE DEF q, r, a, b
    <3>5. /\ a \in 192 .. 223 /\ a % 32 = q /\ b \div 64 = 2 /\ b % 64 = r
          /\ r % 64 = r
      BY <3>2, <3>3, <3>4
    <3>6. (a % 32) * 64 + (b % 64) = u
      BY <3>4, <3>5
    <3> QED
      BY <3>5, <3>6 DEF q, r
  <2>2. Utf8(u) = <<a, b>>
    BY <1>1, <1>4 DEF Utf8
  <2> HIDE DEF a, b
  <2>3. Len(Utf8(u)) = 2 /\ Utf8(u)[1] = a /\ Utf8(u)[2] = b
    BY <2>2
  <2>4. w[1] = a /\ w[2] = b /\ Len(w) >= 2
    BY <1>1, <1>2, <2>3
  <2>5. w[1] \notin 224 .. 239 /\ w[1] \in 192 .. 223 /\ ~(Len(w) < 2) /\ Continuation(w[2])
    BY <1>1, <1>2, <2>1, <2>3, <2>4 DEF Continuation
  <2>6. (w[1] % 32) * 64 + (w[2] % 64) = u
    BY <2>1, <2>4
  <2>7. Decode(w) = [e |-> "Ok", n |-> 2, unit |-> (w[1] % 32) * 64 + (w[2] % 64)]
    <3> DEFINE two == (w[1] % 32) * 64 + (w[2] % 64)
               three == (w[1] % 16) * 4096 + (w[2] % 64) * 64 + (w[3] % 64)
    <3>1. Decode(w) = Decoded(w, two, three)
      BY DecodeIs, Zenon
    <3> HIDE DEF two, three
    <3>2. Decode(w) = [e |-> "Ok", n |-> 2, unit |-> two]
      BY <2>5, <3>1 DEF Decoded
    <3> QED
      BY <3>2 DEF two
  <2>8. w[1] >= 128 /\ 2 \in Nat /\ 2 <= Len(w)
    BY <2>1, <2>4
  <2> QED
    BY <2>3, <2>6, <2>7, <2>8 DEF Found
<1>5. ASSUME u > 2047
      PROVE  Found
  <2> DEFINE a == 224 + (u \div 4096)
             b == 128 + ((u \div 64) % 64)
             c == 128 + (u % 64)
  <2>1. /\ a \in 224 .. 239 /\ b \div 64 = 2 /\ c \div 64 = 2
        /\ (a % 16) * 4096 + (b % 64) * 64 + (c % 64) = u
    <3> DEFINE x == u \div 4096
               y == (u \div 64) % 64
               z == u % 64
    <3>1. x \in 0 .. 15 /\ y \in 0 .. 63 /\ z \in 0 .. 63
      BY <1>1
    <3>2. x * 4096 + y * 64 + z = u
      <4> DEFINE q == u \div 64
      <4>1. q \in Nat /\ q * 64 + z = u /\ q \div 64 = x
        BY <1>1
      <4>2. y = q % 64
        OBVIOUS
      <4> HIDE DEF q, x, y, z
      <4>3. (q \div 64) * 64 + (q % 64) = q
        BY <4>1
      <4>4. x * 64 + y = q
        BY <4>1, <4>2, <4>3
      <4> QED
        BY <3>1, <4>1, <4>4
    <3> HIDE DEF x, y, z
    <3>3. (224 + x) % 16 = x /\ 224 + x \in 224 .. 239
      <4>1. \A v \in 0 .. 15 : (224 + v) % 16 = v /\ 224 + v \in 224 .. 239
        OBVIOUS
      <4> QED
        BY <3>1, <4>1
    <3>4. \A v \in 0 .. 63 : (128 + v) % 64 = v /\ (128 + v) \div 64 = 2
      OBVIOUS
    <3>5. a = 224 + x /\ b = 128 + y /\ c = 128 + z
      BY DEF x, y, z
    <3> HIDE DEF a, b, c
    <3> QED
      BY <3>1, <3>2, <3>3, <3>4, <3>5
  <2>2. Utf8(u) = <<a, b, c>>
    BY <1>1, <1>5 DEF Utf8
  <2> HIDE DEF a, b, c
  <2>3. Len(Utf8(u)) = 3 /\ Utf8(u)[1] = a /\ Utf8(u)[2] = b /\ Utf8(u)[3] = c
    BY <2>2
  <2>4. w[1] = a /\ w[2] = b /\ w[3] = c /\ Len(w) >= 3
    BY <1>1, <1>2, <2>3
  <2>5. w[1] \in 224 .. 239 /\ ~(Len(w) < 3 \/ \E i \in 2 .. 3 : ~Continuation(w[i]))
    <3>1. Continuation(w[2]) /\ Continuation(w[3])
      BY <2>1, <2>4 DEF Continuation
    <3>2. \A i \in 2 .. 3 : i = 2 \/ i = 3
      OBVIOUS
    <3>3. ~(Len(w) < 3)
      BY <1>1, <1>2, <2>3
    <3> QED
      BY <2>1, <2>4, <3>1, <3>2, <3>3
  <2>6. (w[1] % 16) * 4096 + (w[2] % 64) * 64 + (w[3] % 64) = u
    BY <2>1, <2>4
  <2>7. Decode(w) = [e |-> "Ok", n |-> 3,
                     unit |-> (w[1] % 16) * 4096 + (w[2] % 64) * 64 + (w[3] % 64)]
    <3> DEFINE two == (w[1] % 32) * 64 + (w[2] % 64)
               three == (w[1] % 16) * 4096 + (w[2] % 64) * 64 + (w[3] % 64)
    <3>1. Decode(w) = Decoded(w, two, three)
      BY DecodeIs, Zenon
    <3> HIDE DEF two, three
    <3>2. Decode(w) = [e |-> "Ok", n |-> 3, unit |-> three]
      BY <2>5, <3>1 DEF Decoded
    <3> QED
      BY <3>2 DEF three
  <2>8. w[1] >= 128 /\ 3 \in Nat /\ 3 <= Len(w)
    BY <2>1, <2>4
  <2>9. Decode(w) = [e |-> "Ok", n |-> 3, unit |-> u]
    <3> DEFINE v == (w[1] % 16) * 4096 + (w[2] % 64) * 64 + (w[3] % 64)
    <3>1. Decode(w) = [e |-> "Ok", n |-> 3, unit |-> v] /\ v = u
      BY <2>6, <2>7, Zenon
    <3> HIDE DEF v
    <3> QED
      BY <3>1
  <2>10. Len(Utf8(u)) = 3
    BY <2>3
  <2> QED
    BY <2>8, <2>9, <2>10 DEF Found
<1>6. u <= 2047 \/ u > 2047
  BY <1>1
<1>7. Found
  BY <1>4, <1>5, <1>6
<1> QED
  BY <1>3, <1>7 DEF Found

LEMMA SpellsCharacter ==
  ASSUME NEW w \in Seq(Octet), NEW t, Spells(w, t), w # << >>, Head(w) >= 128,
         NEW d, d = Decode(w), d.e = "Ok"
  PROVE  /\ d.unit \in Nat /\ d.n \in Nat /\ d.n <= Len(w)
         /\ \E s \in Text : /\ t = (<<Backslash, LetterU>> \o HexDigits(d.unit)) \o s
                            /\ Spells(Beyond(w, d.n), s)
<1>1. ~NoCharacter(w)
  <2>1. Decode(w).e = "Ok"
    OBVIOUS
  <2> QED
    BY <2>1, Zenon DEF NoCharacter
<1>2. PICK u \in CodeUnit, w1 \in Seq(Octet), s \in Text :
        w = Utf8(u) \o w1 /\ t = UnitText(u) \o s /\ Spells(w1, s)
  <2>1. BeginsWithUnit(w, t)
    BY <1>1, SpellsFirst, Zenon
  <2> QED
    BY <2>1, Zenon DEF BeginsWithUnit
<1>3. u \in Nat /\ u < 65536
  BY DEF CodeUnit
<1>4. u > 127
  <2> SUFFICES ASSUME u <= 127 PROVE FALSE
    BY <1>3
  <2>1. Utf8(u) = <<u>> /\ Len(<<u>>) = 1 /\ <<u>> \in Seq(Octet) /\ <<u>>[1] = u
    BY <1>3 DEF Utf8, Octet
  <2>2. Len(w1) \in Nat
    BY LenProperties
  <2>3. 1 \in 1 .. Len(<<u>>) + Len(w1) /\ 1 <= Len(<<u>>)
    BY <2>1, <2>2
  <2>4. (<<u>> \o w1)[1] = u
    <3> DEFINE v == <<u>>
    <3>1. v \in Seq(Octet) /\ v[1] = u /\ 1 \in 1 .. Len(v) + Len(w1) /\ 1 <= Len(v)
      BY <2>1, <2>3
    <3> HIDE DEF v
    <3>2. (v \o w1)[1] = v[1]
      BY <3>1, ConcatProperties
    <3> QED
      BY <3>1, <3>2 DEF v
  <2> QED
    BY <1>2, <1>3, <2>1, <2>4, TailIs
<1>5. /\ d = [e |-> "Ok", n |-> Len(Utf8(u)), unit |-> u]
      /\ Beyond(w, Len(Utf8(u))) = w1 /\ Len(Utf8(u)) \in Nat /\ Len(Utf8(u)) <= Len(w)
  BY <1>2, <1>4, DecodesUnit
<1>6. UnitText(u) = <<Backslash, LetterU>> \o HexDigits(u)
  BY <1>3, <1>4, HexTextIs DEF UnitText
<1> QED
  <2>1. d.n = Len(Utf8(u)) /\ d.unit = u
    BY <1>5
  <2> DEFINE n == Len(Utf8(u))
             x == <<Backslash, LetterU>> \o HexDigits(u)
  <2>2. /\ d.n = n /\ d.unit = u /\ n \in Nat /\ n <= Len(w) /\ u \in Nat /\ s \in Text
        /\ t = x \o s /\ Spells(Beyond(w, n), s)
    BY <1>2, <1>3, <1>5, <1>6, <2>1
  <2>3. x = <<Backslash, LetterU>> \o HexDigits(d.unit)
    BY <2>1
  <2> HIDE DEF n, x
  <2> QED
    BY <2>2, <2>3

-----------------------------------------------------------------------------
(* What is left of a list behind element k, with the bracket that closes it.  *)
Closed(x, k, c) == From(x, k) \o <<c>>

LEMMA ClosedIs ==
  ASSUME NEW x \in Seq(Text), NEW j \in Nat, j <= Len(x), NEW c \in Int
  PROVE  /\ Closed(x, j, c) \in Text
         /\ j = Len(x) => Closed(x, j, c) = <<c>>
         /\ j < Len(x) /\ j = 0 => Closed(x, j, c) = x[j + 1] \o Closed(x, j + 1, c)
         /\ j < Len(x) /\ j # 0 =>
              Closed(x, j, c) = <<Comma>> \o (x[j + 1] \o Closed(x, j + 1, c))
<1> DEFINE a == From(x, j)
           z == <<c>>
<1>1. a \in Text /\ z \in Text /\ Closed(x, j, c) = a \o z
  <2>1. a \in Text
    BY FromIs
  <2>2. z \in Text
    BY DEF Text
  <2> QED
    BY <2>1, <2>2 DEF Closed
<1>2. CASE j = Len(x)
  <2>1. a = << >>
    BY <1>2, FromIs
  <2> HIDE DEF a, z
  <2>2. a \o z = z /\ a \o z \in Text
    BY <1>1, <2>1, Concat
  <2>3. ~(j < Len(x))
    BY <1>2, LenProperties
  <2> QED
    BY <1>1, <1>2, <2>2, <2>3 DEF z
<1>3. CASE j < Len(x)
  <2> DEFINE y == x[j + 1]
             b == From(x, j + 1)
  <2>1. j + 1 \in Nat /\ j + 1 <= Len(x) /\ j + 1 \in 1 .. Len(x)
    BY <1>3, LenProperties
  <2>2. y \in Text /\ b \in Text /\ Closed(x, j + 1, c) = b \o z
    BY <2>1, FromIs, ElementOfSeq DEF Closed
  <2>3. /\ j = 0 => a = y \o b
        /\ j # 0 => a = <<Comma>> \o (y \o b)
    BY <1>3, FromIs
  <2> HIDE DEF a, z, y, b
  <2>4. (y \o b) \o z = y \o (b \o z) /\ y \o b \in Text /\ a \o z \in Text
    BY <1>1, <2>2, Assoc, Concat, Zenon
  <2>5. (<<Comma>> \o (y \o b)) \o z = <<Comma>> \o ((y \o b) \o z)
    BY <1>1, <2>4, CommaText, Assoc
  <2>6. j # Len(x)
    BY <1>3, LenProperties
  <2>7. /\ Closed(x, j, c) \in Text
        /\ j = 0 => Closed(x, j, c) = y \o Closed(x, j + 1, c)
        /\ j # 0 => Closed(x, j, c) = <<Comma>> \o (y \o Closed(x, j + 1, c))
    BY <1>1, <2>2, <2>3, <2>4, <2>5
  <2> QED
    BY <2>6, <2>7 DEF y
<1>4. j < Len(x) \/ j = Len(x)
  BY LenProperties
<1> QED
  BY <1>2, <1>3, <1>4

(* What an element still owes, clause by clause as its handler counts the    *)
(* bytes it has written.  An array whose comma is written is past it.        *)
ListOwed(x, b, past, j, t) ==
  \/ b = 0 /\ past = 0 /\ j = 0 /\ t = <<LBracket>> \o Closed(x, 0, RBracket)
  \/ b > 0 /\ past = 0 /\ j <= Len(x) /\ t = Closed(x, j, RBracket)
  \/ /\ b > 0 /\ past > 0 /\ j > 0 /\ j < Len(x)
     /\ t = x[j + 1] \o Closed(x, j + 1, RBracket)
OwesArray(f, c, t) ==
  /\ c.failure # "late"
  /\ ListOwed(ElementTexts(DocText, f.lpArray),
              f.dwBytesWritten, f.dwWrittenPast, f.dwCurrentIndex, t)

(* An object whose members have the texts x; e is the entry it is at, of which *)
(* value is the text of the value, b its counter and d its indentation.        *)
HeaderOwed(x, b, t) ==
  t = IF b = 0 THEN <<LBrace>> \o Closed(x, 0, RBrace) ELSE Closed(x, 0, RBrace)
KeyOwed(x, e, b, d, value, t) ==
  \/ b <= d /\ t = x[e] \o Closed(x, e, RBrace)
  \/ b \in {d + 1, d + 2} /\ t = <<Colon>> \o (value \o Closed(x, e, RBrace))
  \/ b = d + 3 /\ t = value \o Closed(x, e, RBrace)
ValueOwed(x, e, b, t) ==
  \/ b = 0 /\ t = Closed(x, e, RBrace)
  \/ b = 1 /\ e > 1 /\ t = Closed(x, e - 1, RBrace)
  \/ b >= 2 /\ e # 0 /\ t = x[e] \o Closed(x, e, RBrace)
  \/ b >= 1 /\ e = 0 /\ t = <<RBrace>>
OwesObject(f, i, c, t) ==
  LET x == MemberTexts(DocText, f.lpObject)
      e == f.lpCurrentBucketEntry
      b == f.dwBytesWritten
  IN /\ c.failure = "late" => Arrayless(f.lpObject)
     /\ f.state = "Header" => HeaderOwed(x, b, t)
     /\ f.state = "Key" => KeyOwed(x, e, b, Depth(i, c.pretty), DocText[Member(f).value], t)
     /\ f.state = "Value" => ValueOwed(x, e, b, t)
     /\ f.state = "Trailer" => t \in {<<RBrace>>, << >>}

(* Left are the bytes of a string from the one its handler is at.            *)
OwesString(f, t) ==
  \/ /\ f.state = "LeadingQuote" /\ f.dwCurrentIndex <= Len(f.bData)
     /\ \E s \in Text : Spells(Left(f), s) /\ t = <<Quote>> \o s
  \/ f.state = "Normal" /\ f.dwCurrentIndex <= Len(f.bData) /\ Spells(Left(f), t)
  \/ f.state = "Normal" /\ f.dwCurrentIndex > Len(f.bData) /\ t = << >>
  \/ /\ f.state = "Escaped"
     /\ \E s \in Text : /\ Spells(Beyond(f.bData, f.dwCurrentIndex + 1), s)
                        /\ t = <<EscapeLetter(Head(Left(f)))>> \o s
  \/ /\ f.state = "Unicode" /\ f.dwCurrentIndex <= Len(f.bData)
     /\ \E s \in Text :
          /\ Spells(Left(f), s)
          /\ t = Beyond(<<Backslash, LetterU>> \o f.bUnicodeBytes, f.dwUnicodeBytesWritten) \o s

Owes(f, i, c, t) ==
  /\ t \in Text
  /\ f.type = "Constant" => t = Beyond(f.text, f.dwBytesWritten)
  /\ f.type = "Number" => t = Beyond(f.bString, f.dwWritten)
  /\ f.type = "String" => OwesString(f, t)
  /\ f.type = "Array" => OwesArray(f, c, t)
  /\ f.type = "Object" => OwesObject(f, i, c, t)

(* What a stack owes, the top first. *)
Pending(s, c, R) ==
  \E r \in [0 .. Len(s) -> Text] :
    /\ r[0] = << >> /\ r[Len(s)] = R
    /\ \A i \in 1 .. Len(s) : \E t : Owes(s[i], i, c, t) /\ r[i] = t \o r[i - 1]

LEMMA PendingEmpty == \A c, R : Pending(<< >>, c, R) <=> R = << >>
<1> SUFFICES ASSUME NEW c, NEW R PROVE Pending(<< >>, c, R) <=> R = << >>
  OBVIOUS
<1>1. Len(<< >>) = 0 /\ << >> \in Text
  BY EmptySeq, Concat
<1>2. ASSUME R = << >> PROVE Pending(<< >>, c, R)
  <2> DEFINE r == [i \in 0 .. 0 |-> << >>]
  <2>1. r \in [0 .. 0 -> Text] /\ r[0] = << >>
    BY <1>1
  <2> HIDE DEF r
  <2> QED
    BY <1>1, <1>2, <2>1 DEF Pending
<1> QED
  BY <1>1, <1>2 DEF Pending

LEMMA PendingAppend ==
  ASSUME NEW S, NEW s \in Seq(S), NEW f \in S, NEW c, NEW R
  PROVE  Pending(Append(s, f), c, R) <=>
           \E t, Q : Pending(s, c, Q) /\ Owes(f, Len(s) + 1, c, t) /\ R = t \o Q
<1> DEFINE n == Len(s)
           a == Append(s, f)
<1>1. n \in Nat /\ Len(a) = n + 1 /\ (\A i \in 1 .. n : a[i] = s[i]) /\ a[n + 1] = f
  BY AppendProperties, LenProperties
<1> HIDE DEF a
<1>2. ASSUME Pending(a, c, R)
      PROVE  \E t, Q : Pending(s, c, Q) /\ Owes(f, n + 1, c, t) /\ R = t \o Q
  <2>1. PICK r \in [0 .. n + 1 -> Text] :
          /\ r[0] = << >> /\ r[n + 1] = R
          /\ \A i \in 1 .. n + 1 : \E t : Owes(a[i], i, c, t) /\ r[i] = t \o r[i - 1]
    BY <1>1, <1>2 DEF Pending
  <2> DEFINE q == [i \in 0 .. n |-> r[i]]
  <2>2. q \in [0 .. n -> Text] /\ q[0] = << >> /\ \A i \in 0 .. n : q[i] = r[i]
    BY <1>1, <2>1
  <2> HIDE DEF q
  <2>3. ASSUME NEW i \in 1 .. n PROVE \E t : Owes(s[i], i, c, t) /\ q[i] = t \o q[i - 1]
    <3>1. i \in 1 .. n + 1 /\ i \in 0 .. n /\ i - 1 \in 0 .. n
      BY <1>1
    <3>2. PICK t : Owes(a[i], i, c, t) /\ r[i] = t \o r[i - 1]
      BY <2>1, <3>1
    <3> QED
      BY <1>1, <2>2, <3>1, <3>2
  <2>4. Pending(s, c, q[n])
    BY <2>2, <2>3 DEF Pending, n
  <2>5. n + 1 \in 1 .. n + 1 /\ n + 1 - 1 = n /\ n \in 0 .. n
    BY <1>1
  <2> DEFINE m == n + 1
  <2>6. m \in 1 .. n + 1 /\ m - 1 = n /\ m = n + 1
    BY <2>5
  <2> HIDE DEF n, m
  <2>7. PICK t : Owes(a[m], m, c, t) /\ r[m] = t \o r[m - 1]
    BY <2>1, <2>6
  <2> QED
    BY <1>1, <2>1, <2>2, <2>4, <2>5, <2>6, <2>7
<1>3. ASSUME NEW t, NEW Q, Pending(s, c, Q), Owes(f, n + 1, c, t), R = t \o Q
      PROVE  Pending(a, c, R)
  <2>1. PICK r \in [0 .. n -> Text] :
          /\ r[0] = << >> /\ r[n] = Q
          /\ \A i \in 1 .. n : \E u : Owes(s[i], i, c, u) /\ r[i] = u \o r[i - 1]
    BY <1>3 DEF Pending
  <2> DEFINE q == [i \in 0 .. n + 1 |-> IF i = n + 1 THEN R ELSE r[i]]
  <2>2. R \in Text
    <3>1. n \in 0 .. n
      BY <1>1
    <3>2. Q \in Text /\ t \in Text
      BY <1>3, <2>1, <3>1 DEF Owes
    <3> QED
      BY <1>3, <3>2, Concat
  <2>3. q \in [0 .. n + 1 -> Text] /\ q[n + 1] = R /\ \A i \in 0 .. n : q[i] = r[i]
    <3>1. \A i \in 0 .. n : i # n + 1 /\ i \in 0 .. n + 1
      BY <1>1
    <3>2. \A i \in 0 .. n + 1 : i # n + 1 => i \in 0 .. n
      BY <1>1
    <3>3. n + 1 \in 0 .. n + 1
      BY <1>1
    <3> HIDE DEF n
    <3> QED
      BY <2>1, <2>2, <3>1, <3>2, <3>3
  <2> HIDE DEF q
  <2>4. ASSUME NEW i \in 1 .. n + 1 PROVE \E u : Owes(a[i], i, c, u) /\ q[i] = u \o q[i - 1]
    <3>1. CASE i = n + 1
      <4>1. i - 1 = n /\ n \in 0 .. n
        BY <1>1, <3>1
      <4>2. q[i] = R /\ q[i - 1] = Q /\ a[i] = f
        BY <1>1, <2>1, <2>3, <3>1, <4>1
      <4> HIDE DEF n
      <4> QED
        BY <1>3, <3>1, <4>2
    <3>2. CASE i # n + 1
      <4>1. i \in 1 .. n /\ i \in 0 .. n /\ i - 1 \in 0 .. n
        BY <1>1, <3>2
      <4>2. PICK u : Owes(s[i], i, c, u) /\ r[i] = u \o r[i - 1]
        BY <2>1, <4>1
      <4> QED
        BY <1>1, <2>3, <4>1, <4>2
    <3> QED
      BY <3>1, <3>2
  <2>5. 0 \in 0 .. n
    BY <1>1
  <2>6. q[0] = << >> /\ Len(a) = n + 1
    BY <1>1, <2>1, <2>3, <2>5
  <2> HIDE DEF n
  <2> QED
    BY <2>3, <2>4, <2>6 DEF Pending
<1> QED
  BY <1>2, <1>3 DEF a

LEMMA PendingText == \A s, c, R : Len(s) \in Nat /\ Pending(s, c, R) => R \in Text
<1> SUFFICES ASSUME NEW s, NEW c, NEW R, Len(s) \in Nat, Pending(s, c, R) PROVE R \in Text
  OBVIOUS
<1>1. Len(s) \in 0 .. Len(s)
  OBVIOUS
<1> QED
  BY <1>1 DEF Pending

-----------------------------------------------------------------------------
(* What has been written and what the stack owes are the text of the document. *)
InTrailer(f) == f.type = "Object" /\ f.state = "Trailer"
Due(t) == \E Q : /\ Pending(Below, client, Q) /\ Owes(Top, Place, client, t)
                 /\ out \o (t \o Q) = DocText[doc]
TextInv ==
  /\ SerInv
  /\ doc = None => lpTopOfStack = << >> /\ out = << >>
  /\ doc # None => \E R : Pending(lpTopOfStack, client, R) /\ out \o R = DocText[doc]
  /\ at = "behind" => Running /\ InTrailer(Top) /\ Due(<<RBrace>>)

LEMMA AppendedTo ==
  ASSUME NEW S, NEW b \in Seq(S), NEW g, Append(b, g) \in Seq(S)
  PROVE  /\ g \in S /\ Append(b, g) # << >> /\ Len(Append(b, g)) = Len(b) + 1
         /\ SubSeq(Append(b, g), 1, Len(Append(b, g)) - 1) = b
         /\ Append(b, g)[Len(Append(b, g))] = g
<1> DEFINE a == Append(b, g)
           n == Len(b)
           c == SubSeq(a, 1, Len(a) - 1)
<1>1. b \in Seq(S \cup {g}) /\ n \in Nat
  BY SeqMonotonic, LenProperties
<1>2. Len(a) = n + 1 /\ (\A i \in 1 .. n : a[i] = b[i]) /\ a[n + 1] = g /\ a \in Seq(S)
  BY <1>1, AppendProperties
<1> HIDE DEF a
<1>3. n + 1 \in 1 .. Len(a) /\ n <= Len(a) /\ Len(a) - 1 = n /\ Len(a) # 0
  BY <1>1, <1>2
<1>4. g \in S
  <2>1. a[n + 1] \in S
    BY <1>2, <1>3, ElementOfSeq
  <2> QED
    BY <1>2, <2>1
<1>5. c \in Seq(S) /\ Len(c) = n /\ \A i \in 1 .. n : c[i] = a[i]
  <2>1. c = SubSeq(a, 1, n)
    BY <1>3
  <2> HIDE DEF c
  <2> QED
    BY <1>1, <1>2, <1>3, <2>1, Prefix
<1> HIDE DEF c
<1>6. c = b
  <2>1. \A i \in 1 .. n : c[i] = b[i]
    BY <1>2, <1>5
  <2> QED
    BY <1>5, <2>1, SeqEqual
<1>7. a # << >>
  BY <1>3, EmptySeq
<1> QED
  BY <1>2, <1>4, <1>6, <1>7 DEF a, c, n

(* What is missing behind a beginning. *)
LEMMA Missing ==
  ASSUME NEW T, NEW a \in Text, NEW R \in Text, a \o R = T
  PROVE  IsPrefix(a, T) /\ SubSeq(T, Len(a) + 1, Len(T)) = R
<1>1. /\ Beyond(a \o R, Len(a)) = R /\ SubSeq(a \o R, 1, Len(a)) = a
      /\ Len(a \o R) = Len(a) + Len(R)
  BY BeyondConcat DEF Text
<1>2. Len(a) \in Nat /\ Len(R) \in Nat
  BY Concat
<1>3. SubSeq(a, 1, Len(a)) = a
  BY SubSeqFull DEF Text
<1> QED
  BY <1>1, <1>2, <1>3 DEF IsPrefix, Beyond

LEMMA RestIs ==
  ASSUME doc # None, NEW R \in Text, out \in Text, out \o R = DocText[doc]
  PROVE  Rest = R
<1> DEFINE T == DocText[doc]
<1>1. out \o R = T
  OBVIOUS
<1> HIDE DEF T
<1>2. IsPrefix(out, T) /\ SubSeq(T, Len(out) + 1, Len(T)) = R
  BY <1>1, Missing
<1> QED
  BY <1>2 DEF Rest, T

LEMMA RestIsNext ==
  ASSUME doc' # None, NEW R \in Text, out' \in Text, out' \o R = DocText[doc']
  PROVE  Rest' = R
<1> DEFINE T == DocText[doc']
<1>1. out' \o R = T
  OBVIOUS
<1> HIDE DEF T
<1>2. IsPrefix(out', T) /\ SubSeq(T, Len(out') + 1, Len(T)) = R
  BY <1>1, Missing
<1> QED
  BY <1>2 DEF Rest, T

(* A step that writes w of what is missing is one of the writer. *)
LEMMA Writes ==
  ASSUME doc # None, doc' = doc, out \in Text, NEW w \in Text, NEW R, NEW Q \in Text,
         R = w \o Q, out \o R = DocText[doc], out' = out \o w, Phase = "writing",
         Phase' \in {"writing", "suspended"} \cup (IF Q = << >> THEN {"idle"} ELSE {})
  PROVE  [Writer!Next]_Writer!vars
<1>1. R \in Text /\ out' \in Text /\ Len(w) \in Nat /\ Len(Q) \in Nat /\ Len(R) = Len(w) + Len(Q)
  BY Concat
<1>2. out' \o Q = DocText[doc']
  BY Assoc
<1>3. Rest = R /\ Rest' = Q
  BY <1>1, <1>2, RestIs, RestIsNext
<1>4. CASE w = << >>
  <2>1. R = Q /\ out' = out
    BY <1>4, Concat
  <2>2. CASE Phase' = "writing"
    BY <1>3, <2>1, <2>2 DEF Writer!vars
  <2>3. CASE Phase' = "suspended"
    BY <1>3, <2>1, <2>3 DEF Writer!Next, Writer!Suspend
  <2>4. CASE Phase' = "idle" /\ Q = << >>
    BY <1>3, <2>1, <2>4 DEF Writer!Next, Writer!Finish
  <2> QED
    BY <2>2, <2>3, <2>4
<1>5. CASE w # << >>
  <2> DEFINE k == Len(w)
  <2>1. k # 0
    BY <1>5, EmptySeq DEF Text
  <2>2. k \in 1 .. Len(R)
    BY <1>1, <2>1
  <2>3. SubSeq(R, 1, k) = w /\ SubSeq(R, k + 1, Len(R)) = Q
    <3>1. Beyond(w \o Q, Len(w)) = Q /\ SubSeq(w \o Q, 1, Len(w)) = w
      BY BeyondConcat DEF Text
    <3> QED
      BY <3>1 DEF Beyond
  <2> HIDE DEF k
  <2>4. Writer!Write(k)
    BY <1>3, <2>2, <2>3 DEF Writer!Write
  <2> QED
    BY <1>3, <2>2, <2>4 DEF Writer!Next
<1> QED
  BY <1>4, <1>5

-----------------------------------------------------------------------------
(* How a step of a running call fares with what is owed: the top writes the   *)
(* beginning w of it and owes the rest, or writes all of it and is popped, or *)
(* passes the beginning of it on to the element it pushes.                    *)
Replaced(t, g, w, u) ==
  /\ lpTopOfStack' = SetTop(g) /\ w \in Text /\ u \in Text /\ t = w \o u /\ out' = out \o w
  /\ Owes(g, Place, client, u)
  /\ status' = status \/ (status' # "Running" /\ at' = "enter")
  /\ at' = "behind" => status' = status /\ InTrailer(g) /\ u = <<RBrace>>
Popped(t) == /\ lpTopOfStack' = Below /\ out' = out \o t /\ at' = "enter"
             /\ status' = IF Below = << >> THEN "Ok" ELSE status
Pushed(t, g, h, u, v) ==
  /\ lpTopOfStack' = Append(SetTop(g), h) /\ out' = out /\ status' = status /\ at' # "behind"
  /\ t = v \o u /\ g \in Frame
  /\ Owes(g, Place, client, u) /\ Owes(h, Place + 1, client, v)
Advances(t) ==
  /\ Fixed
  /\ \/ \E g, w, u : Replaced(t, g, w, u)
     \/ Popped(t)
     \/ \E g, h, u, v : Pushed(t, g, h, u, v)

LEMMA Progress ==
  ASSUME TextInv, SerInv', Running, NEW t, Due(t), Advances(t)
  PROVE  TextInv' /\ [Writer!Next]_Writer!vars
<1>1. /\ Below \in Seq(Frame) /\ Top \in Frame /\ lpTopOfStack # << >>
      /\ \A g : SetTop(g) = Append(Below, g)
      /\ Len(Below) \in Nat /\ Place = Len(Below) + 1
  BY RunningTop, LenProperties DEF TextInv, Place
<1>2. PICK Q : /\ Pending(Below, client, Q) /\ Owes(Top, Place, client, t)
               /\ out \o (t \o Q) = DocText[doc]
  BY DEF Due
<1>3. t \in Text /\ Q \in Text /\ out \in Text /\ out' \in Text
  <2>1. out \in Seq(Octet) /\ out' \in Seq(Octet)
    BY DEF TextInv, SerInv, TypeOK
  <2> QED
    BY <1>1, <1>2, <2>1, PendingText, OctetText DEF Owes
<1>4. doc # None /\ doc' = doc /\ client' = client
  BY <1>1 DEF TextInv, Advances, Fixed
<1>5. Phase = "writing"
  BY DEF Phase
<1>6. lpTopOfStack' \in Seq(Frame)
  BY DEF SerInv, TypeOK
<1>7. ASSUME NEW g, NEW w, NEW u, Replaced(t, g, w, u)
      PROVE  TextInv' /\ [Writer!Next]_Writer!vars
  <2>1. /\ lpTopOfStack' = Append(Below, g) /\ w \in Text /\ u \in Text /\ t = w \o u
        /\ out' = out \o w /\ Owes(g, Place, client, u)
        /\ status' = status \/ (status' # "Running" /\ at' = "enter")
        /\ at' = "behind" => status' = status /\ InTrailer(g) /\ u = <<RBrace>>
    BY <1>1, <1>7 DEF Replaced
  <2>2. /\ lpTopOfStack' # << >> /\ Len(lpTopOfStack') = Len(Below) + 1
        /\ g \in Frame /\ SubSeq(lpTopOfStack', 1, Len(lpTopOfStack') - 1) = Below
        /\ lpTopOfStack'[Len(lpTopOfStack')] = g
    BY <1>1, <1>6, <2>1, AppendedTo
  <2>3. Below' = Below /\ Top' = g /\ Place' = Place
    BY <2>2 DEF Below, Top, Place
  <2> DEFINE V == u \o Q
  <2>4. t \o Q = w \o V /\ V \in Text
    <3>1. w \in Text /\ u \in Text /\ t = w \o u
      BY <2>1
    <3>2. (w \o u) \o Q = w \o V
      BY <1>3, <3>1, Assoc, SMTT(30)
    <3>3. V \in Text
      BY <1>3, <3>1, Concat
    <3> QED
      BY <3>1, <3>2, <3>3
  <2>5. out' \o V = DocText[doc]
    <3>1. w \in Text /\ out' = out \o w
      BY <2>1
    <3> HIDE DEF V
    <3>2. out \in Text /\ w \in Text /\ V \in Text
      BY <1>3, <2>4, <3>1
    <3>3. (out \o w) \o V = out \o (w \o V)
      BY <3>2, Assoc
    <3>4. out \o (w \o V) = DocText[doc]
      BY <1>2, <2>4
    <3> QED
      BY <3>1, <3>3, <3>4
  <2>6. Pending(lpTopOfStack', client, u \o Q)
    <3>1. Pending(Append(Below, g), client, u \o Q)
      BY <1>1, <1>2, <2>1, <2>2, PendingAppend
    <3> QED
      BY <2>1, <3>1
  <2>7. Phase' \in {"writing", "suspended"}
    BY <2>2 DEF Phase
  <2>8. [Writer!Next]_Writer!vars
    BY <1>2, <1>3, <1>4, <1>5, <2>1, <2>4, <2>7, Writes
  <2>9. at' = "behind" => Running' /\ InTrailer(Top') /\ Due(<<RBrace>>)'
    <3> SUFFICES ASSUME at' = "behind" PROVE Running' /\ InTrailer(Top') /\ Due(<<RBrace>>)'
      OBVIOUS
    <3>1. status' = status /\ InTrailer(g) /\ u = <<RBrace>>
      BY <2>1
    <3>2. Due(<<RBrace>>)'
      BY <1>2, <1>4, <2>1, <2>3, <2>5, <3>1 DEF Due
    <3> QED
      BY <2>3, <3>1, <3>2 DEF Running
  <2>10. TextInv'
    BY <1>4, <2>5, <2>6, <2>9 DEF TextInv
  <2> QED
    BY <2>8, <2>10
<1>8. CASE Popped(t)
  <2>1. /\ lpTopOfStack' = Below /\ out' = out \o t /\ at' = "enter"
        /\ status' = IF Below = << >> THEN "Ok" ELSE status
    BY <1>8 DEF Popped
  <2>2. out' \o Q = DocText[doc]
    BY <1>2, <1>3, <2>1, Assoc, Zenon
  <2>3. Below = << >> => Q = << >>
    BY <1>2, PendingEmpty
  <2>4. Phase' \in {"writing", "suspended"} \cup (IF Q = << >> THEN {"idle"} ELSE {})
    BY <2>1, <2>3 DEF Phase
  <2>5. [Writer!Next]_Writer!vars
    BY <1>2, <1>3, <1>4, <1>5, <2>1, <2>4, Writes
  <2>6. TextInv'
    BY <1>2, <1>4, <2>1, <2>2 DEF TextInv
  <2> QED
    BY <2>5, <2>6
<1>9. ASSUME NEW g, NEW h, NEW u, NEW v, Pushed(t, g, h, u, v)
      PROVE  TextInv' /\ [Writer!Next]_Writer!vars
  <2>1. /\ lpTopOfStack' = Append(Append(Below, g), h) /\ out' = out /\ status' = status
        /\ at' # "behind" /\ t = v \o u /\ g \in Frame
        /\ Owes(g, Place, client, u) /\ Owes(h, Place + 1, client, v)
    BY <1>1, <1>9 DEF Pushed
  <2>2. u \in Text /\ v \in Text
    BY <2>1 DEF Owes
  <2> DEFINE b == Append(Below, g)
  <2>3. b \in Seq(Frame) /\ Len(b) = Place
    BY <1>1, <2>1, AppendProperties
  <2>4. Pending(b, client, u \o Q)
    BY <1>1, <1>2, <2>1, PendingAppend
  <2> HIDE DEF b
  <2>5. h \in Frame
    <3>1. Append(b, h) \in Seq(Frame)
      BY <1>6, <2>1 DEF b
    <3> QED
      BY <2>3, <3>1, AppendedTo
  <2>6. Pending(Append(b, h), client, v \o (u \o Q))
    BY <2>1, <2>3, <2>4, <2>5, PendingAppend
  <2>7. v \o (u \o Q) = t \o Q /\ t \o Q \in Text /\ out \o << >> = out /\ << >> \in Text
    <3>1. (v \o u) \o Q = v \o (u \o Q)
      BY <1>3, <2>2, Assoc, SMTT(30)
    <3>2. t = v \o u
      BY <2>1
    <3>3. t \o Q \in Text /\ out \o << >> = out /\ << >> \in Text
      BY <1>3, Concat
    <3> QED
      BY <3>1, <3>2, <3>3
  <2>8. lpTopOfStack' # << >> /\ Phase' = "writing"
    BY <1>5, <2>1 DEF Phase, Running
  <2>9. [Writer!Next]_Writer!vars
    <3>1. t \o Q = << >> \o (t \o Q)
      BY <2>7, Concat
    <3> QED
      BY <1>2, <1>3, <1>4, <1>5, <2>1, <2>7, <2>8, <3>1, Writes
  <2>10. TextInv'
    BY <1>2, <1>4, <2>1, <2>6, <2>7 DEF TextInv, b
  <2> QED
    BY <2>9, <2>10
<1> QED
  BY <1>7, <1>8, <1>9 DEF Advances

-----------------------------------------------------------------------------
(* An element that has just been pushed owes all of its text. *)
LEMMA NewStringOwes ==
  ASSUME NEW v \in StringValue, EndsInNoCharacter(v), NEW b, NEW t, NEW i, NEW c
  PROVE  Owes(NewString(b, t, Bytes(v)), i, c, StringText(v))
<1> DEFINE w == Bytes(v)
           f == NewString(b, t, w)
           T == StringText(v)
<1>1. w \in Seq(Octet) /\ T \in Text
  BY BytesType, StringTextType
<1>2. PICK s \in Text : Spells(w, s) /\ T = <<Quote>> \o s
  BY SpellsString
<1> HIDE DEF w, T
<1>3. /\ f.type = "String" /\ f.state = "LeadingQuote" /\ f.dwCurrentIndex = 0 /\ f.bData = w
      /\ Left(f) = Beyond(w, 0)
  BY DEF NewString, Left, Beyond
<1> HIDE DEF f
<1>4. Left(f) = w
  BY <1>1, <1>3, BeyondNone
<1>5. OwesString(f, T)
  BY <1>2, <1>3, <1>4 DEF OwesString
<1>6. Owes(f, i, c, T)
  BY <1>1, <1>3, <1>5 DEF Owes
<1> QED
  BY <1>6 DEF f, w, T

LEMMA ArraylessInside ==
  ASSUME NEW n \in Node, Arrayless(n)
  PROVE  Tree[n].type # "Array" /\ \A m \in Inside(n) : Arrayless(m)
<1>1. PICK S \in SUBSET Node : n \in S /\ \A m \in S : Tree[m].type # "Array" /\ Inside(m) \subseteq S
  BY DEF Arrayless
<1>2. \A m \in Inside(n) : m \in S
  BY <1>1
<1> QED
  BY <1>1, <1>2 DEF Arrayless

LEMMA NewFrameOwes ==
  ASSUME WritableDocuments, NEW n \in Node, NEW b, NEW i, NEW c,
         c.failure = "late" => Arrayless(n)
  PROVE  Owes(NewFrame(n, b), i, c, DocText[n])
<1> DEFINE f == NewFrame(n, b)
           T == DocText[n]
<1>0. T \in Text
  BY DocTextType
<1>1. CASE Tree[n].type = "Constant"
  <2>1. f = [type |-> "Constant", elm |-> b, text |-> Literal[Tree[n].value], dwBytesWritten |-> 0]
    BY <1>1 DEF NewFrame
  <2>2. T = Literal[Tree[n].value] /\ T \in Text
    BY <1>0, <1>1, DocTextIs
  <2> HIDE DEF f, T
  <2>3. f.type = "Constant" /\ f.text = T /\ f.dwBytesWritten = 0
    BY <2>1, <2>2
  <2>4. T = Beyond(f.text, f.dwBytesWritten)
    BY <2>2, <2>3, BeyondNone DEF Text
  <2>5. Owes(f, i, c, T)
    BY <1>0, <2>3, <2>4 DEF Owes
  <2> QED
    BY <2>5 DEF f, T
<1>2. CASE Tree[n].type = "Number"
  <2>1. f = [type |-> "Number", elm |-> b, bString |-> Printed(Tree[n].digits), dwWritten |-> 0]
    BY <1>2 DEF NewFrame
  <2>2. T = Printed(Tree[n].digits) /\ T \in Text
    BY <1>0, <1>2, DocTextIs
  <2> HIDE DEF f, T
  <2>3. f.type = "Number" /\ f.bString = T /\ f.dwWritten = 0
    BY <2>1, <2>2
  <2>4. T = Beyond(f.bString, f.dwWritten)
    BY <2>2, <2>3, BeyondNone DEF Text
  <2>5. Owes(f, i, c, T)
    BY <1>0, <2>3, <2>4 DEF Owes
  <2> QED
    BY <2>5 DEF f, T
<1>3. CASE Tree[n].type = "String"
  <2>1. f = NewString(b, Null, Bytes(Tree[n]))
    BY <1>3 DEF NewFrame
  <2>2. T = StringText(Tree[n])
    BY <1>3, DocTextIs
  <2>3. Tree[n] \in StringValue
    BY <1>3, TreeAssumption
  <2>4. EndsInNoCharacter(Tree[n])
    BY <1>3 DEF WritableDocuments, Strings
  <2> HIDE DEF f, T
  <2>5. Owes(f, i, c, T)
    BY <2>1, <2>2, <2>3, <2>4, NewStringOwes
  <2> QED
    BY <2>5 DEF f, T
<1>4. CASE Tree[n].type = "Array"
  <2>1. f = [type |-> "Array", elm |-> b, lpArray |-> n, dwBytesWritten |-> 0,
             dwCurrentIndex |-> 0, dwWrittenIndent |-> 0, dwWrittenPast |-> 0]
    BY <1>4 DEF NewFrame
  <2> DEFINE x == ElementTexts(DocText, n)
  <2>2. T = <<LBracket>> \o Joined(x) \o <<RBracket>>
    BY <1>4, DocTextIs
  <2>3. x \in Seq(Text)
    <3>1. \A m \in Inside(n) : DocText[m] \in Text
      BY InsideIs, DocTextType
    <3> QED
      BY <1>4, <3>1, ElementTextsType
  <2>4. Joined(x) \in Text
    BY <2>3, JoinedIs
  <2>5. T = <<LBracket>> \o (Joined(x) \o <<RBracket>>)
    <3>1. <<LBracket>> \in Text /\ <<RBracket>> \in Text
      BY DEF Text, LBracket, RBracket
    <3> HIDE DEF x
    <3> QED
      BY <2>2, <2>4, <3>1, Assoc
  <2>6. c.failure # "late"
    BY <1>4, ArraylessInside
  <2> HIDE DEF f, T
  <2>7. /\ f.type = "Array" /\ f.lpArray = n /\ f.dwBytesWritten = 0
        /\ f.dwCurrentIndex = 0 /\ f.dwWrittenPast = 0
    BY <2>1
  <2>8. OwesArray(f, c, T)
    BY <2>5, <2>6, <2>7 DEF OwesArray, ListOwed, Closed, From
  <2>9. Owes(f, i, c, T)
    BY <1>0, <2>7, <2>8 DEF Owes
  <2> QED
    BY <2>9 DEF f, T
<1>5. CASE Tree[n].type = "Object"
  <2>1. f = [type |-> "Object", elm |-> b, lpObject |-> n, lpTempString |-> Wild,
             dwBytesWritten |-> 0, state |-> "Header", lpCurrentBucketEntry |-> 0]
    BY <1>5 DEF NewFrame
  <2> DEFINE x == MemberTexts(DocText, n)
  <2>2. T = <<LBrace>> \o Joined(x) \o <<RBrace>>
    BY <1>5, DocTextIs
  <2>3. x \in Seq(Text)
    <3>1. \A m \in Inside(n) : DocText[m] \in Text
      BY InsideIs, DocTextType
    <3> QED
      BY <1>5, <3>1, MemberTextsType
  <2>4. Joined(x) \in Text
    BY <2>3, JoinedIs
  <2>5. T = <<LBrace>> \o (Joined(x) \o <<RBrace>>)
    <3>1. <<LBrace>> \in Text /\ <<RBrace>> \in Text
      BY DEF Text, LBrace, RBrace
    <3> HIDE DEF x
    <3> QED
      BY <2>2, <2>4, <3>1, Assoc
  <2> HIDE DEF f, T
  <2>7. f.type = "Object" /\ f.lpObject = n /\ f.dwBytesWritten = 0 /\ f.state = "Header"
    BY <2>1
  <2>8. OwesObject(f, i, c, T)
    BY <2>5, <2>7 DEF OwesObject, HeaderOwed, Closed, From
  <2>9. Owes(f, i, c, T)
    BY <1>0, <2>7, <2>8 DEF Owes
  <2> QED
    BY <2>9 DEF f, T
<1> QED
  BY <1>1, <1>2, <1>3, <1>4, <1>5, TreeAssumption

-----------------------------------------------------------------------------
(* The ways of a step, each with what it leaves to be written. *)
LEMMA VisibleIs ==
  /\ \A k : Visible(<<Blank>>, k) = << >>
  /\ \A c \in Octet : Visible(<<c>>, 0) = << >> /\ Visible(<<c>>, 1) = <<c>> /\ <<c>> \in Text
  /\ \A w \in Seq(Octet), k \in Nat : Visible(w, k) = SubSeq(w, 1, k)
<1>1. \A c \in Octet : c # Blank
  BY DEF Octet, Blank
<1>2. \A w \in Seq(Octet) : w # <<Blank>>
  <2> SUFFICES ASSUME <<Blank>> \in Seq(Octet) PROVE FALSE
    OBVIOUS
  <2>1. <<Blank>>[1] = Blank /\ 1 \in 1 .. Len(<<Blank>>)
    OBVIOUS
  <2>2. <<Blank>>[1] \in Octet
    BY <2>1, ElementOfSeq
  <2> QED
    BY <1>1, <2>1, <2>2
<1>3. \A c \in Octet : Visible(<<c>>, 0) = << >> /\ Visible(<<c>>, 1) = <<c>> /\ <<c>> \in Text
  <2> SUFFICES ASSUME NEW c \in Octet
               PROVE  Visible(<<c>>, 0) = << >> /\ Visible(<<c>>, 1) = <<c>> /\ <<c>> \in Text
    BY Zenon
  <2>1. <<c>> # <<Blank>>
    BY <1>1
  <2>2. <<c>> \in Text
    BY DEF Text, Octet
  <2> DEFINE w == <<c>>
  <2>3. w \in Seq(Octet) /\ Len(w) = 1
    OBVIOUS
  <2> HIDE DEF w
  <2>4. SubSeq(w, 1, 0) \in Seq(Octet) /\ Len(SubSeq(w, 1, 0)) = 0
    BY <2>3, BeyondSplit
  <2>5. SubSeq(w, 1, 0) = << >> /\ SubSeq(w, 1, 1) = w
    BY <2>3, <2>4, EmptySeq, SubSeqFull
  <2> QED
    BY <2>1, <2>2, <2>5 DEF Visible, w
<1> QED
  BY <1>2, <1>3 DEF Visible

LEMMA Outside ==
  ASSUME TextInv, ~InTrailer(Top)
  PROVE  at # "behind"
BY DEF TextInv

LEMMA WroteAdvances ==
  ASSUME Running, NEW text, NEW k, NEW g, Wrote(text, k, g),
         NEW w \in Text, NEW u \in Text, Visible(text, k) = w, NEW t, t = w \o u,
         Owes(g, Place, client, u), at = "behind" => InTrailer(g) /\ u = <<RBrace>>
  PROVE  Advances(t)
<1>1. Replaced(t, g, w, u)
  BY DEF Wrote, Return, Replaced
<1> QED
  BY <1>1 DEF Advances, Wrote

LEMMA BlankAdvances ==
  ASSUME Running, NEW k, NEW g, Wrote(<<Blank>>, k, g), NEW t, Owes(g, Place, client, t),
         at = "behind" => InTrailer(g) /\ t = <<RBrace>>
  PROVE  Advances(t)
<1>1. t \in Text /\ << >> \in Text /\ t = << >> \o t
  BY Concat DEF Owes
<1>2. Visible(<<Blank>>, k) = << >>
  BY VisibleIs
<1> QED
  BY <1>1, <1>2, WroteAdvances

LEMMA ByteAdvances ==
  ASSUME Running, at # "behind", NEW c \in Octet, NEW k \in 0 .. 1, NEW g, Wrote(<<c>>, k, g),
         NEW u \in Text, NEW t \in Text, t = <<c>> \o u,
         Owes(g, Place, client, IF k = 0 THEN t ELSE u)
  PROVE  Advances(t)
<1>1. CASE k = 0
  <2>1. << >> \in Text /\ t = << >> \o t /\ Visible(<<c>>, k) = << >>
    BY <1>1, Concat, VisibleIs
  <2>2. Owes(g, Place, client, t)
    BY <1>1
  <2> QED
    BY <2>1, <2>2, WroteAdvances
<1>2. CASE k = 1
  <2>1. <<c>> \in Text /\ Visible(<<c>>, k) = <<c>>
    BY <1>2, VisibleIs
  <2>2. Owes(g, Place, client, u)
    BY <1>2
  <2> QED
    BY <2>1, <2>2, WroteAdvances
<1> QED
  BY <1>1, <1>2

LEMMA PopAdvances ==
  ASSUME NEW text, NEW k, WroteLast(text, k), NEW t, Visible(text, k) = t
  PROVE  Advances(t)
BY DEF WroteLast, Pop, Advances, Popped

LEMMA SetAdvances ==
  ASSUME TypeOK, NEW g, lpTopOfStack' = SetTop(g), UNCHANGED out, Fixed,
         NEW t, Owes(g, Place, client, t),
         status' = status \/ (status' # "Running" /\ at' = "enter"),
         at' = "behind" => status' = status /\ InTrailer(g) /\ t = <<RBrace>>
  PROVE  Advances(t)
<1>1. t \in Text /\ << >> \in Text /\ t = << >> \o t /\ out = out \o << >>
  <2>1. out \in Text
    BY OctetText DEF TypeOK
  <2> QED
    BY <2>1, Concat DEF Owes
<1>2. Replaced(t, g, << >>, t)
  BY <1>1 DEF Replaced
<1> QED
  BY <1>2 DEF Advances

LEMMA GoOnAdvances ==
  ASSUME TypeOK, at # "behind", NEW g, GoOn(g), NEW t, Owes(g, Place, client, t)
  PROVE  Advances(t)
BY SetAdvances DEF GoOn

LEMMA RefusedAdvances ==
  ASSUME TypeOK, NEW e, e # "Running", NEW g, Refused(g, e), NEW t, Owes(g, Place, client, t)
  PROVE  Advances(t)
BY SetAdvances DEF Refused, Return

LEMMA StayAdvances ==
  ASSUME SerInv, Running, NEW t, Owes(Top, Place, client, t),
         UNCHANGED <<lpTopOfStack, out>>, Fixed, at' # "behind",
         status' = status \/ (status' # "Running" /\ at' = "enter")
  PROVE  Advances(t)
<1>1. lpTopOfStack' = SetTop(Top) /\ TypeOK
  BY RunningTop DEF SerInv
<1> QED
  BY <1>1, SetAdvances

LEMMA CoveredAdvances ==
  ASSUME at # "behind", NEW g \in Frame, NEW h, Covered(g, h), NEW t, NEW u, NEW v, t = v \o u,
         Owes(g, Place, client, u), Owes(h, Place + 1, client, v)
  PROVE  Advances(t)
<1>1. Pushed(t, g, h, u, v)
  BY DEF Covered, Pushed
<1> QED
  BY <1>1 DEF Covered, Advances

-----------------------------------------------------------------------------
(* Constants and numbers: they owe what of their text is left. *)
LEMMA LeftAdvances ==
  ASSUME TextInv, Running, ~InTrailer(Top), NEW w \in Seq(Octet), NEW n \in Nat,
         NEW left, left = Beyond(w, n), NEW k \in 0 .. Len(left), NEW g,
         Wrote(left, k, g), Owes(g, Place, client, Beyond(w, n + k))
  PROVE  Advances(left)
<1> DEFINE u == Beyond(w, n + k)
           v == SubSeq(left, 1, k)
<1>1. left \in Seq(Octet) /\ Len(left) \in Nat /\ k \in Nat /\ k <= Len(left)
  BY BeyondIs, LenProperties
<1>2. u = Beyond(left, k)
  BY <1>1, BeyondBeyond
<1>3. v \in Seq(Octet) /\ left = v \o u
  <2>1. SubSeq(left, 1, k) \in Seq(Octet) /\ left = SubSeq(left, 1, k) \o Beyond(left, k)
    BY <1>1, BeyondSplit
  <2> QED
    BY <1>2, <2>1
<1>4. Visible(left, k) = v
  BY <1>1, VisibleIs
<1> HIDE DEF u, v
<1>5. v \in Text /\ u \in Text
  BY <1>3, OctetText DEF Owes, u
<1> QED
  BY <1>3, <1>4, <1>5, Outside, WroteAdvances DEF u

LEMMA AllAdvances ==
  ASSUME NEW left \in Seq(Octet), NEW k, k = Len(left), WroteLast(left, k)
  PROVE  Advances(left)
<1>1. Len(left) \in Nat
  BY LenProperties
<1>2. Visible(left, k) = left
  BY <1>1, VisibleIs, SubSeqFull
<1> QED
  BY <1>2, PopAdvances

LEMMA ConstantAdvances ==
  ASSUME TextInv, Continue_Constant, NEW t, Owes(Top, Place, client, t)
  PROVE  Advances(t)
<1> DEFINE left == SubSeq(Top.text, Top.dwBytesWritten + 1, Len(Top.text))
           g(k) == [Top EXCEPT !.dwBytesWritten = @ + k]
<1>0. SerInv /\ Running /\ TypeOK
  BY DEF TextInv, SerInv, Continue_Constant, Handling
<1>1. Top.type = "Constant" /\ Top \in ConstantFrame
  BY <1>0, RunningTop, FrameByType DEF Continue_Constant, Handling
<1>2. /\ Top.text \in Seq(Octet) /\ Top.dwBytesWritten \in Nat
      /\ left = Beyond(Top.text, Top.dwBytesWritten)
  BY <1>1 DEF ConstantFrame, Beyond
<1>3. t = left /\ left \in Seq(Octet) /\ Len(left) \in Nat
  BY <1>1, <1>2, BeyondIs, LenProperties DEF Owes
<1>4. ASSUME NEW k \in 0 .. Len(left)
      PROVE  Owes(g(k), Place, client, Beyond(Top.text, Top.dwBytesWritten + k))
  <2> DEFINE m == Top.dwBytesWritten + k
  <2>1. /\ g(k).type = "Constant" /\ g(k).text = Top.text /\ g(k).dwBytesWritten = m
    BY <1>1 DEF ConstantFrame
  <2>2. m \in Nat
    BY <1>2, <1>3
  <2> HIDE DEF g, m
  <2>3. Beyond(Top.text, m) \in Text
    BY <1>2, <2>2, BeyondIs, OctetText
  <2>4. Owes(g(k), Place, client, Beyond(Top.text, m))
    BY <2>1, <2>3 DEF Owes
  <2> QED
    BY <2>4 DEF m
<1>5. \/ left # << >> /\ WriteLast(left, g)
      \/ left = << >> /\ Pop /\ Fixed /\ UNCHANGED out
  BY DEF Continue_Constant
<1> HIDE DEF left, g
<1>6. CASE WriteLast(left, g)
  <2>1. \/ WroteLast(left, Len(left))
        \/ \E k \in 0 .. Len(left) : Wrote(left, k, g(k))
    BY <1>0, <1>3, <1>6, AnswerRange DEF WriteLast, Wrote, WroteLast
  <2>2. CASE WroteLast(left, Len(left))
    BY <1>3, <2>2, AllAdvances
  <2>3. CASE \E k \in 0 .. Len(left) : Wrote(left, k, g(k))
    BY <1>0, <1>1, <1>2, <1>3, <1>4, <2>3, LeftAdvances DEF InTrailer
  <2> QED
    BY <2>1, <2>2, <2>3
<1>7. CASE left = << >> /\ Pop /\ Fixed /\ UNCHANGED out
  <2>1. out = out \o << >>
    BY <1>0, OctetText, Concat DEF TypeOK
  <2> QED
    BY <1>3, <1>7, <2>1 DEF Advances, Popped, Pop
<1> QED
  BY <1>5, <1>6, <1>7

LEMMA NumberAdvances ==
  ASSUME TextInv, Continue_Number, NEW t, Owes(Top, Place, client, t)
  PROVE  Advances(t)
<1> DEFINE left == SubSeq(Top.bString, Top.dwWritten + 1, Len(Top.bString))
           g(k) == [Top EXCEPT !.dwWritten = @ + k]
<1>0. SerInv /\ Running /\ TypeOK
  BY DEF TextInv, SerInv, Continue_Number, Handling
<1>1. Top.type = "Number" /\ Top \in NumberFrame
  BY <1>0, RunningTop, FrameByType DEF Continue_Number, Handling
<1>2. /\ Top.bString \in Seq(Octet) /\ Top.dwWritten \in Nat
      /\ left = Beyond(Top.bString, Top.dwWritten)
  BY <1>1 DEF NumberFrame, Beyond
<1>3. t = left /\ left \in Seq(Octet) /\ Len(left) \in Nat
  BY <1>1, <1>2, BeyondIs, LenProperties DEF Owes
<1>4. ASSUME NEW k \in 0 .. Len(left)
      PROVE  Owes(g(k), Place, client, Beyond(Top.bString, Top.dwWritten + k))
  <2> DEFINE m == Top.dwWritten + k
  <2>1. /\ g(k).type = "Number" /\ g(k).bString = Top.bString /\ g(k).dwWritten = m
    BY <1>1 DEF NumberFrame
  <2>2. m \in Nat
    BY <1>2, <1>3
  <2> HIDE DEF g, m
  <2>3. Beyond(Top.bString, m) \in Text
    BY <1>2, <2>2, BeyondIs, OctetText
  <2>4. Owes(g(k), Place, client, Beyond(Top.bString, m))
    BY <2>1, <2>3 DEF Owes
  <2> QED
    BY <2>4 DEF m
<1>5. WriteLast(left, g)
  BY DEF Continue_Number
<1> HIDE DEF left, g
<1>6. \/ WroteLast(left, Len(left))
      \/ \E k \in 0 .. Len(left) : Wrote(left, k, g(k))
  BY <1>0, <1>3, <1>5, AnswerRange DEF WriteLast, Wrote, WroteLast
<1>7. CASE WroteLast(left, Len(left))
  BY <1>3, <1>7, AllAdvances
<1>8. CASE \E k \in 0 .. Len(left) : Wrote(left, k, g(k))
  BY <1>0, <1>1, <1>2, <1>3, <1>4, <1>8, LeftAdvances DEF InTrailer
<1> QED
  BY <1>6, <1>7, <1>8

-----------------------------------------------------------------------------
(* Arrays. *)
LEMMA ByteSet ==
  /\ {LBracket, RBracket, LBrace, RBrace, Comma, Colon, Quote, Backslash} \subseteq Octet
  /\ \A c \in Octet : c \in Int /\ <<c>> \in Text
BY SingleBytes, VisibleIs DEF Octet

LEMMA ArrayTexts ==
  ASSUME SerInv, Handling("Array"), NEW x, x = ElementTexts(DocText, Top.lpArray)
  PROVE  /\ x \in Seq(Text) /\ Len(x) = Len(Elements(Top)) /\ Len(x) \in Nat
         /\ \A i \in 1 .. Len(x) : Elements(Top)[i] \in Node /\ x[i] = DocText[Elements(Top)[i]]
<1> DEFINE n == Top.lpArray
<1>1. n \in Node /\ Tree[n].type = "Array" /\ Elements(Top) = Tree[n].elements
  BY ArrayTop DEF ArrayFrame, Sound, Elements
<1> HIDE DEF n
<1>2. \A m \in Inside(n) : DocText[m] \in Text
  BY <1>1, InsideIs, DocTextType
<1>3. /\ x \in Seq(Text) /\ Len(x) = Len(Elements(Top))
      /\ \A i \in 1 .. Len(Elements(Top)) : x[i] = DocText[Elements(Top)[i]]
  BY <1>1, <1>2, ElementTextsType DEF n
<1>4. \A i \in 1 .. Len(Elements(Top)) : Elements(Top)[i] \in Node
  BY ArrayTop, ElementOfSeq
<1>5. Len(Elements(Top)) \in Nat
  BY ArrayTop, LenProperties
<1> QED
  BY <1>3, <1>4, <1>5

LEMMA ArrayFields ==
  ASSUME NEW f \in ArrayFrame, NEW k \in Nat
  PROVE  LET b == [f EXCEPT !.dwBytesWritten = @ + k]
             p == [f EXCEPT !.dwWrittenPast = @ + k]
             i == [f EXCEPT !.dwWrittenIndent = @ + k]
         IN /\ b.type = "Array" /\ b.lpArray = f.lpArray /\ b.dwBytesWritten = f.dwBytesWritten + k
            /\ b.dwCurrentIndex = f.dwCurrentIndex /\ b.dwWrittenPast = f.dwWrittenPast
            /\ p.type = "Array" /\ p.lpArray = f.lpArray /\ p.dwBytesWritten = f.dwBytesWritten
            /\ p.dwCurrentIndex = f.dwCurrentIndex /\ p.dwWrittenPast = f.dwWrittenPast + k
            /\ i.type = "Array" /\ i.lpArray = f.lpArray /\ i.dwBytesWritten = f.dwBytesWritten
            /\ i.dwCurrentIndex = f.dwCurrentIndex /\ i.dwWrittenPast = f.dwWrittenPast
            /\ f.dwBytesWritten \in Nat /\ f.dwCurrentIndex \in Nat /\ f.dwWrittenPast \in 0 .. 2
            /\ f.type = "Array"
BY DEF ArrayFrame

LEMMA OwesAnArray ==
  ASSUME NEW f, f.type = "Array", NEW i, NEW c, NEW t
  PROVE  Owes(f, i, c, t) <=> t \in Text /\ OwesArray(f, c, t)
BY DEF Owes

LEMMA OneByte ==
  ASSUME TypeOK, NEW a \in Answer(1)
  PROVE  /\ a.taken \in 0 .. 1 /\ a.e \in {"Ok", "UserError"}
         /\ a.e = "Ok" => a.taken = 1
         /\ a.e # "Ok" /\ client.failure # "late" => a.taken = 0
<1>1. 0 .. 1 - 1 = {0} /\ 1 .. 1 = {1}
  OBVIOUS
<1>2. \/ a \in [taken : {1}, e : {"Ok"}]
      \/ a \in [taken : CASE client.failure = "never" -> {}
                          [] client.failure = "early" -> {0}
                          [] client.failure = "late"  -> 0 .. 1, e : {"UserError"}]
  BY <1>1 DEF Answer
<1>3. client.failure \in {"never", "early", "late"}
  BY WriterAssumption DEF TypeOK, Nobody
<1> QED
  BY <1>2, <1>3

LEMMA ListBegins ==
  ASSUME NEW x \in Seq(Text), NEW b \in Nat, NEW past \in 0 .. 2, NEW j \in Nat, NEW t,
         ListOwed(x, b, past, j, t)
  PROVE  /\ b < 1 => /\ past = 0 /\ j = 0 /\ t = <<LBracket>> \o Closed(x, 0, RBracket)
                     /\ ListOwed(x, 1, past, j, Closed(x, 0, RBracket))
         /\ b >= 1 => \A m \in Nat : m >= 1 => ListOwed(x, m, past, j, t)
         /\ b >= 1 => j <= Len(x)
         /\ j = Len(x) => b < 1 \/ t = <<RBracket>>
<1>1. Len(x) \in Nat /\ RBracket \in Int
  <2>1. RBracket \in Octet
    BY ByteSet
  <2> QED
    BY <2>1, LenProperties DEF Octet
<1> DEFINE A == <<LBracket>> \o Closed(x, 0, RBracket)
           B == Closed(x, j, RBracket)
           C == x[j + 1] \o Closed(x, j + 1, RBracket)
           Z == Closed(x, 0, RBracket)
<1>2. \A m, u : ListOwed(x, m, past, j, u) <=>
                  \/ m = 0 /\ past = 0 /\ j = 0 /\ u = A
                  \/ m > 0 /\ past = 0 /\ j <= Len(x) /\ u = B
                  \/ m > 0 /\ past > 0 /\ j > 0 /\ j < Len(x) /\ u = C
  BY DEF ListOwed
<1>3. j = 0 => B = Z
  OBVIOUS
<1>4. j = Len(x) => B = <<RBracket>>
  <2>1. j <= Len(x) => (j = Len(x) => B = <<RBracket>>)
    BY <1>1, ClosedIs
  <2> QED
    BY <1>1, <2>1
<1> HIDE DEF A, B, C
<1>5. CASE b = 0
  <2> HIDE DEF Z
  <2>1. past = 0 /\ j = 0 /\ t = A /\ ~(b >= 1)
    BY <1>2, <1>5
  <2>2. ListOwed(x, 1, past, j, Z)
    BY <1>1, <1>2, <1>3, <2>1
  <2> QED
    BY <1>1, <1>3, <1>5, <2>1, <2>2 DEF A, Z
<1>6. CASE b # 0
  <2>1. b >= 1 /\ b > 0 /\ ~(b < 1)
    BY <1>6
  <2>2. \A m \in Nat : m >= 1 => ListOwed(x, m, past, j, t)
    BY <1>2, <2>1
  <2>3. j = Len(x) => t = <<RBracket>>
    BY <1>1, <1>2, <1>4, <2>1
  <2>4. j <= Len(x)
    BY <1>1, <1>2, <2>1
  <2> QED
    BY <2>1, <2>2, <2>3, <2>4
<1> QED
  BY <1>5, <1>6

(* An array whose next element is n: what is owed is that element, behind a  *)
(* comma unless it is the first or the comma is written, and then u.         *)
ListNext(x, b, past, j, t, n, u) ==
  /\ u \in Text /\ x[n] \in Text /\ x[n] \o u \in Text
  /\ ListOwed(x, b, 0, n, u)
  /\ j = 0 \/ past > 0 => t = x[n] \o u
  /\ \A m \in Nat : past > 0 /\ m > 0 => ListOwed(x, b, m, j, t)
  /\ j > 0 /\ past = 0 => t = <<Comma>> \o (x[n] \o u) /\ ListOwed(x, b, 1, j, x[n] \o u)

LEMMA ListGoesOn ==
  ASSUME NEW x \in Seq(Text), NEW b \in Nat, NEW past \in 0 .. 2, NEW j \in Nat, NEW t,
         ListOwed(x, b, past, j, t), b >= 1, j < Len(x),
         NEW n, n = j + 1, NEW u, u = Closed(x, n, RBracket)
  PROVE  ListNext(x, b, past, j, t, n, u)
<1>1. Len(x) \in Nat /\ RBracket \in Int
  <2>1. RBracket \in Octet
    BY ByteSet
  <2> QED
    BY <2>1, LenProperties DEF Octet
<1> DEFINE A == <<LBracket>> \o Closed(x, 0, RBracket)
           B == Closed(x, j, RBracket)
           C == x[n] \o u
<1>2. \A p, w : ListOwed(x, b, p, j, w) <=>
                  \/ b = 0 /\ p = 0 /\ j = 0 /\ w = A
                  \/ b > 0 /\ p = 0 /\ j <= Len(x) /\ w = B
                  \/ b > 0 /\ p > 0 /\ j > 0 /\ j < Len(x) /\ w = C
  BY DEF ListOwed
<1>3. n \in Nat /\ n <= Len(x) /\ j <= Len(x) /\ n \in 1 .. Len(x) /\ b > 0 /\ b # 0
  BY <1>1
<1>4. B = IF j = 0 THEN C ELSE <<Comma>> \o C
  BY <1>1, <1>3, ClosedIs
<1>5. u \in Text /\ x[n] \in Text
  BY <1>1, <1>3, ClosedIs, ElementOfSeq
<1>6. C \in Text
  BY <1>5, Concat
<1>7. ListOwed(x, b, 0, n, u)
  BY <1>3 DEF ListOwed
<1> HIDE DEF A, B, C
<1>8. /\ j = 0 \/ past > 0 => t = C
      /\ j > 0 /\ past = 0 => t = <<Comma>> \o C
  BY <1>2, <1>3, <1>4
<1>9. \A m \in Nat : past > 0 /\ m > 0 => ListOwed(x, b, m, j, t)
  BY <1>2, <1>3
<1>10. j > 0 /\ past = 0 => ListOwed(x, b, 1, j, C)
  BY <1>2, <1>3
<1> QED
  BY <1>5, <1>6, <1>7, <1>8, <1>9, <1>10 DEF C, ListNext

LEMMA ArrayHeaderAdvances ==
  ASSUME TextInv, Array_Header, NEW t, Owes(Top, Place, client, t)
  PROVE  Advances(t)
<1>1. SerInv /\ TypeOK /\ Handling("Array") /\ Running
  BY DEF TextInv, SerInv, Array_Header, Handling
<1>2. Top \in ArrayFrame /\ Top.type = "Array" /\ at # "behind"
  BY <1>1, ArrayTop, Outside DEF InTrailer
<1> DEFINE b == Top.dwBytesWritten
           past == Top.dwWrittenPast
           j == Top.dwCurrentIndex
           text == IF b < 1 THEN <<LBracket>> ELSE <<Blank>>
           x == ElementTexts(DocText, Top.lpArray)
           g(k) == [Top EXCEPT !.dwBytesWritten = @ + k]
<1>3. \E k \in 0 .. 1 : Wrote(text, k, g(k))
  <2>1. Write(text, g)
    BY DEF Array_Header, CountBytes
  <2>2. Len(text) = 1
    OBVIOUS
  <2> HIDE DEF text, g
  <2> QED
    BY <1>1, <2>1, <2>2, OneByte DEF Write, Wrote
<1>4. PICK k \in 0 .. 1 : Wrote(text, k, g(k))
  BY <1>3
<1>5. /\ g(k).type = "Array" /\ g(k).lpArray = Top.lpArray
      /\ g(k).dwBytesWritten = b + k /\ g(k).dwCurrentIndex = j /\ g(k).dwWrittenPast = past
  BY <1>2, ArrayFields
<1>6. b \in Nat /\ past \in 0 .. 2 /\ j \in Nat
  BY <1>2, ArrayFields
<1>7. t \in Text /\ client.failure # "late" /\ ListOwed(x, b, past, j, t)
  BY <1>2, OwesAnArray DEF OwesArray
<1>8. x \in Seq(Text) /\ Len(x) \in Nat
  BY <1>1, ArrayTexts
<1> HIDE DEF g
<1>9. \A u \in Text : ListOwed(x, b + k, past, j, u) => Owes(g(k), Place, client, u)
  BY <1>5, <1>7, OwesAnArray DEF OwesArray
<1> DEFINE u == Closed(x, 0, RBracket)
<1> HIDE DEF x
<1>10. u \in Text
  <2>1. RBracket \in Octet
    BY ByteSet
  <2>2. RBracket \in Int /\ 0 \in Nat /\ 0 <= Len(x)
    BY <1>8, <2>1 DEF Octet
  <2> QED
    BY <1>8, <2>2, ClosedIs
<1> HIDE DEF b, past, j
<1>11. CASE b < 1
  <2>1. t = <<LBracket>> \o u /\ b = 0 /\ text = <<LBracket>> /\ ListOwed(x, 1, past, j, u)
    BY <1>6, <1>7, <1>8, <1>11, ListBegins
  <2> HIDE DEF u, text
  <2>2. ListOwed(x, b + k, past, j, IF k = 0 THEN t ELSE u)
    BY <1>7, <2>1
  <2>3. Owes(g(k), Place, client, IF k = 0 THEN t ELSE u)
    BY <1>7, <1>9, <1>10, <2>2
  <2>4. Wrote(<<LBracket>>, k, g(k)) /\ LBracket \in Octet
    BY <1>4, <2>1, ByteSet
  <2> QED
    BY <1>1, <1>2, <1>7, <1>10, <2>1, <2>3, <2>4, ByteAdvances
<1>12. CASE ~(b < 1)
  <2>1. text = <<Blank>> /\ b >= 1 /\ b + k \in Nat /\ b + k >= 1
    BY <1>6, <1>12
  <2> HIDE DEF text
  <2>2. ListOwed(x, b + k, past, j, t)
    BY <1>6, <1>7, <1>8, <2>1, ListBegins
  <2> QED
    BY <1>1, <1>2, <1>4, <1>7, <1>9, <2>1, <2>2, BlankAdvances
<1> QED
  BY <1>11, <1>12

-----------------------------------------------------------------------------
(* The steps of an array: its separator, its elements and its bracket. *)
LEMMA ArraySeparatorAdvances ==
  ASSUME TextInv, Array_Separator, NEW t, Owes(Top, Place, client, t)
  PROVE  Advances(t)
<1>1. SerInv /\ TypeOK /\ Handling("Array") /\ Running
  BY DEF TextInv, SerInv, Array_Separator, Handling
<1>2. Top \in ArrayFrame /\ Top.type = "Array" /\ at # "behind"
  BY <1>1, ArrayTop, Outside DEF InTrailer
<1> DEFINE b == Top.dwBytesWritten
           past == Top.dwWrittenPast
           j == Top.dwCurrentIndex
           text == IF past = 0 THEN <<Comma>> ELSE <<Blank>>
           x == ElementTexts(DocText, Top.lpArray)
           g(k) == [Top EXCEPT !.dwWrittenPast = @ + k]
<1>3. \E k \in 0 .. 1 : Wrote(text, k, g(k))
  <2>1. Write(text, g)
    BY DEF Array_Separator
  <2>2. Len(text) = 1
    OBVIOUS
  <2> HIDE DEF text, g
  <2> QED
    BY <1>1, <2>1, <2>2, OneByte DEF Write, Wrote
<1>4. PICK k \in 0 .. 1 : Wrote(text, k, g(k))
  BY <1>3
<1>5. /\ g(k).type = "Array" /\ g(k).lpArray = Top.lpArray
      /\ g(k).dwBytesWritten = b /\ g(k).dwCurrentIndex = j /\ g(k).dwWrittenPast = past + k
  BY <1>2, ArrayFields
<1>6. b \in Nat /\ past \in 0 .. 2 /\ j \in Nat
  BY <1>2, ArrayFields
<1>7. t \in Text /\ client.failure # "late" /\ ListOwed(x, b, past, j, t)
  BY <1>2, OwesAnArray DEF OwesArray
<1>8. x \in Seq(Text) /\ Len(x) \in Nat /\ Len(x) = Len(Elements(Top))
  BY <1>1, ArrayTexts
<1>9. b >= 1 /\ j < Len(x) /\ j > 0
  BY <1>6, <1>8 DEF Array_Separator, HeaderDone, HasNext, SeparatorDone
<1> HIDE DEF g
<1>10. \A u \in Text : ListOwed(x, b, past + k, j, u) => Owes(g(k), Place, client, u)
  BY <1>5, <1>7, OwesAnArray DEF OwesArray
<1> HIDE DEF x, b, past, j
<1>11. CASE past = 0
  <2> DEFINE n == j + 1
             u == Closed(x, n, RBracket)
             w == x[n] \o u
  <2>1. w \in Text /\ t = <<Comma>> \o w /\ ListOwed(x, b, 1, j, w)
    <3>1. n = j + 1 /\ u = Closed(x, n, RBracket)
      OBVIOUS
    <3> HIDE DEF n, u
    <3>2. ListNext(x, b, past, j, t, n, u)
      BY <1>6, <1>7, <1>8, <1>9, <3>1, ListGoesOn
    <3> QED
      BY <1>9, <1>11, <3>2 DEF ListNext
  <2>2. text = <<Comma>>
    BY <1>11
  <2> HIDE DEF w, text
  <2>3. ListOwed(x, b, past + k, j, IF k = 0 THEN t ELSE w)
    BY <1>7, <1>11, <2>1
  <2>4. Owes(g(k), Place, client, IF k = 0 THEN t ELSE w)
    BY <1>7, <1>10, <2>1, <2>3
  <2>5. Wrote(<<Comma>>, k, g(k)) /\ Comma \in Octet
    BY <1>4, <2>2, ByteSet
  <2> QED
    BY <1>1, <1>2, <1>7, <2>1, <2>4, <2>5, ByteAdvances
<1>12. CASE past # 0
  <2> DEFINE m == past + k
  <2>1. text = <<Blank>> /\ past > 0 /\ m \in Nat /\ m > 0
    BY <1>6, <1>12
  <2> HIDE DEF text
  <2>2. ListOwed(x, b, past + k, j, t)
    <3> HIDE DEF m
    <3>1. ListNext(x, b, past, j, t, j + 1, Closed(x, j + 1, RBracket))
      BY <1>6, <1>7, <1>8, <1>9, ListGoesOn
    <3>2. ListOwed(x, b, m, j, t)
      BY <2>1, <3>1 DEF ListNext
    <3> QED
      BY <3>2 DEF m
  <2> QED
    BY <1>1, <1>2, <1>4, <1>7, <1>10, <2>1, <2>2, BlankAdvances
<1> QED
  BY <1>11, <1>12

LEMMA ArrayElementAdvances ==
  ASSUME WritableDocuments, TextInv, Array_Element, NEW t, Owes(Top, Place, client, t)
  PROVE  Advances(t)
<1>1. SerInv /\ TypeOK /\ Handling("Array") /\ Running
  BY DEF TextInv, SerInv, Array_Element, Handling
<1>2. Top \in ArrayFrame /\ Top.type = "Array" /\ at # "behind"
  BY <1>1, ArrayTop, Outside DEF InTrailer
<1> DEFINE b == Top.dwBytesWritten
           past == Top.dwWrittenPast
           j == Top.dwCurrentIndex
           x == ElementTexts(DocText, Top.lpArray)
           f(k) == [Top EXCEPT !.dwWrittenIndent = @ + k]
           h == NewFrame(Elements(Top)[Top.dwCurrentIndex + 1], Fresh)
<1>3. PICK k \in 0 .. 1 : \/ Covered(ArrayNext(f(k)), h)
                          \/ \E e \in {"OutOfMemory", "UserError"} : Refused(f(k), e)
  <2>2. ASSUME NEW a \in Answer(1) PROVE a.taken \in 0 .. 1 /\ a.e \in {"Ok", "UserError"}
    BY <1>1, AnswerRange
  <2>3. PICK a : /\ a \in Answer(1) \/ a = [taken |-> 0, e |-> "Ok"]
                 /\ \/ a.e = "Ok" /\ Covered(ArrayNext(f(a.taken)), h)
                    \/ a.e = "Ok" /\ Refused(f(a.taken), "OutOfMemory")
                    \/ a.e # "Ok" /\ Refused(f(a.taken), a.e)
    BY DEF Array_Element, PushAbove, Covered, Refused
  <2> HIDE DEF f, h
  <2> QED
    BY <2>2, <2>3
<1>4. /\ f(k).type = "Array" /\ f(k).lpArray = Top.lpArray
      /\ f(k).dwBytesWritten = b /\ f(k).dwCurrentIndex = j /\ f(k).dwWrittenPast = past
      /\ f(k) \in ArrayFrame
  <2>1. k \in Nat
    OBVIOUS
  <2>2. f(k) \in ArrayFrame
    BY <1>2, <2>1, ArrayCounts
  <2> QED
    BY <1>2, <2>1, <2>2, ArrayFields
<1>5. b \in Nat /\ past \in 0 .. 2 /\ j \in Nat
  BY <1>2, ArrayFields
<1>6. t \in Text /\ client.failure # "late" /\ ListOwed(x, b, past, j, t)
  BY <1>2, OwesAnArray DEF OwesArray
<1>7. /\ x \in Seq(Text) /\ Len(x) \in Nat /\ Len(x) = Len(Elements(Top))
      /\ \A i \in 1 .. Len(x) : Elements(Top)[i] \in Node /\ x[i] = DocText[Elements(Top)[i]]
  BY <1>1, ArrayTexts
<1>8. b >= 1 /\ j < Len(x) /\ (j = 0 \/ past > 0)
  BY <1>5, <1>7 DEF Array_Element, HeaderDone, HasNext, SeparatorDone
<1> HIDE DEF f
<1>9. CASE Covered(ArrayNext(f(k)), h)
  <2> DEFINE g == ArrayNext(f(k))
             n == j + 1
             u == Closed(x, n, RBracket)
             v == x[n]
  <2>1. /\ g.type = "Array" /\ g.lpArray = Top.lpArray /\ g.dwBytesWritten = b
        /\ g.dwCurrentIndex = n /\ g.dwWrittenPast = 0
    BY <1>4 DEF ArrayNext, ArrayFrame
  <2>2. g \in Frame
    BY <1>4, ArrayCounts DEF Frame
  <2>3. u \in Text /\ ListOwed(x, b, 0, n, u) /\ t = v \o u
    <3> HIDE DEF x, b, j, past
    <3>1. n = j + 1 /\ u = Closed(x, n, RBracket)
      OBVIOUS
    <3> HIDE DEF n, u
    <3>2. ListNext(x, b, past, j, t, n, u)
      BY <1>5, <1>6, <1>7, <1>8, <3>1, ListGoesOn
    <3> QED
      BY <1>8, <3>2 DEF ListNext
  <2>4. Owes(g, Place, client, u)
    <3> HIDE DEF g, u, v, n
    <3> QED
      BY <1>6, <2>1, <2>3, OwesAnArray DEF OwesArray
  <2>5. Owes(h, Place + 1, client, v)
    <3>1. n \in 1 .. Len(x)
      BY <1>5, <1>7, <1>8
    <3>2. Elements(Top)[n] \in Node /\ v = DocText[Elements(Top)[n]]
      BY <1>7, <3>1
    <3> HIDE DEF v
    <3> QED
      BY <1>6, <3>2, NewFrameOwes
  <2>6. Covered(g, h)
    BY <1>9
  <2> HIDE DEF g, h, u, v
  <2> QED
    BY <1>2, <2>2, <2>3, <2>4, <2>5, <2>6, CoveredAdvances
<1>10. CASE \E e \in {"OutOfMemory", "UserError"} : Refused(f(k), e)
  <2>1. Owes(f(k), Place, client, t)
    BY <1>4, <1>6, OwesAnArray DEF OwesArray
  <2>2. "OutOfMemory" # "Running" /\ "UserError" # "Running"
    OBVIOUS
  <2> QED
    BY <1>1, <1>10, <2>1, <2>2, RefusedAdvances
<1> QED
  BY <1>3, <1>9, <1>10

LEMMA ArrayTrailerAdvances ==
  ASSUME TextInv, Array_Trailer, NEW t, Owes(Top, Place, client, t)
  PROVE  Advances(t)
<1>1. SerInv /\ TypeOK /\ Handling("Array") /\ Running
  BY DEF TextInv, SerInv, Array_Trailer, Handling
<1>2. Top \in ArrayFrame /\ Top.type = "Array" /\ at # "behind"
  BY <1>1, ArrayTop, Outside DEF InTrailer
<1> DEFINE b == Top.dwBytesWritten
           past == Top.dwWrittenPast
           j == Top.dwCurrentIndex
           x == ElementTexts(DocText, Top.lpArray)
           g(k) == [Top EXCEPT !.dwBytesWritten = @ + k]
<1>3. b \in Nat /\ past \in 0 .. 2 /\ j \in Nat
  BY <1>2, ArrayFields
<1>4. t \in Text /\ client.failure # "late" /\ ListOwed(x, b, past, j, t)
  BY <1>2, OwesAnArray DEF OwesArray
<1>5. x \in Seq(Text) /\ Len(x) \in Nat /\ Len(x) = Len(Elements(Top))
  BY <1>1, ArrayTexts
<1>6. b >= 1 /\ ~(j < Len(x))
  BY <1>3, <1>5 DEF Array_Trailer, HeaderDone, HasNext
<1>7. t = <<RBracket>>
  <2> HIDE DEF b, past, j, x
  <2>1. j = Len(x)
    BY <1>3, <1>4, <1>5, <1>6, ListBegins
  <2> QED
    BY <1>3, <1>4, <1>5, <1>6, <2>1, ListBegins
<1>8. \/ \E k \in 0 .. 1 : Wrote(<<Blank>>, k, g(k))
      \/ WroteLast(<<RBracket>>, 1)
      \/ Wrote(<<RBracket>>, 0, g(0))
  <2>1. Write(<<Blank>>, g) \/ WriteLast(<<RBracket>>, g)
    BY DEF Array_Trailer, CountBytes
  <2>2. Len(<<Blank>>) = 1 /\ Len(<<RBracket>>) = 1
    OBVIOUS
  <2> HIDE DEF g
  <2>3. CASE Write(<<Blank>>, g)
    BY <1>1, <2>2, <2>3, OneByte DEF Write, Wrote
  <2>4. CASE WriteLast(<<RBracket>>, g)
    BY <1>1, <1>4, <2>2, <2>4, OneByte DEF WriteLast, Wrote, WroteLast
  <2> QED
    BY <2>1, <2>3, <2>4
<1>9. ASSUME NEW k \in 0 .. 1 PROVE Owes(g(k), Place, client, t)
  <2>1. /\ g(k).type = "Array" /\ g(k).lpArray = Top.lpArray
        /\ g(k).dwBytesWritten = b + k /\ g(k).dwCurrentIndex = j /\ g(k).dwWrittenPast = past
    BY <1>2, ArrayFields
  <2> HIDE DEF g
  <2>2. ListOwed(x, b + k, past, j, t)
    <3> HIDE DEF b, past, j, x
    <3>1. b + k \in Nat /\ b + k >= 1
      BY <1>3, <1>6
    <3> QED
      BY <1>3, <1>4, <1>5, <1>6, <3>1, ListBegins
  <2> QED
    BY <1>4, <2>1, <2>2, OwesAnArray DEF OwesArray
<1> HIDE DEF g
<1>10. CASE \E k \in 0 .. 1 : Wrote(<<Blank>>, k, g(k))
  BY <1>1, <1>2, <1>9, <1>10, BlankAdvances
<1>11. CASE WroteLast(<<RBracket>>, 1)
  <2>1. Visible(<<RBracket>>, 1) = t
    BY <1>7, ByteSet, VisibleIs
  <2> QED
    BY <1>11, <2>1, PopAdvances
<1>12. CASE Wrote(<<RBracket>>, 0, g(0))
  <2>1. Visible(<<RBracket>>, 0) = << >> /\ << >> \in Text /\ t = << >> \o t
    BY <1>4, ByteSet, VisibleIs, Concat
  <2>2. Owes(g(0), Place, client, t)
    BY <1>9
  <2> QED
    BY <1>1, <1>2, <1>4, <1>12, <2>1, <2>2, WroteAdvances
<1> QED
  BY <1>8, <1>10, <1>11, <1>12

-----------------------------------------------------------------------------
(* Objects. *)
LEMMA BraceInt == RBrace \in Int /\ RBrace \in Octet /\ <<RBrace>> \in Text
BY ByteSet DEF RBrace, Octet, Text

LEMMA ClosedStart ==
  ASSUME NEW x \in Seq(Text), NEW c \in Int
  PROVE  /\ Closed(x, 0, c) \in Text
         /\ Len(x) = 0 => Closed(x, 0, c) = <<c>>
         /\ Len(x) # 0 => Closed(x, 0, c) = x[1] \o Closed(x, 1, c)
<1> DEFINE j == 0
<1>1. j \in Nat /\ Len(x) \in Nat /\ j <= Len(x) /\ j = 0 /\ j + 1 = 1
  BY LenProperties
<1>2. Len(x) # 0 => j < Len(x)
  BY <1>1
<1> HIDE DEF j
<1>3. /\ Closed(x, j, c) \in Text
      /\ j = Len(x) => Closed(x, j, c) = <<c>>
      /\ j < Len(x) /\ j = 0 => Closed(x, j, c) = x[j + 1] \o Closed(x, j + 1, c)
  BY <1>1, ClosedIs
<1> QED
  BY <1>1, <1>2, <1>3

LEMMA MembersOwed ==
  ASSUME SerInv, Handling("Object"), NEW x, x = MemberTexts(DocText, Top.lpObject)
  PROVE  /\ x \in Seq(Text) /\ Len(x) = Len(Members(Top)) /\ Len(x) \in Nat
         /\ \A i \in 1 .. Len(x) : x[i] = MemberText(DocText, Members(Top)[i])
<1> DEFINE n == Top.lpObject
<1>1. n \in Node /\ Tree[n].type = "Object" /\ Members(Top) = Tree[n].members
  BY ObjectTop DEF ObjectFrame, SoundObject, Members
<1> HIDE DEF n
<1>2. \A m \in Inside(n) : DocText[m] \in Text
  BY <1>1, InsideIs, DocTextType
<1>3. /\ x \in Seq(Text) /\ Len(x) = Len(Members(Top))
      /\ \A i \in 1 .. Len(Members(Top)) : x[i] = MemberText(DocText, Members(Top)[i])
  BY <1>1, <1>2, MemberTextsType DEF n
<1> QED
  BY <1>3, LenProperties

LEMMA ObjectOwes ==
  ASSUME NEW f, f.type = "Object", NEW i, NEW c, NEW t
  PROVE  Owes(f, i, c, t) <=> t \in Text /\ OwesObject(f, i, c, t)
BY DEF Owes

(* What an object that is the top owes, and what one like it would owe. *)
LEMMA ObjectOwing ==
  ASSUME TextInv, Handling("Object"), NEW t, Owes(Top, Place, client, t),
         NEW x, x = MemberTexts(DocText, Top.lpObject)
  PROVE  /\ SerInv /\ TypeOK /\ Running
         /\ x \in Seq(Text) /\ Len(x) \in Nat /\ t \in Text
         /\ client.failure = "late" => Arrayless(Top.lpObject)
         /\ Top.dwBytesWritten \in Nat /\ Top.lpCurrentBucketEntry \in Nat /\ IndentDepth \in Nat
         /\ Top.state = "Header" => HeaderOwed(x, Top.dwBytesWritten, t)
         /\ Top.state = "Key" =>
              /\ KeyOwed(x, Top.lpCurrentBucketEntry, Top.dwBytesWritten, IndentDepth,
                         DocText[Member(Top).value], t)
              /\ Top.lpCurrentBucketEntry \in 1 .. Len(x)
         /\ Top.state = "Value" =>
              /\ ValueOwed(x, Top.lpCurrentBucketEntry, Top.dwBytesWritten, t)
              /\ Top.lpCurrentBucketEntry <= Len(x)
              /\ Top.dwBytesWritten = 0 => Top.lpCurrentBucketEntry # 0
<1>1. SerInv /\ TypeOK /\ Running
  BY DEF TextInv, SerInv, Handling
<1>2. /\ Top \in ObjectFrame /\ Top.type = "Object" /\ SoundObject(Top, Place, pretty)
      /\ IndentDepth = Depth(Place, client.pretty) /\ IndentDepth \in Nat
  BY <1>1, ObjectTop DEF pretty
<1>3. x \in Seq(Text) /\ Len(x) = Len(Members(Top)) /\ Len(x) \in Nat
  BY <1>1, MembersOwed
<1>4. t \in Text /\ OwesObject(Top, Place, client, t)
  BY <1>2, ObjectOwes
<1>5. Top.dwBytesWritten \in Nat /\ Top.lpCurrentBucketEntry \in Nat
  BY <1>2 DEF ObjectFrame
<1>6. /\ client.failure = "late" => Arrayless(Top.lpObject)
      /\ Top.state = "Header" => HeaderOwed(x, Top.dwBytesWritten, t)
      /\ Top.state = "Key" => KeyOwed(x, Top.lpCurrentBucketEntry, Top.dwBytesWritten,
                                      IndentDepth, DocText[Member(Top).value], t)
      /\ Top.state = "Value" => ValueOwed(x, Top.lpCurrentBucketEntry, Top.dwBytesWritten, t)
  BY <1>2, <1>4 DEF OwesObject
<1>7. /\ Top.state = "Key" => Top.lpCurrentBucketEntry \in 1 .. Len(x)
      /\ Top.state = "Value" => /\ Top.lpCurrentBucketEntry <= Len(x)
                                /\ Top.dwBytesWritten = 0 => Top.lpCurrentBucketEntry # 0
  BY <1>2, <1>3 DEF SoundObject
<1> QED
  BY <1>1, <1>2, <1>3, <1>4, <1>5, <1>6, <1>7

LEMMA ObjectWould ==
  ASSUME SerInv, Handling("Object"), client.failure = "late" => Arrayless(Top.lpObject),
         NEW x, x = MemberTexts(DocText, Top.lpObject), NEW u \in Text,
         NEW g, g.type = "Object", g.lpObject = Top.lpObject,
         g.state = "Header" => HeaderOwed(x, g.dwBytesWritten, u),
         g.state = "Key" => KeyOwed(x, g.lpCurrentBucketEntry, g.dwBytesWritten, IndentDepth,
                                    DocText[Members(Top)[g.lpCurrentBucketEntry].value], u),
         g.state = "Value" => ValueOwed(x, g.lpCurrentBucketEntry, g.dwBytesWritten, u),
         g.state = "Trailer" => u \in {<<RBrace>>, << >>}
  PROVE  Owes(g, Place, client, u)
<1>1. IndentDepth = Depth(Place, client.pretty)
  BY ObjectTop DEF pretty
<1>2. Member(g) = Members(Top)[g.lpCurrentBucketEntry]
  BY DEF Member, Members
<1>3. OwesObject(g, Place, client, u)
  BY <1>1, <1>2 DEF OwesObject
<1> QED
  BY <1>3, ObjectOwes

LEMMA CountFields ==
  ASSUME SerInv, Handling("Object"), NEW k \in 0 .. 1
  PROVE  /\ CountBytes(k).type = "Object" /\ CountBytes(k).lpObject = Top.lpObject
         /\ CountBytes(k).dwBytesWritten = Top.dwBytesWritten + k
         /\ CountBytes(k).state = Top.state
         /\ CountBytes(k).lpCurrentBucketEntry = Top.lpCurrentBucketEntry
<1>1. k \in Nat
  OBVIOUS
<1> QED
  BY <1>1, ObjectTop, ObjectCounts DEF SameObject

LEMMA CountedByte ==
  ASSUME TypeOK, NEW text, Len(text) = 1,
         \E a \in Answer(Len(text)) :
           /\ out' = out \o Visible(text, a.taken) /\ lpTopOfStack' = SetTop(CountBytes(a.taken))
           /\ IF a.e = "Ok" THEN UNCHANGED <<at, status>> ELSE Return(a.e)
           /\ Fixed /\ UNCHANGED heap
  PROVE  \E k \in 0 .. 1 : Wrote(text, k, CountBytes(k))
BY OneByte DEF Wrote

LEMMA ObjectHeaderAdvances ==
  ASSUME TextInv, Object_Header, NEW t, Owes(Top, Place, client, t)
  PROVE  Advances(t)
<1>1. Handling("Object") /\ Top.state = "Header" /\ at # "behind"
  BY Outside DEF Object_Header, InState, InTrailer
<1> DEFINE b == Top.dwBytesWritten
           text == IF b < 1 THEN <<LBrace>> ELSE <<Blank>>
           x == MemberTexts(DocText, Top.lpObject)
           u == Closed(x, 0, RBrace)
<1>2. /\ SerInv /\ TypeOK /\ Running /\ x \in Seq(Text) /\ Len(x) \in Nat /\ t \in Text
      /\ client.failure = "late" => Arrayless(Top.lpObject)
      /\ b \in Nat /\ HeaderOwed(x, b, t)
  BY <1>1, ObjectOwing
<1>3. PICK k \in 0 .. 1 : Wrote(text, k, CountBytes(k))
  <2>1. Len(text) = 1
    OBVIOUS
  <2> HIDE DEF text
  <2> QED
    BY <1>2, <2>1, CountedByte DEF Object_Header, Write, text
<1>4. /\ CountBytes(k).type = "Object" /\ CountBytes(k).lpObject = Top.lpObject
      /\ CountBytes(k).dwBytesWritten = b + k /\ CountBytes(k).state = "Header"
  BY <1>1, <1>2, CountFields
<1> DEFINE g == CountBytes(k)
<1>5. \A v \in Text : HeaderOwed(x, b + k, v) => Owes(g, Place, client, v)
  <2> HIDE DEF g
  <2> QED
    BY <1>1, <1>2, <1>4, ObjectWould DEF g
<1>6. u \in Text
  BY <1>2, BraceInt, ClosedStart
<1> HIDE DEF g, x, b, u
<1>7. CASE b = 0
  <2>1. t = <<LBrace>> \o u /\ text = <<LBrace>>
    BY <1>2, <1>7 DEF HeaderOwed, u
  <2>2. HeaderOwed(x, b + k, IF k = 0 THEN t ELSE u)
    <3>1. b + k = 0 <=> k = 0
      BY <1>2, <1>7
    <3> QED
      BY <1>2, <1>7, <3>1 DEF HeaderOwed, u
  <2> HIDE DEF text
  <2>3. Owes(g, Place, client, IF k = 0 THEN t ELSE u)
    BY <1>2, <1>5, <1>6, <2>2
  <2>4. Wrote(<<LBrace>>, k, g) /\ LBrace \in Octet
    BY <1>3, <2>1, ByteSet DEF g
  <2> QED
    BY <1>1, <1>2, <1>6, <2>1, <2>3, <2>4, ByteAdvances
<1>8. CASE b # 0
  <2>1. text = <<Blank>> /\ b + k # 0
    BY <1>2, <1>8
  <2> HIDE DEF text
  <2>2. HeaderOwed(x, b + k, t)
    BY <1>2, <1>8, <2>1 DEF HeaderOwed
  <2>3. Owes(g, Place, client, t) /\ Wrote(<<Blank>>, k, g)
    BY <1>2, <1>3, <1>5, <2>1, <2>2 DEF g
  <2> QED
    BY <1>1, <1>2, <2>3, BlankAdvances
<1> QED
  BY <1>7, <1>8

LEMMA ObjectSelectAdvances ==
  ASSUME TextInv, Object_Select, NEW t, Owes(Top, Place, client, t)
  PROVE  Advances(t)
<1>1. Handling("Object") /\ Top.state = "Header" /\ at # "behind"
  BY Outside DEF Object_Select, InState, InTrailer
<1> DEFINE b == Top.dwBytesWritten
           x == MemberTexts(DocText, Top.lpObject)
           z == [Top EXCEPT !.state = "Trailer", !.dwBytesWritten = 0]
           g == [Top EXCEPT !.state = "Key", !.dwBytesWritten = 0,
                            !.lpTempString = Null, !.lpCurrentBucketEntry = 1]
<1>2. /\ SerInv /\ TypeOK /\ Running /\ x \in Seq(Text) /\ Len(x) \in Nat /\ t \in Text
      /\ client.failure = "late" => Arrayless(Top.lpObject)
      /\ b \in Nat /\ HeaderOwed(x, b, t) /\ IndentDepth \in Nat
  BY <1>1, ObjectOwing
<1>3. b >= 1
  BY <1>2 DEF Object_Select, HeaderDone
<1>4. t = Closed(x, 0, RBrace)
  BY <1>3 , <1>2 DEF HeaderOwed
<1>5. \/ Members(Top) = << >> /\ GoOn(z)
      \/ Members(Top) # << >> /\ GoOn(g)
  <2>1. CASE Members(Top) = << >>
    BY <2>1 DEF Object_Select
  <2>2. CASE Members(Top) # << >>
    BY <2>2 DEF Object_Select
  <2> QED
    BY <2>1, <2>2
<1>6. Len(x) = Len(Members(Top))
  BY <1>1, <1>2, MembersOwed
<1>7. CASE Members(Top) = << >> /\ GoOn(z)
  <2>1. Len(x) = 0
    BY <1>6, <1>7
  <2>2. t = <<RBrace>>
    <3> HIDE DEF x
    <3> QED
      BY <1>2, <1>4, <2>1, BraceInt, ClosedStart
  <2>3. z.type = "Object" /\ z.lpObject = Top.lpObject /\ z.state = "Trailer"
    BY <1>1, <1>2, ObjectTop DEF ObjectFrame
  <2> HIDE DEF z
  <2>4. Owes(z, Place, client, t)
    BY <1>1, <1>2, <2>2, <2>3, ObjectWould
  <2> QED
    BY <1>1, <1>2, <1>7, <2>4, GoOnAdvances
<1>8. CASE Members(Top) # << >> /\ GoOn(g)
  <2>1. 0 < Len(x)
    <3>1. Len(Members(Top)) # 0
      BY <1>1, <1>2, <1>8, ObjectTop, EmptySeq
    <3> QED
      BY <1>2, <1>6, <3>1
  <2>2. t = x[1] \o Closed(x, 1, RBrace)
    <3> HIDE DEF x
    <3>1. Len(x) # 0
      BY <1>2, <2>1
    <3> QED
      BY <1>2, <1>4, <3>1, BraceInt, ClosedStart
  <2>3. /\ g.type = "Object" /\ g.lpObject = Top.lpObject /\ g.state = "Key"
        /\ g.dwBytesWritten = 0 /\ g.lpCurrentBucketEntry = 1
    BY <1>1, <1>2, ObjectTop DEF ObjectFrame
  <2> HIDE DEF g, x
  <2>4. \A v : KeyOwed(x, 1, 0, IndentDepth, v, t)
    <3>1. 0 <= IndentDepth
      BY <1>2
    <3> QED
      BY <2>2, <3>1, Zenon DEF KeyOwed
  <2>5. Owes(g, Place, client, t)
    BY <1>1, <1>2, <2>3, <2>4, ObjectWould DEF x
  <2> QED
    BY <1>1, <1>2, <1>8, <2>5, GoOnAdvances
<1> QED
  BY <1>5, <1>7, <1>8

LEMMA ObjectIndentAdvances ==
  ASSUME TextInv, Object_Indent, NEW t, Owes(Top, Place, client, t)
  PROVE  Advances(t)
<1>1. Handling("Object") /\ Top.state = "Key" /\ at # "behind"
  BY Outside DEF Object_Indent, InState, InTrailer
<1> DEFINE b == Top.dwBytesWritten
           e == Top.lpCurrentBucketEntry
           x == MemberTexts(DocText, Top.lpObject)
           value == DocText[Members(Top)[e].value]
<1>2. /\ SerInv /\ TypeOK /\ Running /\ x \in Seq(Text) /\ Len(x) \in Nat /\ t \in Text
      /\ client.failure = "late" => Arrayless(Top.lpObject)
      /\ b \in Nat /\ IndentDepth \in Nat
      /\ KeyOwed(x, e, b, IndentDepth, value, t)
  BY <1>1, ObjectOwing DEF Member
<1>3. PICK k \in 0 .. 1 : Wrote(<<Blank>>, k, CountBytes(k))
  <2>1. Len(<<Blank>>) = 1
    OBVIOUS
  <2> QED
    BY <1>2, <2>1, CountedByte DEF Object_Indent, Write
<1>4. /\ CountBytes(k).type = "Object" /\ CountBytes(k).lpObject = Top.lpObject
      /\ CountBytes(k).dwBytesWritten = b + k /\ CountBytes(k).state = "Key"
      /\ CountBytes(k).lpCurrentBucketEntry = e
  BY <1>1, <1>2, CountFields
<1> DEFINE g == CountBytes(k)
<1>5. b < IndentDepth
  BY DEF Object_Indent
<1>6. KeyOwed(x, e, b + k, IndentDepth, value, t)
  <2> HIDE DEF x, b, e, value
  <2>1. b <= IndentDepth /\ b + k <= IndentDepth
    BY <1>2, <1>5
  <2>2. b # IndentDepth + 1 /\ b # IndentDepth + 2 /\ b # IndentDepth + 3
    BY <1>2, <1>5
  <2>3. t = x[e] \o Closed(x, e, RBrace)
    BY <1>2, <2>2 DEF KeyOwed
  <2> QED
    BY <2>1, <2>3 DEF KeyOwed
<1>7. Owes(g, Place, client, t)
  <2> HIDE DEF g
  <2> QED
    BY <1>1, <1>2, <1>4, <1>6, ObjectWould DEF g
<1> QED
  BY <1>1, <1>2, <1>3, <1>7, BlankAdvances

(* An object in state Key: at each count of bytes, what is written next and  *)
(* what is owed after it; R is what follows the value.                       *)
KeyNext(x, e, b, d, value, t, R) ==
  /\ b <= d => t = x[e] \o R /\ KeyOwed(x, e, d + 1, d, value, <<Colon>> \o (value \o R))
  /\ b = d + 1 => KeyOwed(x, e, d + 2, d, value, t)
  /\ b = d + 2 => t = <<Colon>> \o (value \o R) /\ KeyOwed(x, e, d + 3, d, value, value \o R)
  /\ b = d + 3 => t = value \o R

LEMMA KeyCases ==
  ASSUME NEW x, NEW e, NEW b \in Nat, NEW d \in Nat, NEW value, NEW t, KeyOwed(x, e, b, d, value, t),
         NEW R, R = Closed(x, e, RBrace)
  PROVE  KeyNext(x, e, b, d, value, t, R)
<1> DEFINE A == x[e] \o R
           B == <<Colon>> \o (value \o R)
           C == value \o R
<1>1. \A m, u : KeyOwed(x, e, m, d, value, u) <=>
                  \/ m <= d /\ u = A
                  \/ m \in {d + 1, d + 2} /\ u = B
                  \/ m = d + 3 /\ u = C
  BY DEF KeyOwed
<1> HIDE DEF A, B, C
<1>2. /\ b <= d => t = A
      /\ b = d + 1 => KeyOwed(x, e, d + 2, d, value, t)
      /\ b = d + 2 => t = B
      /\ b = d + 3 => t = C
      /\ KeyOwed(x, e, d + 3, d, value, C)
      /\ KeyOwed(x, e, d + 1, d, value, B)
  BY <1>1
<1> QED
  BY <1>2 DEF A, B, C, KeyNext

LEMMA KeyWritable ==
  ASSUME WritableDocuments, NEW n \in Node, Tree[n].type = "Object",
         NEW i \in 1 .. Len(Tree[n].members)
  PROVE  EndsInNoCharacter(Tree[n].members[i].key)
<1>1. Tree[n].members[i] \in ToSet(Tree[n].members)
  <2>1. Tree[n].members \in Seq([key : StringValue, value : Node])
    BY InsideIs
  <2> QED
    BY <2>1 DEF ToSet
<1>2. Tree[n].members[i].key \in {m.key : m \in ToSet(Tree[n].members)}
  BY <1>1
<1>3. Tree[n].members[i].key \in Strings
  <2> DEFINE keys(m) == {k.key : k \in ToSet(Tree[m].members)}
             objects == {m \in Node : Tree[m].type = "Object"}
  <2>1. n \in objects
    OBVIOUS
  <2>2. keys(n) \in {keys(m) : m \in objects}
    BY <2>1
  <2>3. Tree[n].members[i].key \in UNION {keys(m) : m \in objects}
    BY <1>2, <2>2
  <2> QED
    BY <2>3, Zenon DEF Strings
<1> QED
  BY <1>3 DEF WritableDocuments

(* The entry an object is at. *)
LEMMA MemberOwes ==
  ASSUME WritableDocuments, SerInv, Handling("Object"), Top.state = "Key",
         client.failure = "late" => Arrayless(Top.lpObject),
         NEW x, x = MemberTexts(DocText, Top.lpObject), NEW e, e = Top.lpCurrentBucketEntry,
         NEW value, value = DocText[Member(Top).value]
  PROVE  /\ value \in Text /\ Closed(x, e, RBrace) \in Text
         /\ <<Colon>> \o (value \o Closed(x, e, RBrace)) \in Text
         /\ value \o Closed(x, e, RBrace) \in Text
         /\ x[e] \o Closed(x, e, RBrace) =
              StringText(Member(Top).key) \o (<<Colon>> \o (value \o Closed(x, e, RBrace)))
         /\ \A b, tmp : Owes(NewString(b, tmp, Bytes(Member(Top).key)), Place + 1, client,
                             StringText(Member(Top).key))
         /\ \A b : Owes(NewFrame(Member(Top).value, b), Place + 1, client, value)
<1> DEFINE n == Top.lpObject
           M == Members(Top)
           K == StringText(M[e].key)
           R == Closed(x, e, RBrace)
<1>1. /\ n \in Node /\ Tree[n].type = "Object" /\ M = Tree[n].members /\ e \in 1 .. Len(M)
  BY ObjectTop DEF ObjectFrame, SoundObject, Members
<1>2. /\ x \in Seq(Text) /\ Len(x) = Len(M) /\ Len(x) \in Nat /\ x[e] = MemberText(DocText, M[e])
  BY <1>1, MembersOwed
<1>3. Member(Top) = M[e]
  BY DEF Member
<1>4. M[e].value \in Inside(n) /\ M[e].key \in StringValue /\ Inside(n) \subseteq Node
  <2>1. Tree[n].members \in Seq([key : StringValue, value : Node])
    BY <1>1, InsideIs
  <2>2. e \in DOMAIN Tree[n].members
    BY <1>1, <2>1
  <2> QED
    BY <1>1, <2>2, InsideIs
<1>5. K \in Text /\ value \in Text
  BY <1>3, <1>4, StringTextType, DocTextType
<1>6. R \in Text
  <2>1. e \in Nat /\ e <= Len(x)
    BY <1>1, <1>2
  <2> QED
    BY <1>2, <2>1, BraceInt, ClosedIs
<1>7. EndsInNoCharacter(M[e].key)
  BY <1>1, KeyWritable
<1>8. x[e] = K \o <<Colon>> \o value
  BY <1>2, <1>3 DEF MemberText
<1>9. \A b, tmp : Owes(NewString(b, tmp, Bytes(M[e].key)), Place + 1, client, K)
  BY <1>4, <1>7, NewStringOwes
<1>10. \A b : Owes(NewFrame(M[e].value, b), Place + 1, client, value)
  <2>1. M[e].value \in Node /\ (client.failure = "late" => Arrayless(M[e].value))
    BY <1>1, <1>4, ArraylessInside
  <2> HIDE DEF M
  <2> QED
    BY <1>3, <2>1, NewFrameOwes
<1>11. <<Colon>> \in Text
  BY ByteSet
<1> HIDE DEF n, M, K, R
<1>12. value \o R \in Text /\ <<Colon>> \o (value \o R) \in Text
  <2>1. value \o R \in Text
    BY <1>5, <1>6, Concat, SMTT(30)
  <2> QED
    BY <1>11, <2>1, Concat
<1>13. x[e] \o R = K \o (<<Colon>> \o (value \o R))
  <2> DEFINE c == <<Colon>>
  <2>1. c \in Text /\ x[e] = (K \o c) \o value
    BY <1>8, <1>11
  <2> HIDE DEF c
  <2>2. K \o c \in Text
    BY <1>5, <2>1, Concat
  <2>3. ((K \o c) \o value) \o R = (K \o c) \o (value \o R)
    BY <1>5, <1>6, <2>2, Assoc
  <2>4. (K \o c) \o (value \o R) = K \o (c \o (value \o R))
    <3> DEFINE w == value \o R
    <3>1. w \in Text
      BY <1>12
    <3> HIDE DEF w
    <3>2. (K \o c) \o w = K \o (c \o w)
      BY <1>5, <2>1, <3>1, Assoc
    <3> QED
      BY <3>2 DEF w
  <2> QED
    BY <2>1, <2>3, <2>4 DEF c
<1> QED
  BY <1>3, <1>5, <1>6, <1>9, <1>10, <1>12, <1>13, Zenon DEF M, K, R

LEMMA KeyWould ==
  ASSUME SerInv, Handling("Object"), client.failure = "late" => Arrayless(Top.lpObject),
         NEW u \in Text, NEW g, g.type = "Object", g.lpObject = Top.lpObject, g.state = "Key",
         g.lpCurrentBucketEntry = Top.lpCurrentBucketEntry,
         KeyOwed(MemberTexts(DocText, Top.lpObject), Top.lpCurrentBucketEntry, g.dwBytesWritten,
                 IndentDepth, DocText[Member(Top).value], u)
  PROVE  Owes(g, Place, client, u)
<1>1. Member(Top) = Members(Top)[g.lpCurrentBucketEntry]
  BY DEF Member
<1> QED
  BY <1>1, ObjectWould

LEMMA ObjectCreateKeyAdvances ==
  ASSUME TextInv, Object_CreateKey, NEW t, Owes(Top, Place, client, t)
  PROVE  Advances(t)
<1>1. Handling("Object") /\ Top.state = "Key" /\ at # "behind"
  BY Outside DEF Object_CreateKey, InState, InTrailer
<1> DEFINE b == Top.dwBytesWritten
           e == Top.lpCurrentBucketEntry
           x == MemberTexts(DocText, Top.lpObject)
           value == DocText[Member(Top).value]
           g == [Top EXCEPT !.lpTempString = Fresh]
<1>2. /\ SerInv /\ TypeOK /\ Running /\ x \in Seq(Text) /\ Len(x) \in Nat /\ t \in Text
      /\ client.failure = "late" => Arrayless(Top.lpObject)
      /\ b \in Nat /\ IndentDepth \in Nat
      /\ KeyOwed(x, e, b, IndentDepth, value, t)
  BY <1>1, ObjectOwing
<1>3. \/ lpTopOfStack' = SetTop(g) /\ Fixed /\ UNCHANGED <<at, status, out>>
      \/ Fail("OutOfMemory")
  BY DEF Object_CreateKey
<1>4. CASE lpTopOfStack' = SetTop(g) /\ Fixed /\ UNCHANGED <<at, status, out>>
  <2>1. /\ g.type = "Object" /\ g.lpObject = Top.lpObject /\ g.state = "Key"
        /\ g.lpCurrentBucketEntry = e /\ g.dwBytesWritten = b
    BY <1>1, <1>2, ObjectTop DEF ObjectFrame
  <2> HIDE DEF g
  <2>2. Owes(g, Place, client, t)
    BY <1>1, <1>2, <2>1, KeyWould
  <2> QED
    BY <1>1, <1>2, <1>4, <2>2, SetAdvances
<1>5. CASE Fail("OutOfMemory")
  BY <1>2, <1>5, StayAdvances DEF Fail, Return
<1> QED
  BY <1>3, <1>4, <1>5

LEMMA ObjectReleaseKeyAdvances ==
  ASSUME TextInv, Object_ReleaseKey, NEW t, Owes(Top, Place, client, t)
  PROVE  Advances(t)
<1>1. Handling("Object") /\ Top.state = "Key" /\ at # "behind"
  BY Outside DEF Object_ReleaseKey, InState, InTrailer
<1> DEFINE b == Top.dwBytesWritten
           e == Top.lpCurrentBucketEntry
           x == MemberTexts(DocText, Top.lpObject)
           value == DocText[Member(Top).value]
           f == CountBytes(1)
           g == ForgetTemp(f)
<1>2. /\ SerInv /\ TypeOK /\ Running /\ x \in Seq(Text) /\ Len(x) \in Nat /\ t \in Text
      /\ client.failure = "late" => Arrayless(Top.lpObject)
      /\ b \in Nat /\ IndentDepth \in Nat
      /\ KeyOwed(x, e, b, IndentDepth, value, t)
  BY <1>1, ObjectOwing
<1>3. /\ b = IndentDepth + 1 /\ lpTopOfStack' = SetTop(g) /\ Fixed
      /\ UNCHANGED <<at, status, out>>
  BY DEF Object_ReleaseKey
<1>4. /\ f.type = "Object" /\ f.lpObject = Top.lpObject /\ f.dwBytesWritten = b + 1
      /\ f.state = "Key" /\ f.lpCurrentBucketEntry = e
  BY <1>1, <1>2, CountFields
<1>5. f \in ObjectFrame
  BY <1>1, <1>2, ObjectCounts
<1> HIDE DEF f
<1>6. /\ g.type = "Object" /\ g.lpObject = Top.lpObject /\ g.dwBytesWritten = b + 1
      /\ g.state = "Key" /\ g.lpCurrentBucketEntry = e
  BY <1>4, <1>5 DEF ForgetTemp, ObjectFrame
<1> HIDE DEF g
<1>7. KeyOwed(x, e, g.dwBytesWritten, IndentDepth, value, t)
  <2> DEFINE m == b + 1
  <2>1. m = IndentDepth + 2 /\ g.dwBytesWritten = m
    BY <1>2, <1>3, <1>6
  <2> HIDE DEF m, b, e, x, value
  <2>2. KeyOwed(x, e, IndentDepth + 2, IndentDepth, value, t)
    <3>1. KeyNext(x, e, b, IndentDepth, value, t, Closed(x, e, RBrace))
      BY <1>2, KeyCases
    <3> QED
      BY <1>3, <3>1 DEF KeyNext
  <2> QED
    BY <2>1, <2>2
<1>8. Owes(g, Place, client, t)
  BY <1>1, <1>2, <1>6, <1>7, KeyWould
<1> QED
  BY <1>1, <1>2, <1>3, <1>8, SetAdvances

LEMMA ObjectColonAdvances ==
  ASSUME WritableDocuments, TextInv, Object_Colon, NEW t, Owes(Top, Place, client, t)
  PROVE  Advances(t)
<1>1. Handling("Object") /\ Top.state = "Key" /\ at # "behind"
  BY Outside DEF Object_Colon, InState, InTrailer
<1> DEFINE b == Top.dwBytesWritten
           e == Top.lpCurrentBucketEntry
           x == MemberTexts(DocText, Top.lpObject)
           value == DocText[Member(Top).value]
           u == value \o Closed(x, e, RBrace)
<1>2. /\ SerInv /\ TypeOK /\ Running /\ x \in Seq(Text) /\ Len(x) \in Nat /\ t \in Text
      /\ client.failure = "late" => Arrayless(Top.lpObject)
      /\ b \in Nat /\ IndentDepth \in Nat
      /\ KeyOwed(x, e, b, IndentDepth, value, t)
  BY <1>1, ObjectOwing
<1>3. PICK k \in 0 .. 1 : Wrote(<<Colon>>, k, CountBytes(k))
  <2>1. Len(<<Colon>>) = 1
    OBVIOUS
  <2> QED
    BY <1>2, <2>1, CountedByte DEF Object_Colon, Write
<1>4. b = IndentDepth + 2
  BY DEF Object_Colon
<1> DEFINE g == CountBytes(k)
<1>5. /\ g.type = "Object" /\ g.lpObject = Top.lpObject /\ g.dwBytesWritten = b + k
      /\ g.state = "Key" /\ g.lpCurrentBucketEntry = e
  BY <1>1, <1>2, CountFields
<1>6. u \in Text
  BY <1>1, <1>2, MemberOwes
<1> HIDE DEF g
<1>7. /\ t = <<Colon>> \o u
      /\ KeyOwed(x, e, g.dwBytesWritten, IndentDepth, value, IF k = 0 THEN t ELSE u)
  <2>1. /\ k = 0 => g.dwBytesWritten = b
        /\ k = 1 => g.dwBytesWritten = IndentDepth + 3
    BY <1>2, <1>4, <1>5
  <2> HIDE DEF b, e, x, value
  <2> DEFINE R == Closed(x, e, RBrace)
  <2>2. t = <<Colon>> \o (value \o R) /\ KeyOwed(x, e, IndentDepth + 3, IndentDepth, value, value \o R)
    <3>1. R = Closed(x, e, RBrace) /\ KeyOwed(x, e, b, IndentDepth, value, t)
      BY <1>2
    <3>2. b \in Nat /\ IndentDepth \in Nat
      BY <1>2
    <3> HIDE DEF R
    <3>3. KeyNext(x, e, b, IndentDepth, value, t, R)
      BY <3>1, <3>2, KeyCases
    <3> QED
      BY <1>4, <3>3 DEF KeyNext
  <2>3. t = <<Colon>> \o u /\ KeyOwed(x, e, IndentDepth + 3, IndentDepth, value, u)
    BY <2>2
  <2>4. KeyOwed(x, e, b, IndentDepth, value, t)
    BY <1>2
  <2> HIDE DEF u, R
  <2>5. CASE k = 0
    BY <2>1, <2>3, <2>4, <2>5
  <2>6. CASE k = 1
    BY <2>1, <2>3, <2>6
  <2> QED
    BY <1>3, <2>5, <2>6
<1> HIDE DEF u
<1>8. Owes(g, Place, client, IF k = 0 THEN t ELSE u)
  <2>1. (IF k = 0 THEN t ELSE u) \in Text
    BY <1>2, <1>6
  <2> QED
    BY <1>1, <1>2, <1>5, <1>7, <2>1, KeyWould
<1> QED
  BY <1>1, <1>2, <1>3, <1>6, <1>7, <1>8, ByteSet, ByteAdvances DEF g

LEMMA ObjectPushKeyAdvances ==
  ASSUME WritableDocuments, TextInv, Object_PushKey, NEW t, Owes(Top, Place, client, t)
  PROVE  Advances(t)
<1>1. Handling("Object") /\ Top.state = "Key" /\ at # "behind"
  BY Outside DEF Object_PushKey, InState, InTrailer
<1> DEFINE b == Top.dwBytesWritten
           e == Top.lpCurrentBucketEntry
           x == MemberTexts(DocText, Top.lpObject)
           value == DocText[Member(Top).value]
           u == <<Colon>> \o (value \o Closed(x, e, RBrace))
           v == StringText(Member(Top).key)
           g == CountBytes(1)
           h == NewString(Fresh, Top.lpTempString, Bytes(Member(Top).key))
<1>2. /\ SerInv /\ TypeOK /\ Running /\ x \in Seq(Text) /\ Len(x) \in Nat /\ t \in Text
      /\ client.failure = "late" => Arrayless(Top.lpObject)
      /\ b \in Nat /\ IndentDepth \in Nat
      /\ KeyOwed(x, e, b, IndentDepth, value, t)
  BY <1>1, ObjectOwing
<1>3. b = IndentDepth /\ (Covered(g, h) \/ Refused(Top, "OutOfMemory"))
  BY DEF Object_PushKey, PushAbove, Covered, Refused
<1>4. /\ u \in Text /\ x[e] \o Closed(x, e, RBrace) = v \o u
      /\ Owes(h, Place + 1, client, v)
  BY <1>1, <1>2, MemberOwes
<1>5. /\ g.type = "Object" /\ g.lpObject = Top.lpObject /\ g.dwBytesWritten = b + 1
      /\ g.state = "Key" /\ g.lpCurrentBucketEntry = e
  BY <1>1, <1>2, CountFields
<1>6. g \in Frame
  <2>1. g \in ObjectFrame
    BY <1>1, <1>2, ObjectCounts
  <2> QED
    BY <2>1 DEF Frame
<1> HIDE DEF g, h
<1>7. t = v \o u /\ KeyOwed(x, e, g.dwBytesWritten, IndentDepth, value, u)
  <2>1. g.dwBytesWritten = IndentDepth + 1 /\ b <= IndentDepth
    BY <1>2, <1>3, <1>5
  <2> HIDE DEF b, e, x, value, v
  <2> DEFINE R == Closed(x, e, RBrace)
  <2>2. /\ t = x[e] \o R
        /\ KeyOwed(x, e, IndentDepth + 1, IndentDepth, value, <<Colon>> \o (value \o R))
    <3>1. R = Closed(x, e, RBrace) /\ KeyOwed(x, e, b, IndentDepth, value, t)
      BY <1>2
    <3>2. b \in Nat /\ IndentDepth \in Nat
      BY <1>2
    <3> HIDE DEF R
    <3>3. KeyNext(x, e, b, IndentDepth, value, t, R)
      BY <3>1, <3>2, KeyCases
    <3> QED
      BY <2>1, <3>3 DEF KeyNext
  <2> QED
    BY <1>4, <2>1, <2>2
<1> HIDE DEF u, v
<1>8. CASE Covered(g, h)
  <2>1. Owes(g, Place, client, u)
    BY <1>1, <1>2, <1>4, <1>5, <1>7, KeyWould
  <2> QED
    BY <1>1, <1>4, <1>6, <1>7, <1>8, <2>1, CoveredAdvances
<1>9. CASE Refused(Top, "OutOfMemory")
  BY <1>2, <1>9, RefusedAdvances
<1> QED
  BY <1>3, <1>8, <1>9

(* An object in state Value: the next entry is found, then the comma before  *)
(* it is written, then the entry is serialized.                              *)
ValueNext(x, e, b, t) ==
  /\ b = 0 /\ e < Len(x) => ValueOwed(x, e + 1, 1, t)
  /\ b = 0 /\ e = Len(x) => ValueOwed(x, 0, 1, t)
  /\ b = 1 /\ e # 0 => \E u \in Text : t = <<Comma>> \o u /\ ValueOwed(x, e, 2, u)
  /\ b >= 2 /\ e # 0 => /\ t = x[e] \o Closed(x, e, RBrace)
                        /\ \A m \in Nat : m >= 2 => ValueOwed(x, e, m, t)
  /\ b >= 1 /\ e = 0 => t = <<RBrace>> /\ \A m \in Nat : m >= 1 => ValueOwed(x, e, m, t)

LEMMA ValueCases ==
  ASSUME NEW x \in Seq(Text), NEW e \in Nat, e <= Len(x), NEW b \in Nat, b = 0 => e # 0, NEW t,
         ValueOwed(x, e, b, t)
  PROVE  ValueNext(x, e, b, t)
<1>1. Len(x) \in Nat
  BY LenProperties
<1> DEFINE C(k) == Closed(x, k, RBrace)
           F == <<RBrace>>
           A == x[e] \o C(e)
<1>2. \A m, u : ValueOwed(x, e, m, u) <=>
                  \/ m = 0 /\ u = C(e)
                  \/ m = 1 /\ e > 1 /\ u = C(e - 1)
                  \/ m >= 2 /\ e # 0 /\ u = A
                  \/ m >= 1 /\ e = 0 /\ u = F
  BY DEF ValueOwed
<1>3. e = Len(x) => C(e) = F
  BY BraceInt, ClosedIs
<1>4. CASE b = 0
  <2>1. t = C(e) /\ e # 0
    BY <1>2, <1>4
  <2> DEFINE n == e + 1
  <2>2. n > 1 /\ n - 1 = e
    BY <2>1
  <2> HIDE DEF n
  <2>3. ValueOwed(x, n, 1, t)
    <3>1. t = C(n - 1)
      BY <2>1, <2>2
    <3> QED
      BY <2>2, <3>1, Zenon DEF ValueOwed, C
  <2> HIDE DEF C, F
  <2>4. e = Len(x) => ValueOwed(x, 0, 1, t)
    <3> SUFFICES ASSUME e = Len(x) PROVE ValueOwed(x, 0, 1, t)
      OBVIOUS
    <3>1. t = F /\ 1 >= 1
      BY <1>3, <2>1
    <3> QED
      BY <3>1, Zenon DEF ValueOwed, F
  <2>5. ~(b = 1) /\ ~(b >= 2) /\ ~(b >= 1)
    BY <1>4
  <2> QED
    BY <2>3, <2>4, <2>5, Zenon DEF ValueNext, n
<1>5. CASE b # 0 /\ e = 0
  <2> HIDE DEF C, F, A
  <2>1. t = F /\ \A m \in Nat : m >= 1 => ValueOwed(x, e, m, t)
    BY <1>2, <1>5
  <2> QED
    BY <1>5, <2>1, Zenon DEF ValueNext, F
<1>6. CASE b >= 2 /\ e # 0
  <2> HIDE DEF C, F, A
  <2>1. t = A /\ \A m \in Nat : m >= 2 => ValueOwed(x, e, m, t)
    BY <1>2, <1>6
  <2>2. ~(b = 0) /\ ~(b = 1)
    BY <1>6
  <2> QED
    BY <1>6, <2>1, <2>2, Zenon DEF ValueNext, A, C
<1>7. CASE b = 1 /\ e # 0
  <2> DEFINE j == e - 1
  <2>1. j \in Nat /\ j <= Len(x) /\ j < Len(x) /\ j # 0 /\ j + 1 = e
    <3> HIDE DEF C, A, F
    <3> QED
      BY <1>1, <1>2, <1>7
  <2>2. t = C(j)
    <3> HIDE DEF C, A, F
    <3> QED
      BY <1>2, <1>7
  <2> HIDE DEF j
  <2>3. C(j) = <<Comma>> \o (x[j + 1] \o C(j + 1))
    BY <2>1, BraceInt, ClosedIs
  <2>4. t = <<Comma>> \o A
    <3> HIDE DEF C
    <3> QED
      BY <2>1, <2>2, <2>3
  <2>5. A \in Text
    <3>1. C(e) \in Text
      BY BraceInt, ClosedIs
    <3>2. x[e] \in Text
      BY <1>1, <1>7, ElementOfSeq
    <3> HIDE DEF C
    <3> QED
      BY <3>1, <3>2, Concat
  <2> HIDE DEF C, F, A
  <2>6. ValueOwed(x, e, 2, A)
    BY <1>2, <1>7
  <2>7. ~(b = 0) /\ ~(b >= 2)
    BY <1>7
  <2> QED
    BY <1>7, <2>4, <2>5, <2>6, <2>7, Zenon DEF ValueNext
<1> QED
  BY <1>4, <1>5, <1>6, <1>7

LEMMA ValueWould ==
  ASSUME SerInv, Handling("Object"), client.failure = "late" => Arrayless(Top.lpObject),
         NEW u \in Text, NEW g, g.type = "Object", g.lpObject = Top.lpObject, g.state = "Value",
         ValueOwed(MemberTexts(DocText, Top.lpObject), g.lpCurrentBucketEntry,
                   g.dwBytesWritten, u)
  PROVE  Owes(g, Place, client, u)
BY ObjectWould

LEMMA ObjectPushMemberAdvances ==
  ASSUME WritableDocuments, TextInv, Object_PushMember, NEW t, Owes(Top, Place, client, t)
  PROVE  Advances(t)
<1>1. Handling("Object") /\ Top.state = "Key" /\ at # "behind"
  BY Outside DEF Object_PushMember, InState, InTrailer
<1> DEFINE b == Top.dwBytesWritten
           e == Top.lpCurrentBucketEntry
           x == MemberTexts(DocText, Top.lpObject)
           value == DocText[Member(Top).value]
           u == Closed(x, e, RBrace)
           g == [Top EXCEPT !.state = "Value", !.dwBytesWritten = 0]
           h == NewFrame(Member(Top).value, Fresh)
<1>2. /\ SerInv /\ TypeOK /\ Running /\ x \in Seq(Text) /\ Len(x) \in Nat /\ t \in Text
      /\ client.failure = "late" => Arrayless(Top.lpObject)
      /\ b \in Nat /\ IndentDepth \in Nat
      /\ KeyOwed(x, e, b, IndentDepth, value, t)
  BY <1>1, ObjectOwing
<1>3. b = IndentDepth + 3 /\ (Covered(g, h) \/ Refused(Top, "OutOfMemory"))
  BY DEF Object_PushMember, PushAbove, Covered, Refused
<1>4. u \in Text /\ Owes(h, Place + 1, client, value)
  BY <1>1, <1>2, MemberOwes
<1>5. /\ g.type = "Object" /\ g.lpObject = Top.lpObject /\ g.dwBytesWritten = 0
      /\ g.state = "Value" /\ g.lpCurrentBucketEntry = e /\ g \in Frame
  BY <1>1, <1>2, ObjectTop DEF ObjectFrame, Frame
<1> HIDE DEF g, h
<1>6. t = value \o u
  <2> HIDE DEF b, e, x, value, u
  <2>1. KeyNext(x, e, b, IndentDepth, value, t, u)
    BY <1>2, KeyCases DEF u
  <2> QED
    BY <1>3, <2>1 DEF KeyNext
<1>7. Owes(g, Place, client, u)
  <2>1. ValueOwed(x, e, 0, u)
    BY Zenon DEF ValueOwed
  <2> HIDE DEF u
  <2> QED
    BY <1>1, <1>2, <1>4, <1>5, <2>1, ValueWould
<1>8. CASE Covered(g, h)
  <2> HIDE DEF u, value
  <2> QED
    BY <1>1, <1>4, <1>5, <1>6, <1>7, <1>8, CoveredAdvances
<1>9. CASE Refused(Top, "OutOfMemory")
  BY <1>2, <1>9, RefusedAdvances
<1> QED
  BY <1>3, <1>8, <1>9

(* What an object owes whose value has been written. *)
LEMMA ValueOwing ==
  ASSUME TextInv, InState("Value"), NEW t, Owes(Top, Place, client, t),
         NEW x, x = MemberTexts(DocText, Top.lpObject), NEW e, e = Top.lpCurrentBucketEntry,
         NEW b, b = Top.dwBytesWritten
  PROVE  /\ SerInv /\ TypeOK /\ Running /\ Handling("Object") /\ Top.state = "Value"
         /\ at # "behind" /\ x \in Seq(Text) /\ Len(x) = Len(Members(Top)) /\ Len(x) \in Nat
         /\ t \in Text /\ b \in Nat /\ e \in Nat /\ e <= Len(x) /\ (b = 0 => e # 0)
         /\ client.failure = "late" => Arrayless(Top.lpObject)
         /\ ValueNext(x, e, b, t) /\ Top \in ObjectFrame
<1>1. Handling("Object") /\ Top.state = "Value" /\ at # "behind"
  BY Outside DEF InState, InTrailer
<1>2. /\ SerInv /\ TypeOK /\ Running /\ x \in Seq(Text) /\ Len(x) \in Nat /\ t \in Text
      /\ client.failure = "late" => Arrayless(Top.lpObject)
      /\ b \in Nat /\ e \in Nat /\ e <= Len(x) /\ (b = 0 => e # 0) /\ ValueOwed(x, e, b, t)
  BY <1>1, ObjectOwing
<1>3. ValueNext(x, e, b, t)
  BY <1>2, ValueCases
<1>4. Len(x) = Len(Members(Top)) /\ Top \in ObjectFrame
  BY <1>1, <1>2, MembersOwed, ObjectTop
<1> QED
  BY <1>1, <1>2, <1>3, <1>4

LEMMA ObjectNextEntryAdvances ==
  ASSUME TextInv, Object_NextEntry, NEW t, Owes(Top, Place, client, t)
  PROVE  Advances(t)
<1> DEFINE b == Top.dwBytesWritten
           e == Top.lpCurrentBucketEntry
           x == MemberTexts(DocText, Top.lpObject)
           g == Advanced(Top)
<1>1. InState("Value") /\ b = 0 /\ GoOn(g)
  BY DEF Object_NextEntry
<1>2. /\ SerInv /\ TypeOK /\ Running /\ Handling("Object") /\ Top.state = "Value"
      /\ at # "behind" /\ x \in Seq(Text) /\ Len(x) = Len(Members(Top)) /\ Len(x) \in Nat
      /\ t \in Text /\ e \in Nat /\ e <= Len(x)
      /\ client.failure = "late" => Arrayless(Top.lpObject)
      /\ ValueNext(x, e, b, t) /\ Top \in ObjectFrame
  <2> HIDE DEF b, e, x
  <2> QED
    BY <1>1, ValueOwing DEF b, e, x
<1>3. /\ g.type = "Object" /\ g.lpObject = Top.lpObject /\ g.dwBytesWritten = 1
      /\ g.state = "Value" /\ g.lpCurrentBucketEntry = IF e < Len(x) THEN e + 1 ELSE 0
  BY <1>2 DEF ObjectFrame, Advanced, EntryAfter
<1> HIDE DEF g
<1>4. ValueOwed(x, g.lpCurrentBucketEntry, 1, t)
  <2> HIDE DEF b, e, x
  <2>1. CASE e < Len(x)
    BY <1>1, <1>2, <1>3, <2>1 DEF ValueNext
  <2>2. CASE e = Len(x)
    BY <1>1, <1>2, <1>3, <2>2 DEF ValueNext
  <2> QED
    BY <1>2, <2>1, <2>2
<1>5. Owes(g, Place, client, t)
  BY <1>2, <1>3, <1>4, ValueWould
<1> QED
  BY <1>1, <1>2, <1>5, GoOnAdvances

LEMMA ObjectSeparatorAdvances ==
  ASSUME TextInv, Object_Separator, NEW t, Owes(Top, Place, client, t)
  PROVE  Advances(t)
<1> DEFINE b == Top.dwBytesWritten
           e == Top.lpCurrentBucketEntry
           x == MemberTexts(DocText, Top.lpObject)
           h == [Top EXCEPT !.state = "Key", !.dwBytesWritten = 0]
<1>1. InState("Value") /\ b > 0 /\ e # 0
  BY DEF Object_Separator
<1>2. /\ SerInv /\ TypeOK /\ Running /\ Handling("Object") /\ Top.state = "Value"
      /\ at # "behind" /\ x \in Seq(Text) /\ Len(x) = Len(Members(Top)) /\ Len(x) \in Nat
      /\ t \in Text /\ e \in Nat /\ e <= Len(x) /\ b \in Nat
      /\ client.failure = "late" => Arrayless(Top.lpObject)
      /\ ValueNext(x, e, b, t) /\ Top \in ObjectFrame
  <2> HIDE DEF b, e, x
  <2> QED
    BY <1>1, ValueOwing DEF b, e, x
<1>3. \/ b = 1 /\ \E k \in 0 .. 1 : Wrote(<<Comma>>, k, CountBytes(k))
      \/ b = 2 /\ \E k \in 0 .. 1 : Wrote(<<Blank>>, k, CountBytes(k))
      \/ b >= 2 /\ GoOn(h)
  <2>1. CASE b < 2 /\ Write(<<Comma>>, CountBytes)
    <3>1. Len(<<Comma>>) = 1 /\ b = 1
      BY <1>1, <1>2, <2>1
    <3> QED
      BY <1>2, <2>1, <3>1, CountedByte DEF Write
  <2>2. CASE b = 2 /\ Write(<<Blank>>, CountBytes)
    <3>1. Len(<<Blank>>) = 1
      OBVIOUS
    <3> QED
      BY <1>2, <2>2, <3>1, CountedByte DEF Write
  <2>3. CASE b >= (IF pretty THEN 3 ELSE 2) /\ GoOn(h)
    <3>1. b >= 2
      BY <1>2, <2>3
    <3> QED
      BY <2>3, <3>1
  <2> QED
    BY <2>1, <2>2, <2>3 DEF Object_Separator
<1>4. ASSUME NEW k \in 0 .. 1, NEW v \in Text, ValueOwed(x, e, b + k, v)
      PROVE  Owes(CountBytes(k), Place, client, v)
  <2> DEFINE g == CountBytes(k)
  <2>1. /\ g.type = "Object" /\ g.lpObject = Top.lpObject /\ g.dwBytesWritten = b + k
        /\ g.state = "Value" /\ g.lpCurrentBucketEntry = e
    BY <1>2, CountFields
  <2> HIDE DEF g
  <2> QED
    BY <1>2, <1>4, <2>1, ValueWould DEF g
<1>5. CASE b = 1 /\ \E k \in 0 .. 1 : Wrote(<<Comma>>, k, CountBytes(k))
  <2>1. PICK k \in 0 .. 1 : Wrote(<<Comma>>, k, CountBytes(k))
    BY <1>5
  <2> HIDE DEF b, e, x
  <2>2. PICK u \in Text : t = <<Comma>> \o u /\ ValueOwed(x, e, 2, u)
    BY <1>1, <1>2, <1>5 DEF ValueNext
  <2> DEFINE g == CountBytes(k)
  <2> HIDE DEF g
  <2>3. CASE k = 0
    <3>1. ValueOwed(x, e, b + k, t)
      <4>1. b + k = b /\ b = Top.dwBytesWritten /\ e = Top.lpCurrentBucketEntry
        BY <1>2, <2>3 DEF b, e
      <4>2. ValueOwed(x, e, b, t)
        BY <1>2, ObjectOwing DEF b, e, x
      <4> QED
        BY <4>1, <4>2
    <3>2. Owes(g, Place, client, IF k = 0 THEN t ELSE u)
      BY <1>2, <1>4, <2>3, <3>1 DEF g
    <3> QED
      BY <1>2, <2>1, <2>2, <3>2, ByteSet, ByteAdvances DEF g
  <2>4. CASE k = 1
    <3>1. ValueOwed(x, e, b + k, u)
      <4>1. b + k = 2
        BY <1>5, <2>4
      <4> QED
        BY <2>2, <4>1
    <3>2. Owes(g, Place, client, IF k = 0 THEN t ELSE u)
      BY <1>2, <1>4, <2>4, <3>1 DEF g
    <3> QED
      BY <1>2, <2>1, <2>2, <3>2, ByteSet, ByteAdvances DEF g
  <2> QED
    BY <2>3, <2>4
<1>6. CASE b = 2 /\ \E k \in 0 .. 1 : Wrote(<<Blank>>, k, CountBytes(k))
  <2>1. PICK k \in 0 .. 1 : Wrote(<<Blank>>, k, CountBytes(k))
    BY <1>6
  <2> HIDE DEF b, e, x
  <2>2. ValueOwed(x, e, b + k, t)
    <3> DEFINE m == b + k
    <3>1. m \in Nat /\ m >= 2 /\ b >= 2
      BY <1>6
    <3> HIDE DEF m
    <3>2. ValueOwed(x, e, m, t)
      BY <1>1, <1>2, <3>1 DEF ValueNext
    <3> QED
      BY <3>2 DEF m
  <2> QED
    BY <1>2, <1>4, <2>1, <2>2, BlankAdvances
<1>7. CASE b >= 2 /\ GoOn(h)
  <2>1. /\ h.type = "Object" /\ h.lpObject = Top.lpObject /\ h.dwBytesWritten = 0
        /\ h.state = "Key" /\ h.lpCurrentBucketEntry = e
    BY <1>2 DEF ObjectFrame
  <2> HIDE DEF h, b, e, x
  <2>2. t = x[e] \o Closed(x, e, RBrace)
    BY <1>1, <1>2, <1>7 DEF ValueNext
  <2>3. \A v : KeyOwed(x, e, 0, IndentDepth, v, t)
    <3>1. 0 <= IndentDepth
      BY <1>2, ObjectTop
    <3> QED
      BY <2>2, <3>1, Zenon DEF KeyOwed
  <2>4. Owes(h, Place, client, t)
    BY <1>2, <2>1, <2>3, KeyWould DEF x, e
  <2> QED
    BY <1>2, <1>7, <2>4, GoOnAdvances
<1> QED
  BY <1>3, <1>5, <1>6, <1>7

LEMMA TrailerWould ==
  ASSUME SerInv, Handling("Object"), client.failure = "late" => Arrayless(Top.lpObject),
         NEW u, u \in {<<RBrace>>, << >>}, NEW g, g.type = "Object", g.lpObject = Top.lpObject,
         g.state = "Trailer"
  PROVE  Owes(g, Place, client, u)
<1>1. u \in Text
  BY BraceInt, Concat
<1> QED
  BY <1>1, ObjectWould

LEMMA ObjectLeaveAdvances ==
  ASSUME TextInv, Object_Leave, NEW t, Owes(Top, Place, client, t)
  PROVE  Advances(t)
<1> DEFINE b == Top.dwBytesWritten
           e == Top.lpCurrentBucketEntry
           x == MemberTexts(DocText, Top.lpObject)
           h == [Top EXCEPT !.state = "Trailer", !.dwBytesWritten = 0]
<1>1. InState("Value") /\ b > 0 /\ e = 0
  BY DEF Object_Leave
<1>2. /\ SerInv /\ TypeOK /\ Running /\ Handling("Object") /\ Top.state = "Value"
      /\ at # "behind" /\ t \in Text /\ b \in Nat /\ e \in Nat
      /\ client.failure = "late" => Arrayless(Top.lpObject)
  <2> HIDE DEF b, e
  <2> QED
    BY <1>1, ValueOwing DEF b, e
<1>3. ValueNext(x, e, b, t) /\ Top \in ObjectFrame
  <2> HIDE DEF b, e, x
  <2> QED
    BY <1>1, ValueOwing DEF b, e, x
<1>4. t = <<RBrace>> /\ \A m \in Nat : m >= 1 => ValueOwed(x, e, m, t)
  <2> HIDE DEF b, e, x
  <2> QED
    BY <1>1, <1>2, <1>3 DEF ValueNext
<1>5. \/ \E k \in 0 .. 1 : Wrote(<<Blank>>, k, CountBytes(k))
      \/ /\ lpTopOfStack' = SetTop(h) /\ at' = "behind"
         /\ Fixed /\ UNCHANGED <<status, heap, out>>
  <2>1. CASE Write(<<Blank>>, CountBytes)
    <3>1. Len(<<Blank>>) = 1
      OBVIOUS
    <3> QED
      BY <1>2, <2>1, <3>1, CountedByte DEF Write
  <2> QED
    BY <2>1 DEF Object_Leave
<1>6. CASE \E k \in 0 .. 1 : Wrote(<<Blank>>, k, CountBytes(k))
  <2>1. PICK k \in 0 .. 1 : Wrote(<<Blank>>, k, CountBytes(k))
    BY <1>6
  <2> DEFINE g == CountBytes(k)
             m == b + k
  <2>2. /\ g.type = "Object" /\ g.lpObject = Top.lpObject /\ g.dwBytesWritten = m
        /\ g.state = "Value" /\ g.lpCurrentBucketEntry = e
    BY <1>2, CountFields
  <2>3. m \in Nat /\ m >= 1
    BY <1>1, <1>2
  <2> HIDE DEF g, m
  <2>4. Owes(g, Place, client, t)
    BY <1>2, <1>4, <2>2, <2>3, ValueWould
  <2> QED
    BY <1>2, <2>1, <2>4, BlankAdvances DEF g
<1>7. CASE /\ lpTopOfStack' = SetTop(h) /\ at' = "behind"
           /\ Fixed /\ UNCHANGED <<status, heap, out>>
  <2>1. h.type = "Object" /\ h.lpObject = Top.lpObject /\ h.state = "Trailer"
    BY <1>3 DEF ObjectFrame
  <2> HIDE DEF h
  <2>2. Owes(h, Place, client, t)
    BY <1>2, <1>4, <2>1, TrailerWould
  <2> QED
    BY <1>2, <1>4, <1>7, <2>1, <2>2, SetAdvances DEF InTrailer
<1> QED
  BY <1>5, <1>6, <1>7

(* The loop is left for good: what is missing is the brace. *)
LEMMA ObjectTrailerAdvances ==
  ASSUME TextInv, Object_Trailer
  PROVE  Due(<<RBrace>>) /\ Advances(<<RBrace>>)
<1> DEFINE t == <<RBrace>>
<1>1. /\ SerInv /\ TypeOK /\ Running /\ Handling("Object") /\ Top.state = "Trailer"
      /\ at = "behind" /\ Due(t)
  BY DEF TextInv, SerInv, Object_Trailer, InState, Handling
<1>2. t \in Text /\ t = t \o << >> /\ t = << >> \o t /\ << >> \in Text
  BY BraceInt, Concat
<1>3. client.failure = "late" => Arrayless(Top.lpObject)
  <2>1. Owes(Top, Place, client, t) /\ Top.type = "Object"
    BY <1>1 DEF Due, Handling
  <2> HIDE DEF t
  <2> QED
    BY <2>1 DEF Owes, OwesObject
<1>4. ASSUME NEW k \in 0 .. 1, NEW u \in {t, << >>}
      PROVE  Owes(CountBytes(k), Place, client, u) /\ InTrailer(CountBytes(k))
  <2> DEFINE g == CountBytes(k)
  <2>1. g.type = "Object" /\ g.lpObject = Top.lpObject /\ g.state = "Trailer"
    BY <1>1, CountFields
  <2> HIDE DEF g
  <2> QED
    BY <1>1, <1>3, <1>4, <2>1, TrailerWould DEF InTrailer, g
<1>5. CASE Write(<<Blank>>, CountBytes)
  <2>1. Len(<<Blank>>) = 1
    OBVIOUS
  <2>2. PICK k \in 0 .. 1 : Wrote(<<Blank>>, k, CountBytes(k))
    BY <1>1, <1>5, <2>1, CountedByte DEF Write
  <2>3. Owes(CountBytes(k), Place, client, t) /\ InTrailer(CountBytes(k))
    BY <1>4
  <2> DEFINE g == CountBytes(k)
  <2> HIDE DEF g
  <2> QED
    BY <1>1, <2>2, <2>3, BlankAdvances DEF g
<1>6. CASE WriteLast(t, CountBytes)
  <2>0. Len(t) = 1
    OBVIOUS
  <2>1. PICK a \in Answer(1) :
          /\ out' = out \o Visible(t, a.taken) /\ Fixed
          /\ IF a.e = "Ok" /\ a.taken = 1 THEN Pop
             ELSE /\ lpTopOfStack' = SetTop(CountBytes(a.taken)) /\ UNCHANGED heap
                  /\ IF a.e = "Ok" THEN UNCHANGED <<at, status>> ELSE Return(a.e)
    <3> HIDE DEF t
    <3> QED
      BY <1>6, <2>0 DEF WriteLast
  <2>2. /\ a.taken \in 0 .. 1 /\ a.e \in {"Ok", "UserError"} /\ (a.e = "Ok" => a.taken = 1)
    BY <1>1, OneByte
  <2>3. Visible(t, 0) = << >> /\ Visible(t, 1) = t
    BY BraceInt, VisibleIs
  <2> HIDE DEF t
  <2>4. CASE a.e = "Ok"
    <3>1. WroteLast(t, 1)
      BY <2>1, <2>2, <2>4 DEF WroteLast
    <3> QED
      BY <1>1, <2>3, <3>1, PopAdvances DEF t
  <2>5. CASE a.e # "Ok"
    <3> DEFINE k == a.taken
               g == CountBytes(k)
               w == IF k = 0 THEN << >> ELSE t
               u == IF k = 0 THEN t ELSE << >>
    <3>1. k \in 0 .. 1 /\ Visible(t, k) = w /\ t = w \o u /\ w \in Text /\ u \in Text
      <4>1. k \in 0 .. 1
        BY <2>2
      <4> HIDE DEF k
      <4>2. CASE k = 0
        BY <1>2, <2>3, <4>1, <4>2
      <4>3. CASE k = 1
        BY <1>2, <2>3, <4>1, <4>3
      <4> QED
        BY <4>1, <4>2, <4>3
    <3>2. /\ out' = out \o Visible(t, k) /\ Fixed /\ lpTopOfStack' = SetTop(g)
          /\ status' = "UserError" /\ at' = "enter"
      BY <2>1, <2>2, <2>5 DEF Return
    <3>3. Owes(g, Place, client, u)
      <4>1. u \in {t, << >>}
        OBVIOUS
      <4> HIDE DEF u, k
      <4> QED
        BY <1>4, <3>1, <4>1
    <3> HIDE DEF g, u, w, k
    <3>4. Replaced(t, g, w, u)
      BY <3>1, <3>2, <3>3 DEF Replaced
    <3> QED
      BY <1>1, <3>2, <3>4 DEF Advances, t
  <2> QED
    BY <2>4, <2>5
<1> QED
  BY <1>5, <1>6 DEF Object_Trailer

LEMMA ObjectSpinAdvances ==
  ASSUME TextInv, Object_Spin, NEW t, Owes(Top, Place, client, t)
  PROVE  Advances(t)
<1>1. SerInv /\ Running
  BY DEF TextInv, Object_Spin, InState, Handling
<1> QED
  BY <1>1, StayAdvances DEF Object_Spin

-----------------------------------------------------------------------------
(* Strings. *)
StringOwed(t, w, i) ==
  /\ SerInv /\ TypeOK /\ Running /\ at # "behind" /\ t \in Text
  /\ Top \in StringFrame /\ Top.type = "String" /\ SoundString(Top) /\ OwesString(Top, t)
  /\ Top.bData \in Seq(Octet) /\ i \in Nat /\ Len(Top.bData) \in Nat
  /\ w \in Seq(Octet) /\ w = Beyond(Top.bData, i)
  /\ \A m \in Nat : Beyond(w, m) = Beyond(Top.bData, i + m)
  /\ i <= Len(Top.bData) => Len(w) = Len(Top.bData) - i
  /\ w # << >> => i < Len(Top.bData) /\ Head(w) \in Octet

LEMMA StringOwing ==
  ASSUME TextInv, Handling("String"), NEW t, Owes(Top, Place, client, t),
         NEW w, w = Left(Top), NEW i, i = Top.dwCurrentIndex
  PROVE  /\ SerInv /\ TypeOK /\ Running /\ at # "behind" /\ t \in Text
         /\ Top \in StringFrame /\ Top.type = "String" /\ SoundString(Top) /\ OwesString(Top, t)
         /\ Top.bData \in Seq(Octet) /\ i \in Nat /\ Len(Top.bData) \in Nat
         /\ w \in Seq(Octet) /\ w = Beyond(Top.bData, i)
         /\ \A m \in Nat : Beyond(w, m) = Beyond(Top.bData, i + m)
         /\ i <= Len(Top.bData) => Len(w) = Len(Top.bData) - i
         /\ w # << >> => i < Len(Top.bData) /\ Head(w) \in Octet
<1>1. /\ SerInv /\ TypeOK /\ Running /\ at # "behind" /\ t \in Text
      /\ Top.type = "String" /\ OwesString(Top, t)
  BY Outside DEF TextInv, SerInv, Handling, InTrailer, Owes
<1>2. /\ Top \in StringFrame /\ SoundString(Top)
      /\ Top.bData \in Seq(Octet) /\ i \in Nat /\ Len(Top.bData) \in Nat /\ w \in Seq(Octet)
      /\ w # << >> => i < Len(Top.bData) /\ Head(w) \in Octet
  BY <1>1, StringTop
<1>3. w = Beyond(Top.bData, i)
  BY DEF Left, Beyond
<1>4. \A m \in Nat : Beyond(w, m) = Beyond(Top.bData, i + m)
  <2> SUFFICES ASSUME NEW m \in Nat PROVE Beyond(w, m) = Beyond(Top.bData, i + m)
    OBVIOUS
  <2> DEFINE d == Top.bData
  <2>1. d \in Seq(Octet) /\ w = Beyond(d, i)
    BY <1>2, <1>3
  <2> HIDE DEF d
  <2>2. Beyond(Beyond(d, i), m) = Beyond(d, i + m)
    BY <1>2, <2>1, BeyondBeyond
  <2> QED
    BY <2>1, <2>2 DEF d
<1>5. i <= Len(Top.bData) => Len(w) = Len(Top.bData) - i
  BY <1>2, <1>3, BeyondIs
<1> QED
  BY <1>1, <1>2, <1>3, <1>4, <1>5

LEMMA StringIsOwed ==
  ASSUME TextInv, Handling("String"), NEW t, Owes(Top, Place, client, t)
  PROVE  StringOwed(t, Left(Top), Top.dwCurrentIndex)
BY StringOwing DEF StringOwed

LEMMA StringWould ==
  ASSUME NEW g, g.type = "String", NEW u \in Text, OwesString(g, u)
  PROVE  Owes(g, Place, client, u)
BY DEF Owes

LEMMA NormalWould ==
  ASSUME NEW g, g.state = "Normal", g.dwCurrentIndex <= Len(g.bData), NEW u,
         Spells(Beyond(g.bData, g.dwCurrentIndex), u)
  PROVE  OwesString(g, u)
<1>1. Left(g) = Beyond(g.bData, g.dwCurrentIndex)
  BY DEF Left, Beyond
<1> QED
  BY <1>1 DEF OwesString

LEMMA StringByteAdvances ==
  ASSUME TextInv, Handling("String"), NEW t, Owes(Top, Place, client, t),
         NEW c \in Octet, NEW k \in 0 .. 1, NEW g, Wrote(<<c>>, k, g),
         NEW u \in Text, t = <<c>> \o u,
         k = 0 => g = Top, k = 1 => g.type = "String" /\ OwesString(g, u)
  PROVE  Advances(t)
<1>1. Running /\ at # "behind" /\ t \in Text
  BY StringOwing
<1>2. Owes(g, Place, client, IF k = 0 THEN t ELSE u)
  <2>1. CASE k = 0
    BY <2>1
  <2>2. CASE k = 1
    BY <2>2, StringWould
  <2> QED
    BY <2>1, <2>2
<1> QED
  BY <1>1, <1>2, ByteAdvances

(* The updates of an element. *)
LEMMA StringSteps ==
  ASSUME NEW f \in StringFrame, NEW x \in StringState
  PROVE  LET g == [f EXCEPT !.state = x]
             h == [f EXCEPT !.dwCurrentIndex = @ + 1]
         IN /\ [f EXCEPT !.state = f.state] = f /\ [f EXCEPT !.dwCurrentIndex = @ + 0] = f
            /\ g.type = "String" /\ g.state = x /\ g.bData = f.bData
            /\ g.dwCurrentIndex = f.dwCurrentIndex /\ g \in StringFrame
            /\ h.type = "String" /\ h.state = f.state /\ h.bData = f.bData
            /\ h.dwCurrentIndex = f.dwCurrentIndex + 1
BY DEF StringFrame, StringState

LEMMA LeadingQuoteAdvances ==
  ASSUME TextInv, String_LeadingQuote, NEW t, Owes(Top, Place, client, t)
  PROVE  Advances(t)
<1>1. Handling("String") /\ Top.state = "LeadingQuote"
  BY DEF String_LeadingQuote, StringIn
<1>2. TypeOK /\ Top \in StringFrame /\ OwesString(Top, t)
  BY <1>1, StringOwing
<1>3. PICK k \in 0 .. 1 : Wrote(<<Quote>>, k, Enter("Normal", k))
  <2>1. PICK a \in Answer(1) : \E k : k = a.taken /\ Wrote(<<Quote>>, k, Enter("Normal", k))
    BY <1>2, AnswerRange, Len(<<Quote>>) = 1 DEF String_LeadingQuote, Write, Wrote
  <2>2. a.taken \in 0 .. 1
    BY <1>2, AnswerRange
  <2> QED
    BY <2>1, <2>2
<1>4. PICK s \in Text : /\ Spells(Left(Top), s) /\ t = <<Quote>> \o s
                        /\ Top.dwCurrentIndex <= Len(Top.bData)
  BY <1>1, <1>2 DEF OwesString
<1> DEFINE g == Enter("Normal", k)
           h == [Top EXCEPT !.state = "Normal"]
<1>5. (k = 0 => g = Top) /\ (k = 1 => g = h)
  <2>1. "Normal" \in StringState
    BY DEF StringState
  <2> QED
    BY <1>2, <2>1, StringSteps DEF Enter
<1>6. h.type = "String" /\ OwesString(h, s)
  <2>1. "Normal" \in StringState
    BY DEF StringState
  <2>2. /\ h.type = "String" /\ h.state = "Normal" /\ h.bData = Top.bData
        /\ h.dwCurrentIndex = Top.dwCurrentIndex
    BY <1>2, <2>1, StringSteps
  <2> HIDE DEF h
  <2>3. Spells(Beyond(h.bData, h.dwCurrentIndex), s)
    BY <1>4, <2>2 DEF Left, Beyond
  <2> QED
    BY <1>4, <2>2, <2>3, NormalWould
<1> HIDE DEF g, h
<1> QED
  BY <1>1, <1>3, <1>4, <1>5, <1>6, ByteSet, StringByteAdvances DEF g

(* A byte below 128 that is the next one of a string. *)
PlainNext(w, i, t, h, s) ==
  /\ h \in 0 .. 127 /\ h \in Octet /\ s \in Text /\ Spells(Beyond(w, i + 1), s)
  /\ h \in NeedsEscape => /\ t = <<Backslash>> \o (<<EscapeLetter(h)>> \o s)
                          /\ <<EscapeLetter(h)>> \o s \in Text
  /\ h \notin NeedsEscape => t = <<h>> \o s

LEMMA PlainOwed ==
  ASSUME TextInv, Handling("String"), NEW t, Owes(Top, Place, client, t), Top.state = "Normal",
         Left(Top) # << >>, NEW h, h = Head(Left(Top)), h < 128
  PROVE  /\ \E s : PlainNext(Top.bData, Top.dwCurrentIndex, t, h, s)
         /\ Top.dwCurrentIndex < Len(Top.bData)
<1> DEFINE w == Left(Top)
           i == Top.dwCurrentIndex
<1>1. /\ OwesString(Top, t) /\ i \in Nat /\ Len(Top.bData) \in Nat /\ w \in Seq(Octet)
      /\ Beyond(w, 1) = Beyond(Top.bData, i + 1) /\ i < Len(Top.bData) /\ h \in Octet
  <2> HIDE DEF w, i
  <2> QED
    BY StringOwing DEF w, i
<1>2. Spells(w, t)
  <2>1. ~(i > Len(Top.bData))
    BY <1>1
  <2> QED
    BY <1>1, <2>1 DEF OwesString
<1> HIDE DEF w
<1>3. h \in 0 .. 127 /\ \E s \in Text : t = UnitText(h) \o s /\ Spells(Beyond(w, 1), s)
  BY <1>1, <1>2, SpellsPlain DEF w
<1>4. PICK s \in Text : t = UnitText(h) \o s /\ Spells(Beyond(w, 1), s)
  BY <1>3
<1>5. CASE h \in NeedsEscape
  <2> DEFINE a == <<Backslash>>
             b == <<EscapeLetter(h)>>
  <2>1. a \in Text /\ b \in Text
    BY <1>3, ByteSet, EscapeLetterByte
  <2>2. UnitText(h) = a \o b
    <3> DEFINE z == EscapeLetter(h)
    <3>1. UnitText(h) = <<Backslash, z>>
      BY <1>3, <1>5, EscapeIs
    <3> HIDE DEF z
    <3>2. <<Backslash, z>> = <<Backslash>> \o <<z>>
      OBVIOUS
    <3> QED
      BY <3>1, <3>2 DEF z
  <2> HIDE DEF a, b
  <2>3. b \o s \in Text
    BY <2>1, Concat
  <2>4. (a \o b) \o s = a \o (b \o s)
    BY <2>1, Assoc
  <2>5. t = a \o (b \o s)
    BY <1>4, <2>2, <2>4
  <2> QED
    BY <1>1, <1>3, <1>4, <1>5, <2>3, <2>5 DEF PlainNext, a, b
<1>6. CASE h \notin NeedsEscape
  <2>1. UnitText(h) = <<h>>
    BY <1>3, <1>6, EscapeIs
  <2> QED
    BY <1>1, <1>3, <1>4, <1>6, <2>1 DEF PlainNext
<1> QED
  BY <1>1, <1>5, <1>6

LEMMA EscapeAdvances ==
  ASSUME TextInv, String_Escape, NEW t, Owes(Top, Place, client, t)
  PROVE  Advances(t)
<1>1. /\ Handling("String") /\ Top.state = "Normal" /\ Left(Top) # << >>
      /\ Head(Left(Top)) \in NeedsEscape
  BY DEF String_Escape, StringIn
<1>2. TypeOK /\ Top \in StringFrame
  BY <1>1, StringOwing
<1>3. PICK k \in 0 .. 1 : Wrote(<<Backslash>>, k, Enter("Escaped", k))
  <2>1. PICK a \in Answer(1) : \E k : k = a.taken /\ Wrote(<<Backslash>>, k, Enter("Escaped", k))
    BY <1>2, AnswerRange, Len(<<Backslash>>) = 1 DEF String_Escape, Write, Wrote
  <2>2. a.taken \in 0 .. 1
    BY <1>2, AnswerRange
  <2> QED
    BY <2>1, <2>2
<1> DEFINE b == Head(Left(Top))
<1>4. b < 128
  BY <1>1 DEF NeedsEscape, Quote, Backslash, Slash
<1> HIDE DEF b
<1>5. PICK s : PlainNext(Top.bData, Top.dwCurrentIndex, t, b, s)
  BY <1>1, <1>4, PlainOwed DEF b
<1> DEFINE u == <<EscapeLetter(b)>> \o s
           g == Enter("Escaped", k)
           h == [Top EXCEPT !.state = "Escaped"]
<1>6. /\ s \in Text /\ Spells(Beyond(Top.bData, Top.dwCurrentIndex + 1), s)
      /\ t = <<Backslash>> \o u /\ u \in Text
  BY <1>1, <1>5 DEF PlainNext, b
<1>7. (k = 0 => g = Top) /\ (k = 1 => g = h)
  <2>1. k = 0 => g = [Top EXCEPT !.state = Top.state]
    BY DEF Enter
  <2>2. k = 1 => g = h
    BY DEF Enter
  <2>3. [Top EXCEPT !.state = Top.state] = Top
    BY <1>2, StringSteps, "Normal" \in StringState DEF StringState
  <2> QED
    BY <2>1, <2>2, <2>3
<1>8. h.type = "String" /\ OwesString(h, u)
  <2>1. "Escaped" \in StringState
    BY DEF StringState
  <2>2. /\ h.type = "String" /\ h.state = "Escaped" /\ h.bData = Top.bData
        /\ h.dwCurrentIndex = Top.dwCurrentIndex
    BY <1>2, <2>1, StringSteps
  <2> HIDE DEF h
  <2>3. Left(h) = Left(Top) /\ Spells(Beyond(h.bData, h.dwCurrentIndex + 1), s)
    BY <1>6, <2>2 DEF Left
  <2> QED
    BY <1>6, <2>2, <2>3 DEF OwesString, b
<1> HIDE DEF g, h, u
<1> QED
  BY <1>1, <1>3, <1>6, <1>7, <1>8, ByteSet, StringByteAdvances DEF g

LEMMA DirectAdvances ==
  ASSUME TextInv, String_Direct, NEW t, Owes(Top, Place, client, t)
  PROVE  Advances(t)
<1> DEFINE c == Head(Left(Top))
           g(k) == [Top EXCEPT !.dwCurrentIndex = @ + k]
<1>1. /\ Handling("String") /\ Top.state = "Normal" /\ Left(Top) # << >>
      /\ c < 128 /\ c \notin NeedsEscape
  BY DEF String_Direct, StringIn
<1>2. /\ TypeOK /\ Top \in StringFrame /\ Top.dwCurrentIndex \in Nat /\ Len(Top.bData) \in Nat
  BY <1>1, StringOwing
<1>3. PICK k \in 0 .. 1 : Wrote(<<c>>, k, g(k))
  BY <1>2, AnswerRange, Len(<<c>>) = 1 DEF String_Direct, Write, Wrote
<1> HIDE DEF c
<1>4. PICK s : PlainNext(Top.bData, Top.dwCurrentIndex, t, c, s)
  BY <1>1, PlainOwed DEF c
<1>5. Top.dwCurrentIndex < Len(Top.bData)
  BY <1>1, PlainOwed DEF c
<1>6. /\ s \in Text /\ Spells(Beyond(Top.bData, Top.dwCurrentIndex + 1), s)
      /\ t = <<c>> \o s /\ c \in Octet
  BY <1>1, <1>4 DEF PlainNext
<1>7. /\ g(0) = Top /\ g(1).type = "String" /\ g(1).state = "Normal" /\ g(1).bData = Top.bData
      /\ g(1).dwCurrentIndex = Top.dwCurrentIndex + 1
  <2>1. "Normal" \in StringState
    BY DEF StringState
  <2> QED
    BY <1>1, <1>2, <2>1, StringSteps
<1> HIDE DEF g
<1>8. OwesString(g(1), s)
  <2>1. g(1).dwCurrentIndex <= Len(g(1).bData)
    BY <1>2, <1>5, <1>7
  <2> QED
    BY <1>6, <1>7, <2>1, NormalWould
<1> QED
  BY <1>1, <1>3, <1>6, <1>7, <1>8, StringByteAdvances

LEMMA EscapedAdvances ==
  ASSUME TextInv, String_Escaped, NEW t, Owes(Top, Place, client, t)
  PROVE  Advances(t)
<1> DEFINE c == EscapeLetter(Head(Left(Top)))
<1>1. Handling("String") /\ Top.state = "Escaped"
  BY DEF String_Escaped, StringIn
<1>2. /\ TypeOK /\ Top \in StringFrame /\ Top.dwCurrentIndex \in Nat /\ Len(Top.bData) \in Nat
      /\ OwesString(Top, t) /\ Top.dwCurrentIndex < Len(Top.bData)
  BY <1>1, StringOwing DEF SoundString
<1>3. PICK k \in 0 .. 1 : Wrote(<<c>>, k, EscapedCounted(k))
  <2>1. Write(<<c>>, EscapedCounted)
    BY DEF String_Escaped
  <2> HIDE DEF c
  <2>2. PICK a \in Answer(1) :
          /\ out' = out \o Visible(<<c>>, a.taken)
          /\ lpTopOfStack' = SetTop(EscapedCounted(a.taken))
          /\ IF a.e = "Ok" THEN UNCHANGED <<at, status>> ELSE Return(a.e)
          /\ Fixed /\ UNCHANGED heap
    BY <2>1, Len(<<c>>) = 1 DEF Write
  <2>3. a.taken \in 0 .. 1 /\ a.e \in {"Ok", "UserError"}
    BY <1>2, AnswerRange
  <2>4. Wrote(<<c>>, a.taken, EscapedCounted(a.taken))
    BY <2>2, <2>3 DEF Wrote
  <2> QED
    BY <2>3, <2>4
<1>4. c \in Octet
  <2>1. Left(Top) # << >>
    <3> DEFINE w == Left(Top)
               i == Top.dwCurrentIndex
    <3>1. i <= Len(Top.bData)
      BY <1>2
    <3> HIDE DEF w, i
    <3>2. Len(w) = Len(Top.bData) - i
      BY <1>1, <3>1, StringOwing DEF w, i
    <3>3. Len(w) # 0
      BY <1>2, <3>2 DEF i
    <3>4. w # << >>
      BY <3>3
    <3> QED
      BY <3>4 DEF w
  <2>2. Head(Left(Top)) \in Octet
    BY <1>1, <2>1, StringOwing
  <2>3. {LetterB, LetterF, LetterN, LetterR, LetterT} \subseteq Octet
    BY DEF LetterB, LetterF, LetterN, LetterR, LetterT, Octet
  <2> QED
    BY <2>2, <2>3 DEF EscapeLetter
<1>5. PICK s \in Text : /\ Spells(Beyond(Top.bData, Top.dwCurrentIndex + 1), s)
                        /\ t = <<c>> \o s
  BY <1>1, <1>2 DEF OwesString
<1> DEFINE f == [Top EXCEPT !.state = "Normal"]
           h == [f EXCEPT !.dwCurrentIndex = @ + 1]
           g == EscapedCounted(k)
<1>6. (k = 0 => g = Top) /\ (k = 1 => g = h)
  <2>1. "Normal" \in StringState
    BY DEF StringState
  <2> QED
    <3>1. k = 0 => g = [[Top EXCEPT !.state = Top.state] EXCEPT !.dwCurrentIndex = @ + 0]
      BY DEF EscapedCounted, Enter
    <3>2. k = 1 => g = h
      BY DEF EscapedCounted, Enter
    <3>3. [Top EXCEPT !.state = Top.state] = Top /\ [Top EXCEPT !.dwCurrentIndex = @ + 0] = Top
      BY <1>2, <2>1, StringSteps
    <3> QED
      BY <3>1, <3>2, <3>3
<1>7. h.type = "String" /\ OwesString(h, s)
  <2>1. "Normal" \in StringState
    BY DEF StringState
  <2>2. /\ f \in StringFrame /\ f.state = "Normal" /\ f.bData = Top.bData
        /\ f.dwCurrentIndex = Top.dwCurrentIndex
    BY <1>2, <2>1, StringSteps
  <2> HIDE DEF f
  <2>3. /\ h.type = "String" /\ h.state = "Normal" /\ h.bData = Top.bData
        /\ h.dwCurrentIndex = Top.dwCurrentIndex + 1
    BY <2>1, <2>2, StringSteps, Zenon
  <2> HIDE DEF h
  <2>4. h.dwCurrentIndex <= Len(h.bData)
    BY <1>2, <2>3
  <2>5. Spells(Beyond(h.bData, h.dwCurrentIndex), s)
    BY <1>5, <2>3
  <2> QED
    BY <2>3, <2>4, <2>5, NormalWould
<1> HIDE DEF c, f, g, h
<1> QED
  BY <1>1, <1>3, <1>4, <1>5, <1>6, <1>7, StringByteAdvances DEF g

-----------------------------------------------------------------------------
(* The next byte of a text of which some are written. *)
LEMMA BeyondNext ==
  ASSUME NEW w \in Seq(Int), NEW m \in Nat, m < Len(w), NEW c, c = w[m + 1]
  PROVE  Beyond(w, m) = <<c>> \o Beyond(w, m + 1)
<1> DEFINE v == Beyond(w, m)
           a == SubSeq(v, 1, 1)
<1>1. Len(w) \in Nat
  BY LenProperties
<1>2. /\ v \in Seq(Int) /\ Len(v) = Len(w) - m /\ \A i \in 1 .. Len(v) : v[i] = w[i + m]
      /\ Beyond(v, 1) = Beyond(w, m + 1)
  <2>1. Beyond(Beyond(w, m), 1) = Beyond(w, m + 1)
    BY BeyondBeyond
  <2>2. /\ v \in Seq(Int) /\ Len(v) = IF m <= Len(w) THEN Len(w) - m ELSE 0
        /\ \A i \in 1 .. Len(v) : v[i] = w[i + m]
    BY BeyondIs
  <2> QED
    BY <1>1, <2>1, <2>2
<1> HIDE DEF v
<1>3. 1 <= Len(v) /\ 1 \in Nat /\ v[1] = c
  <2>1. 1 \in 1 .. Len(v)
    BY <1>1, <1>2
  <2> QED
    BY <1>2, <2>1
<1>4. a \in Seq(Int) /\ Len(a) = 1 /\ v = a \o Beyond(v, 1)
  BY <1>2, <1>3, BeyondSplit
<1>5. a[1] = c
  BY <1>2, <1>3, SubSeqProperties
<1> HIDE DEF a
<1>6. a = <<c>>
  BY <1>4, <1>5
<1> QED
  BY <1>2, <1>4, <1>6 DEF v

(* The text of a character of several bytes. *)
HexSpelling(d) == <<Backslash, LetterU>> \o d
LEMMA HexSpellingIs ==
  ASSUME NEW d \in Seq(Octet), Len(d) = 4
  PROVE  /\ HexSpelling(d) \in Seq(Octet) /\ HexSpelling(d) \in Seq(Int)
         /\ Len(HexSpelling(d)) = 6
<1> DEFINE p == <<Backslash, LetterU>>
<1>1. p \in Seq(Octet) /\ Len(p) = 2
  BY DEF Octet, Backslash, LetterU
<1> HIDE DEF p
<1>2. p \o d \in Seq(Octet) /\ Len(p \o d) = 6
  <2>1. p \o d \in Seq(Octet) /\ Len(p \o d) = Len(p) + Len(d)
    BY <1>1, BeyondConcat
  <2> QED
    BY <1>1, <2>1
<1>3. HexSpelling(d) = p \o d
  BY DEF HexSpelling, p
<1> QED
  BY <1>2, <1>3, OctetText DEF Text

LEMMA DecodeAdvances ==
  ASSUME TextInv, String_Decode, NEW t, Owes(Top, Place, client, t)
  PROVE  Advances(t)
<1> DEFINE w == Left(Top)
           i == Top.dwCurrentIndex
           c == Decode(w)
           d == HexDigits(c.unit)
           g == [Top EXCEPT !.dwCurrentIndex = @ + c.n, !.state = "Unicode",
                            !.bUnicodeBytes = d, !.dwUnicodeBytesWritten = 0]
<1>1. Handling("String") /\ Top.state = "Normal" /\ w # << >> /\ Head(w) >= 128
  BY DEF String_Decode, StringIn
<1>2. (c.e # "Ok" /\ Fail(c.e)) \/ (c.e = "Ok" /\ GoOn(g))
  BY DEF String_Decode
<1>3. /\ SerInv /\ TypeOK /\ Running /\ at # "behind" /\ t \in Text /\ Top \in StringFrame
      /\ OwesString(Top, t) /\ i \in Nat /\ Len(Top.bData) \in Nat /\ w \in Seq(Octet)
      /\ \A m \in Nat : Beyond(w, m) = Beyond(Top.bData, i + m)
      /\ i < Len(Top.bData) /\ Len(w) = Len(Top.bData) - i
  <2>1. StringOwed(t, w, i)
    BY <1>1, StringIsOwed
  <2> HIDE DEF w, i, c, d, g
  <2>2. /\ SerInv /\ TypeOK /\ Running /\ at # "behind" /\ t \in Text /\ Top \in StringFrame
        /\ OwesString(Top, t) /\ i \in Nat /\ Len(Top.bData) \in Nat /\ w \in Seq(Octet)
        /\ \A m \in Nat : Beyond(w, m) = Beyond(Top.bData, i + m)
        /\ i <= Len(Top.bData) => Len(w) = Len(Top.bData) - i
        /\ w # << >> => i < Len(Top.bData) /\ Head(w) \in Octet
    BY <2>1 DEF StringOwed
  <2>3. w # << >>
    BY <1>1
  <2>4. i < Len(Top.bData)
    BY <2>2, <2>3, Zenon
  <2>5. i \in Nat /\ Len(Top.bData) \in Nat
    BY <2>2, Zenon
  <2>6. i <= Len(Top.bData)
    BY <2>4, <2>5
  <2> QED
    BY <2>2, <2>4, <2>6, Zenon
<1>4. Spells(w, t)
  <2>1. ~(i > Len(Top.bData))
    BY <1>3
  <2> QED
    BY <1>1, <1>3, <2>1 DEF OwesString
<1>5. CASE c.e # "Ok" /\ Fail(c.e)
  <2>1. c.e \in {"Ok", "InvalidParam", "EncodingError"}
    BY <1>1, <1>3, DecodeType
  <2> HIDE DEF c
  <2> QED
    BY <1>3, <1>5, <2>1, StayAdvances DEF Fail, Return
<1>6. CASE c.e = "Ok" /\ GoOn(g)
  <2>1. /\ c.unit \in Nat /\ c.n \in Nat /\ c.n <= Len(w)
        /\ \E s \in Text : /\ t = (<<Backslash, LetterU>> \o HexDigits(c.unit)) \o s
                           /\ Spells(Beyond(w, c.n), s)
    <3> HIDE DEF w, c
    <3> QED
      BY <1>1, <1>3, <1>4, <1>6, SpellsCharacter DEF c
  <2>2. PICK s \in Text : t = HexSpelling(d) \o s /\ Spells(Beyond(w, c.n), s)
    BY <2>1 DEF HexSpelling
  <2>3. HexSpelling(d) = Beyond(HexSpelling(d), 0)
    BY <2>1, HexDigitsType, HexSpellingIs, BeyondNone
  <2> HIDE DEF c, d
  <2>4. /\ g.type = "String" /\ g.state = "Unicode" /\ g.bData = Top.bData
        /\ g.dwCurrentIndex = i + c.n /\ g.bUnicodeBytes = d /\ g.dwUnicodeBytesWritten = 0
    BY <1>3 DEF StringFrame
  <2>5. Spells(Beyond(Top.bData, i + c.n), s) /\ i + c.n <= Len(Top.bData)
    <3> DEFINE n == c.n
    <3>1. n \in Nat /\ n <= Len(w) /\ Spells(Beyond(w, n), s)
      BY <2>1, <2>2
    <3> HIDE DEF w, i, n
    <3>2. Beyond(w, n) = Beyond(Top.bData, i + n)
      BY <1>3, <3>1
    <3>3. i + n <= Len(Top.bData)
      BY <1>3, <3>1
    <3> QED
      BY <3>1, <3>2, <3>3 DEF n
  <2> HIDE DEF g, w, i
  <2>6. Left(g) = Beyond(Top.bData, i + c.n)
    BY <2>4 DEF Left, Beyond
  <2>7. OwesString(g, t)
    <3>1. t = Beyond(<<Backslash, LetterU>> \o g.bUnicodeBytes, g.dwUnicodeBytesWritten) \o s
      BY <2>2, <2>3, <2>4 DEF HexSpelling
    <3>2. Spells(Left(g), s) /\ g.dwCurrentIndex <= Len(g.bData)
      BY <2>4, <2>5, <2>6
    <3> QED
      BY <2>4, <3>1, <3>2 DEF OwesString
  <2>8. Owes(g, Place, client, t)
    BY <1>3, <2>4, <2>7, StringWould
  <2> QED
    BY <1>3, <1>6, <2>8, GoOnAdvances
<1> QED
  BY <1>2, <1>5, <1>6

(* What an element owes in the middle of such a text. *)
LEMMA UnicodeOwing ==
  ASSUME TextInv, StringIn("Unicode"), NEW t, Owes(Top, Place, client, t)
  PROVE  LET x == HexSpelling(Top.bUnicodeBytes)
             m == Top.dwUnicodeBytesWritten
         IN /\ Handling("String") /\ TypeOK /\ at # "behind" /\ Top \in StringFrame
            /\ x \in Seq(Octet) /\ x \in Seq(Int) /\ Len(x) = 6 /\ m \in 0 .. 6
            /\ Top.dwCurrentIndex <= Len(Top.bData)
            /\ \E s \in Text : Spells(Left(Top), s) /\ t = Beyond(x, m) \o s
<1> DEFINE x == HexSpelling(Top.bUnicodeBytes)
           m == Top.dwUnicodeBytesWritten
<1>1. Handling("String") /\ Top.state = "Unicode"
  BY DEF StringIn
<1>2. /\ TypeOK /\ at # "behind" /\ Top \in StringFrame /\ SoundString(Top) /\ OwesString(Top, t)
  BY <1>1, StringOwing
<1>3. /\ Top.bUnicodeBytes \in Seq(Octet) /\ Len(Top.bUnicodeBytes) = 4 /\ m \in 0 .. 6
  BY <1>1, <1>2 DEF StringFrame, SoundString
<1>4. /\ Top.dwCurrentIndex <= Len(Top.bData)
      /\ \E s \in Text : Spells(Left(Top), s) /\ t = Beyond(x, m) \o s
  BY <1>1, <1>2 DEF OwesString, HexSpelling
<1> QED
  BY <1>1, <1>2, <1>3, <1>4, HexSpellingIs

LEMMA UnicodeAdvances ==
  ASSUME TextInv, String_Unicode, NEW t, Owes(Top, Place, client, t)
  PROVE  Advances(t)
<1> DEFINE x == HexSpelling(Top.bUnicodeBytes)
           m == Top.dwUnicodeBytesWritten
           c == x[m + 1]
           g(k) == [Top EXCEPT !.dwUnicodeBytesWritten = @ + k]
<1>1. StringIn("Unicode") /\ m < 6
  BY DEF String_Unicode
<1>2. /\ Handling("String") /\ TypeOK /\ at # "behind" /\ Top \in StringFrame
      /\ x \in Seq(Octet) /\ x \in Seq(Int) /\ Len(x) = 6 /\ m \in 0 .. 6
      /\ Top.dwCurrentIndex <= Len(Top.bData)
      /\ \E s \in Text : Spells(Left(Top), s) /\ t = Beyond(x, m) \o s
  BY <1>1, UnicodeOwing
<1>3. PICK k \in 0 .. 1 : Wrote(<<c>>, k, g(k))
  BY <1>2, AnswerRange, Len(<<c>>) = 1 DEF String_Unicode, Write, Wrote, HexSpelling
<1>4. PICK s \in Text : Spells(Left(Top), s) /\ t = Beyond(x, m) \o s
  BY <1>2
<1>5. /\ g(0) = Top /\ g(1).type = "String" /\ g(1).state = "Unicode" /\ g(1).bData = Top.bData
      /\ g(1).dwCurrentIndex = Top.dwCurrentIndex /\ g(1).bUnicodeBytes = Top.bUnicodeBytes
      /\ g(1).dwUnicodeBytesWritten = m + 1
  <2>1. Top.state = "Unicode"
    BY <1>1 DEF StringIn
  <2> QED
    BY <1>2, <2>1 DEF StringFrame
<1> DEFINE r == Beyond(x, m + 1)
           u == r \o s
<1>6. /\ c \in Octet /\ r \in Text /\ Beyond(x, m) = <<c>> \o r
  <2> HIDE DEF x, m
  <2>1. m + 1 \in 1 .. Len(x) /\ m \in Nat /\ m < Len(x) /\ m + 1 \in Nat
    BY <1>1, <1>2
  <2>2. r \in Text
    BY <1>2, <2>1, BeyondIs DEF Text
  <2>3. Beyond(x, m) = <<c>> \o r
    BY <1>2, <2>1, BeyondNext
  <2>4. c \in Octet
    BY <1>2, <2>1, ElementOfSeq
  <2> QED
    BY <2>2, <2>3, <2>4
<1>7. OwesString(g(1), u)
  <2> HIDE DEF g
  <2>1. Left(g(1)) = Left(Top)
    BY <1>5 DEF Left
  <2>2. u = Beyond(<<Backslash, LetterU>> \o g(1).bUnicodeBytes, g(1).dwUnicodeBytesWritten) \o s
    BY <1>5 DEF HexSpelling
  <2> HIDE DEF u
  <2> QED
    BY <1>2, <1>4, <1>5, <2>1, <2>2 DEF OwesString
<1> HIDE DEF g, x, m, c, r
<1>8. u \in Text /\ t = <<c>> \o u
  <2> DEFINE a == <<c>>
  <2>1. a \in Text
    BY <1>6, ByteSet
  <2>2. t = (a \o r) \o s
    BY <1>4, <1>6
  <2> HIDE DEF a
  <2>3. (a \o r) \o s = a \o (r \o s)
    BY <1>6, <2>1, Assoc
  <2>4. r \o s \in Text
    BY <1>6, Concat
  <2> QED
    BY <2>2, <2>3, <2>4 DEF a
<1> HIDE DEF u
<1> QED
  BY <1>2, <1>3, <1>5, <1>6, <1>7, <1>8, StringByteAdvances

LEMMA UnicodeEndAdvances ==
  ASSUME TextInv, String_UnicodeEnd, NEW t, Owes(Top, Place, client, t)
  PROVE  Advances(t)
<1> DEFINE x == HexSpelling(Top.bUnicodeBytes)
           m == Top.dwUnicodeBytesWritten
           g == [Top EXCEPT !.state = "Normal", !.dwUnicodeBytesWritten = 0]
<1>1. StringIn("Unicode") /\ m = 6 /\ GoOn(g)
  BY DEF String_UnicodeEnd
<1>2. /\ TypeOK /\ at # "behind" /\ Top \in StringFrame /\ x \in Seq(Octet) /\ Len(x) = 6
      /\ Top.dwCurrentIndex <= Len(Top.bData)
      /\ \E s \in Text : Spells(Left(Top), s) /\ t = Beyond(x, m) \o s
  BY <1>1, UnicodeOwing
<1>3. PICK s \in Text : Spells(Left(Top), s) /\ t = Beyond(x, m) \o s
  BY <1>2
<1>4. /\ g.type = "String" /\ g.state = "Normal" /\ g.bData = Top.bData
      /\ g.dwCurrentIndex = Top.dwCurrentIndex
  BY <1>2 DEF StringFrame
<1>5. Beyond(x, m) = << >>
  <2> HIDE DEF x
  <2> QED
    BY <1>1, <1>2, BeyondNone
<1> HIDE DEF g, x, m
<1>6. t = s
  BY <1>3, <1>5, Concat
<1>7. OwesString(g, t)
  <2>1. Spells(Beyond(g.bData, g.dwCurrentIndex), s)
    BY <1>3, <1>4 DEF Left, Beyond
  <2> QED
    BY <1>2, <1>4, <1>6, <2>1, NormalWould
<1>8. Owes(g, Place, client, t)
  BY <1>4, <1>6, <1>7, StringWould
<1> QED
  BY <1>1, <1>2, <1>8, GoOnAdvances

LEMMA TrailingQuoteAdvances ==
  ASSUME TextInv, String_TrailingQuote, NEW t, Owes(Top, Place, client, t)
  PROVE  Advances(t)
<1> DEFINE q == <<Quote>>
           i == Top.dwCurrentIndex
           g(k) == [Top EXCEPT !.dwCurrentIndex = @ + k]
<1>1. Handling("String") /\ Top.state = "Normal" /\ Left(Top) = << >>
  BY DEF String_TrailingQuote, StringIn
<1>2. /\ SerInv /\ TypeOK /\ Running /\ at # "behind" /\ t \in Text /\ Top \in StringFrame
      /\ OwesString(Top, t) /\ i \in Nat /\ Len(Top.bData) \in Nat
      /\ i <= Len(Top.bData) => i = Len(Top.bData)
  <2> DEFINE w == Left(Top)
  <2>1. Len(w) = 0
    BY <1>1
  <2> HIDE DEF w, i
  <2>2. /\ SerInv /\ TypeOK /\ Running /\ at # "behind" /\ t \in Text /\ Top \in StringFrame
        /\ OwesString(Top, t) /\ i \in Nat /\ Len(Top.bData) \in Nat
        /\ i <= Len(Top.bData) => Len(w) = Len(Top.bData) - i
    BY <1>1, StringOwing DEF w, i
  <2> QED
    BY <2>1, <2>2
<1>3. << >> \in Text /\ q \in Text /\ q = q \o << >> /\ q = << >> \o q
  BY ByteSet, Concat
<1>4. CASE i > Len(Top.bData)
  <2>1. Pop /\ Fixed /\ UNCHANGED out
    BY <1>4 DEF String_TrailingQuote, QuoteWritten
  <2>2. t = << >>
    <3>1. ~(i <= Len(Top.bData))
      BY <1>2, <1>4
    <3> QED
      BY <1>1, <1>2, <3>1 DEF OwesString
  <2>3. out' = out \o t
    <3>1. out \in Text
      BY <1>2, OctetText DEF TypeOK
    <3> QED
      BY <2>1, <2>2, <3>1, Concat
  <2> QED
    BY <2>1, <2>3 DEF Pop, Popped, Advances
<1>5. CASE i <= Len(Top.bData)
  <2>1. i = Len(Top.bData) /\ ~(i > Len(Top.bData))
    BY <1>2, <1>5
  <2>2. t = q
    <3>1. Spells(<< >>, t)
      BY <1>1, <1>2, <2>1 DEF OwesString
    <3> QED
      BY <3>1, SpellsNothing
  <2>3. PICK a \in Answer(1) :
          /\ out' = out \o Visible(q, a.taken) /\ Fixed
          /\ IF a.e = "Ok" /\ a.taken = 1 THEN Pop
             ELSE /\ lpTopOfStack' = SetTop(g(a.taken)) /\ UNCHANGED heap
                  /\ IF a.e = "Ok" THEN UNCHANGED <<at, status>> ELSE Return(a.e)
    BY <2>1, Len(<<Quote>>) = 1 DEF String_TrailingQuote, QuoteWritten, WriteLast
  <2>4. /\ a.taken \in 0 .. 1 /\ a.e \in {"Ok", "UserError"} /\ (a.e = "Ok" => a.taken = 1)
    BY <1>2, OneByte
  <2>5. Visible(q, 0) = << >> /\ Visible(q, 1) = q
    BY ByteSet, VisibleIs
  <2>6. /\ g(0) = Top /\ g(1).type = "String" /\ g(1).state = "Normal"
        /\ g(1).bData = Top.bData /\ g(1).dwCurrentIndex = i + 1
    BY <1>1, <1>2, StringSteps, "Normal" \in StringState DEF StringState
  <2> HIDE DEF q, g
  <2>7. CASE a.e = "Ok"
    <3>1. WroteLast(q, 1)
      BY <2>3, <2>4, <2>7 DEF WroteLast
    <3> QED
      BY <2>2, <2>5, <3>1, PopAdvances
  <2>8. ASSUME NEW f, NEW p \in Text, NEW u \in Text, t = p \o u, out' = out \o p,
               lpTopOfStack' = SetTop(f), Fixed, status' = "UserError", at' = "enter",
               Owes(f, Place, client, u)
        PROVE  Advances(t)
    <3>1. Replaced(t, f, p, u)
      BY <2>8 DEF Replaced
    <3> QED
      BY <2>8, <3>1 DEF Advances
  <2>9. CASE a.e # "Ok"
    <3>1. /\ out' = out \o Visible(q, a.taken) /\ Fixed /\ lpTopOfStack' = SetTop(g(a.taken))
          /\ status' = "UserError" /\ at' = "enter"
      BY <2>3, <2>4, <2>9 DEF Return
    <3>2. CASE a.taken = 0
      <4>1. out' = out \o << >> /\ lpTopOfStack' = SetTop(Top)
        BY <2>5, <2>6, <3>1, <3>2
      <4> QED
        BY <1>2, <1>3, <2>2, <2>8, <3>1, <4>1
    <3>3. CASE a.taken = 1
      <4>1. out' = out \o q /\ lpTopOfStack' = SetTop(g(1))
        BY <2>5, <3>1, <3>3
      <4>2. Owes(g(1), Place, client, << >>)
        <5>1. g(1).dwCurrentIndex > Len(g(1).bData)
          BY <1>2, <2>1, <2>6
        <5>2. OwesString(g(1), << >>)
          BY <2>6, <5>1 DEF OwesString
        <5> QED
          BY <1>3, <2>6, <5>2, StringWould
      <4> QED
        BY <1>3, <2>2, <2>8, <3>1, <4>1, <4>2
    <3> QED
      BY <2>4, <3>2, <3>3
  <2> QED
    BY <2>7, <2>9
<1> QED
  BY <1>2, <1>4, <1>5

-----------------------------------------------------------------------------
(* Every step of a running call deals with what is due. *)
LEMMA DueIs ==
  ASSUME TextInv, Running
  PROVE  \E t : Due(t) /\ Owes(Top, Place, client, t)
<1>1. /\ Below \in Seq(Frame) /\ Top \in Frame /\ lpTopOfStack # << >>
      /\ lpTopOfStack = Append(Below, Top) /\ Len(Below) + 1 = Place
  BY RunningTop DEF TextInv, Place
<1>2. PICK R : Pending(lpTopOfStack, client, R) /\ out \o R = DocText[doc]
  BY <1>1 DEF TextInv
<1> DEFINE b == Below
           f == Top
<1>3. Pending(Append(b, f), client, R) /\ b \in Seq(Frame) /\ f \in Frame /\ Len(b) + 1 = Place
  BY <1>1, <1>2
<1> HIDE DEF b, f
<1>4. PICK t, Q : Pending(b, client, Q) /\ Owes(f, Place, client, t) /\ R = t \o Q
  BY <1>3, PendingAppend
<1> QED
  BY <1>2, <1>4 DEF Due, b, f

LEMMA StepAdvances ==
  ASSUME WritableDocuments, TextInv, Step
  PROVE  \E t : Due(t) /\ Advances(t)
<1>1. CASE Object_Trailer
  BY <1>1, ObjectTrailerAdvances
<1>2. CASE ~Object_Trailer
  <2>1. Running
    BY DEF Step, Continue_Constant, Continue_Number, Continue_Array, Array_Header,
       Array_Separator, Array_Element, Array_Trailer, Continue_Object, Object_Header,
       Object_Select, Object_Indent, Object_CreateKey, Object_PushKey, Object_ReleaseKey,
       Object_Colon, Object_PushMember, Object_NextEntry, Object_Separator, Object_Leave,
       Object_Trailer, Object_Spin, Continue_String, String_LeadingQuote, String_Decode,
       String_Escape, String_Direct, String_Escaped, String_Unicode, String_UnicodeEnd,
       String_TrailingQuote, InState, StringIn, Handling
  <2>2. PICK t : Due(t) /\ Owes(Top, Place, client, t)
    BY <2>1, DueIs
  <2>3. CASE Continue_Constant
    BY <2>2, <2>3, ConstantAdvances
  <2>4. CASE Continue_Number
    BY <2>2, <2>4, NumberAdvances
  <2>5. CASE Continue_Array
    BY <2>2, <2>5, ArrayHeaderAdvances, ArraySeparatorAdvances, ArrayElementAdvances,
       ArrayTrailerAdvances
    DEF Continue_Array
  <2>6. CASE Continue_Object
    BY <1>2, <2>2, <2>6, ObjectHeaderAdvances, ObjectSelectAdvances, ObjectIndentAdvances,
       ObjectCreateKeyAdvances, ObjectPushKeyAdvances, ObjectReleaseKeyAdvances,
       ObjectColonAdvances, ObjectPushMemberAdvances, ObjectNextEntryAdvances,
       ObjectSeparatorAdvances, ObjectLeaveAdvances, ObjectSpinAdvances
    DEF Continue_Object
  <2>7. CASE Continue_String
    BY <2>2, <2>7, LeadingQuoteAdvances, DecodeAdvances, EscapeAdvances, DirectAdvances,
       EscapedAdvances, UnicodeAdvances, UnicodeEndAdvances, TrailingQuoteAdvances
    DEF Continue_String
  <2> QED
    BY <2>3, <2>4, <2>5, <2>6, <2>7 DEF Step
<1> QED
  BY <1>1, <1>2

LEMMA StepWrites ==
  ASSUME WritableDocuments, TextInv, Step
  PROVE  TextInv' /\ [Writer!Next]_Writer!vars
<1>1. PICK t : Due(t) /\ Advances(t)
  BY StepAdvances
<1>2. SerInv' /\ Running
  <2>1. SerInv
    BY DEF TextInv
  <2>2. Running
    BY DEF Step, Continue_Constant, Continue_Number, Continue_Array, Array_Header,
       Array_Separator, Array_Element, Array_Trailer, Continue_Object, Object_Header,
       Object_Select, Object_Indent, Object_CreateKey, Object_PushKey, Object_ReleaseKey,
       Object_Colon, Object_PushMember, Object_NextEntry, Object_Separator, Object_Leave,
       Object_Trailer, Object_Spin, Continue_String, String_LeadingQuote, String_Decode,
       String_Escape, String_Direct, String_Escaped, String_Unicode, String_UnicodeEnd,
       String_TrailingQuote, InState, StringIn, Handling
  <2> QED
    BY <2>1, <2>2, StepKept
<1> QED
  BY <1>1, <1>2, Progress

-----------------------------------------------------------------------------
(* The client. *)
LEMMA StillOwed ==
  ASSUME TextInv, SerInv', UNCHANGED <<client, lpTopOfStack, doc, out>>,
         at' # "behind" \/ UNCHANGED <<at, status>>
  PROVE  TextInv'
<1>1. Below' = Below /\ Top' = Top /\ Place' = Place
  BY DEF Below, Top, Place
<1>2. doc' # None => \E R : Pending(lpTopOfStack', client', R) /\ out' \o R = DocText[doc']
  BY DEF TextInv
<1>3. at' = "behind" => Running' /\ InTrailer(Top') /\ Due(<<RBrace>>)'
  <2> SUFFICES ASSUME at' = "behind" PROVE Running' /\ InTrailer(Top') /\ Due(<<RBrace>>)'
    OBVIOUS
  <2>1. status' = status /\ at = "behind"
    OBVIOUS
  <2>2. Running /\ InTrailer(Top) /\ Due(<<RBrace>>)
    BY <2>1 DEF TextInv
  <2>3. Due(<<RBrace>>)'
    BY <1>1, <2>2 DEF Due
  <2> QED
    BY <1>1, <2>1, <2>2, <2>3 DEF Running
<1> QED
  BY <1>2, <1>3 DEF TextInv

LEMMA Stutters ==
  ASSUME UNCHANGED <<doc, out>>, Phase' = Phase
  PROVE  [Writer!Next]_Writer!vars
<1>1. Rest' = Rest
  BY DEF Rest
<1> QED
  BY <1>1 DEF Writer!vars

LEMMA CreateWrites ==
  ASSUME TextInv, SerInv', NEW c \in Client, cjsonSerializer_Create(c)
  PROVE  TextInv' /\ [Writer!Next]_Writer!vars
<1>1. /\ lpTopOfStack = << >> /\ ~Running /\ at # "behind"
      /\ UNCHANGED <<lpTopOfStack, at, doc, out>> /\ status' \in {"Ok", "OutOfMemory"}
  BY DEF cjsonSerializer_Create, TextInv, SerInv
<1>2. doc' # None => \E R : Pending(lpTopOfStack', client', R) /\ out' \o R = DocText[doc']
  BY <1>1, PendingEmpty DEF TextInv
<1>3. TextInv'
  BY <1>1, <1>2 DEF TextInv
<1>4. Phase' = Phase
  BY <1>1 DEF Phase, Running
<1> QED
  BY <1>1, <1>3, <1>4, Stutters

LEMMA SerializeWrites ==
  ASSUME WritableDocuments, TextInv, SerInv', NEW n \in client.roots, cjsonSerializer_Serialize(n)
  PROVE  TextInv' /\ [Writer!Next]_Writer!vars
<1>1. ~Running /\ at # "behind" /\ UNCHANGED <<lpSerializer, client, at>>
  BY DEF cjsonSerializer_Serialize, Ready, TextInv
<1>2. n \in Node /\ (client.failure = "late" => Arrayless(n))
  BY WriterAssumption DEF TextInv, SerInv, TypeOK, Nobody, WritableDocuments
<1> DEFINE h == NewFrame(n, Fresh)
<1>3. CASE /\ UNCHANGED <<lpTopOfStack, heap, doc, out>>
           /\ status' \in {"InvalidState", "OutOfMemory"}
  <2>1. Phase' = Phase
    BY <1>1, <1>3 DEF Phase, Running
  <2> QED
    BY <1>1, <1>3, <2>1, StillOwed, Stutters
<1>4. CASE /\ lpTopOfStack = << >> /\ lpTopOfStack' = <<h>>
           /\ status' = "Running" /\ doc' = n /\ out' = << >>
  <2> DEFINE T == DocText[n]
             e == << >>
  <2>1. T \in Text /\ n # None /\ e \in Text /\ e \o T = T /\ T \o e = T
    BY <1>2, DocTextType, NodeAssumption, Concat
  <2>2. Owes(h, 1, client, T)
    BY <1>2, NewFrameOwes
  <2>3. h \in Frame /\ e \in Seq(Frame) /\ Append(e, h) = <<h>> /\ Len(e) + 1 = 1
    <3>1. <<h>> \in Seq(Frame)
      BY <1>4 DEF SerInv, TypeOK
    <3> HIDE DEF h
    <3>2. <<h>>[1] \in Frame
      BY <3>1, ElementOfSeq, Len(<<h>>) = 1
    <3> QED
      BY <3>2
  <2>4. Pending(e, client, e)
    BY PendingEmpty
  <2> HIDE DEF T, e, h
  <2>5. Pending(<<h>>, client, T)
    <3>1. Pending(Append(e, h), client, T)
      BY <2>1, <2>2, <2>3, <2>4, PendingAppend, Zenon
    <3> QED
      BY <2>3, <3>1
  <2>6. out' \o T = DocText[doc']
    BY <1>4, <2>1 DEF T, e
  <2>7. TextInv'
    BY <1>1, <1>4, <2>1, <2>5, <2>6 DEF TextInv
  <2>8. Rest' = T
    BY <1>4, <2>1, <2>6, RestIsNext DEF e
  <2>9. Phase = "idle" /\ Phase' = "writing"
    BY <1>1, <1>4 DEF Phase, Running
  <2>10. Writer!Begin(T)
    BY <1>4, <2>8, <2>9 DEF Writer!Begin
  <2>11. T \in {DocText[m] : m \in Node}
    BY <1>2 DEF T
  <2> QED
    BY <2>7, <2>10, <2>11 DEF Writer!Next
<1> QED
  BY <1>3, <1>4 DEF cjsonSerializer_Serialize

LEMMA ContinueWrites ==
  ASSUME TextInv, SerInv', cjsonSerializer_Continue
  PROVE  TextInv' /\ [Writer!Next]_Writer!vars
<1>1. ~Running /\ at # "behind" /\ UNCHANGED <<client, lpTopOfStack, at, doc, out>>
  BY DEF cjsonSerializer_Continue, Ready, TextInv
<1>2. TextInv'
  BY <1>1, StillOwed
<1>3. CASE lpTopOfStack = << >>
  <2>1. Phase' = Phase
    BY <1>1, <1>3 DEF Phase, Running, cjsonSerializer_Continue
  <2> QED
    BY <1>1, <1>2, <2>1, Stutters
<1>4. CASE lpTopOfStack # << >>
  <2>1. Phase = "suspended" /\ Phase' = "writing"
    BY <1>1, <1>4 DEF Phase, Running, cjsonSerializer_Continue
  <2>2. Rest' = Rest
    BY <1>1 DEF Rest
  <2>3. Writer!Resume
    BY <1>1, <2>1, <2>2 DEF Writer!Resume
  <2> QED
    BY <1>2, <2>3 DEF Writer!Next
<1> QED
  BY <1>3, <1>4

LEMMA ReleaseWrites ==
  ASSUME TextInv, SerInv', cjsonSerializer_Release
  PROVE  TextInv' /\ [Writer!Next]_Writer!vars
<1>1. ~Running /\ at # "behind"
  BY DEF cjsonSerializer_Release, Ready, TextInv
<1>2. CASE /\ lpTopOfStack # << >> /\ status' = "ImplementationError"
           /\ UNCHANGED <<lpSerializer, client, lpTopOfStack, at, heap, doc, out>>
  <2>1. Phase' = Phase
    BY <1>1, <1>2 DEF Phase, Running
  <2> QED
    BY <1>1, <1>2, <2>1, StillOwed, Stutters
<1>3. CASE /\ status' \in {"Ok", "Undefined"}
           /\ lpTopOfStack' = << >> /\ at' = "enter" /\ doc' = None /\ out' = << >>
  <2>1. TextInv'
    BY <1>3 DEF TextInv
  <2>2. Phase # "writing" /\ Phase' = "idle" /\ Rest' = << >>
    BY <1>1, <1>3 DEF Phase, Running, Rest
  <2>3. Writer!GiveUp
    BY <1>3, <2>2 DEF Writer!GiveUp
  <2> QED
    BY <2>1, <2>3 DEF Writer!Next
<1> QED
  BY <1>2, <1>3 DEF cjsonSerializer_Release

LEMMA TextNext ==
  ASSUME WritableDocuments, TextInv, [Next]_vars
  PROVE  TextInv' /\ [Writer!Next]_Writer!vars
<1>1. SerInv'
  BY SerNext DEF TextInv
<1>2. CASE UNCHANGED vars
  <2>1. UNCHANGED <<client, lpTopOfStack, at, status, doc, out>>
    BY <1>2 DEF vars
  <2>2. Phase' = Phase
    BY <2>1 DEF Phase, Running
  <2> QED
    BY <1>1, <2>1, <2>2, StillOwed, Stutters
<1>3. CASE \E c \in Client : cjsonSerializer_Create(c)
  BY <1>1, <1>3, CreateWrites
<1>4. CASE \E n \in client.roots : cjsonSerializer_Serialize(n)
  BY <1>1, <1>4, SerializeWrites
<1>5. CASE cjsonSerializer_Continue
  BY <1>1, <1>5, ContinueWrites
<1>6. CASE cjsonSerializer_Release
  BY <1>1, <1>6, ReleaseWrites
<1>7. CASE Step
  BY <1>7, StepWrites
<1> QED
  BY <1>2, <1>3, <1>4, <1>5, <1>6, <1>7 DEF Next

LEMMA TextInit == Init => TextInv /\ Writer!Init
<1> SUFFICES ASSUME Init PROVE TextInv /\ Writer!Init
  OBVIOUS
<1>1. TextInv
  BY SerInit DEF Init, TextInv
<1>2. Phase = "idle" /\ out = << >> /\ Rest = << >>
  BY DEF Init, Phase, Running, Rest
<1> QED
  BY <1>1, <1>2 DEF Writer!Init

(* What has reached the callback is, at every moment, the beginning of the   *)
(* text of the document: every byte of it once and in order, wherever writing *)
(* was interrupted, refused or resumed, and a call that ends the document has *)
(* written all of it.  So the serializer implements DocumentWriter, for the   *)
(* documents and callbacks WritableDocuments describes.                       *)
THEOREM DocumentsAreWritten ==
  ASSUME WritableDocuments
  PROVE  Spec => WritesTheDocument
<1>1. TextInv /\ [Next]_vars => TextInv' /\ [Writer!Next]_Writer!vars
  BY TextNext
<1> QED
  BY <1>1, TextInit, PTL DEF Spec, WritesTheDocument, Writer!Spec
=============================================================================
