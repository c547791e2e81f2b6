------------------------- MODULE CjsonValues_proofs -------------------------
(***************************************************************************)
(* Who owns which value: what the client builds is a forest, no block has  *)
(* two owners, none is lost or freed by the wrong allocator but those of   *)
(* arrays, and the calls that read a container agree; for every pool, number *)
(* of buckets, page size, hash function and set of created values.         *)
(*                                                                         *)
(* A call changes one cell and releases one tree.  The cells are described *)
(* by what they hold, the trees by reachability in a forest, the counters of *)
(* the allocators as totals over the live values.                          *)
(***************************************************************************)
EXTENDS CjsonValues, CjsonInduction_proofs, SequencesExt

-----------------------------------------------------------------------------
(* Sequences of sequences: where each row ends in the flattened one. *)
Lens(ss) == [i \in 1 .. Len(ss) |-> Len(ss[i])]
Offsets(off, ss) == Ends(off, Lens(ss), Len(ss))
Laid(s, off, ss, n) ==
  /\ Len(s) = off[n]
  /\ \A i \in 1 .. n : \A j \in 1 .. Len(ss[i]) : s[off[i - 1] + j] = ss[i][j]

(* Each row is a sequence of its own. *)
LEMMA RowsAre ==
  ASSUME NEW S, NEW ss \in Seq(Seq(S))
  PROVE  /\ Len(ss) \in Nat
         /\ \A i \in 1 .. Len(ss) : ss[i] \in Seq(S) /\ Len(ss[i]) \in Nat /\ Lens(ss)[i] = Len(ss[i])
<1>1. Len(ss) \in Nat
  BY LenProperties
<1>2. ASSUME NEW i \in 1 .. Len(ss) PROVE ss[i] \in Seq(S) /\ Len(ss[i]) \in Nat
  <2>1. ss[i] \in Seq(S)
    BY ElementOfSeq
  <2> QED
    BY <2>1, LenProperties
<1> QED
  BY <1>1, <1>2 DEF Lens

(* Where the rows end can be computed. *)
LEMMA OffsetsExist ==
  ASSUME NEW S, NEW ss \in Seq(Seq(S))
  PROVE  \E off : Offsets(off, ss)
<1>1. Len(ss) \in Nat /\ \A i \in 1 .. Len(ss) : Lens(ss)[i] \in Nat
  BY RowsAre
<1> QED
  BY <1>1, EndsExist DEF Offsets

(* One row more. *)
LEMMA LaidRow ==
  ASSUME NEW S, NEW ss \in Seq(Seq(S)), NEW off, Offsets(off, ss),
         NEW s \in Seq(S), NEW n \in Nat, n + 1 <= Len(ss), Laid(s, off, ss, n)
  PROVE  s \o ss[n + 1] \in Seq(S) /\ Laid(s \o ss[n + 1], off, ss, n + 1)
<1>0. n + 1 \in 1 .. Len(ss) /\ n \in 0 .. Len(ss) /\ Len(ss) \in Nat /\ n + 1 - 1 = n /\ n + 1 \in 0 .. Len(ss)
  BY RowsAre
<1> DEFINE r == ss[n + 1]
           t == s \o r
<1>1. r \in Seq(S) /\ Len(r) \in Nat /\ Lens(ss)[n + 1] = Len(r)
  BY <1>0, RowsAre
<1>2. off[n + 1] = off[n] + Len(r) /\ off[n] \in Nat /\ Len(s) = off[n]
  BY <1>0, <1>1 DEF Offsets, Ends, Laid
<1>3. /\ t \in Seq(S) /\ Len(t) = Len(s) + Len(r)
      /\ \A i \in 1 .. Len(s) + Len(r) : t[i] = IF i <= Len(s) THEN s[i] ELSE r[i - Len(s)]
  BY <1>1, ConcatProperties
<1> DEFINE l == Len(r)
           a == off[n]
<1>5. a \in Nat /\ l \in Nat /\ off[n + 1] = a + l
  BY <1>1, <1>2
<1>6. Len(t) = a + l
  BY <1>2, <1>3
<1>7. \A i \in 1 .. a + l : t[i] = IF i <= a THEN s[i] ELSE r[i - a]
  BY <1>2, <1>3
<1> HIDE DEF t, l, a
<1>4. ASSUME NEW i \in 1 .. n + 1, NEW j \in 1 .. Len(ss[i])
      PROVE  t[off[i - 1] + j] = ss[i][j]
  <2>1. CASE i = n + 1
    <3>1. i - 1 = n /\ j \in 1 .. l
      BY <2>1 DEF l
    <3> HIDE DEF r
    <3>2. a + j \in 1 .. a + l /\ ~(a + j <= a) /\ a + j - a = j
      BY <1>5, <3>1
    <3>3. t[a + j] = r[j]
      BY <1>5, <1>7, <3>1, <3>2
    <3> QED
      BY <2>1, <3>1, <3>3 DEF a, r
  <2>2. CASE i \in 1 .. n
    <3>1. s[off[i - 1] + j] = ss[i][j]
      BY <2>2 DEF Laid
    <3>2. i \in 0 .. n /\ i \in 1 .. Len(ss) /\ i - 1 \in 0 .. Len(ss)
      BY <1>0, <2>2
    <3>3. off[i] <= a
      <4>1. off[i] <= off[n]
        BY <1>0, <3>2, EndsGrow DEF Offsets
      <4> QED
        BY <4>1 DEF a
    <3>4. off[i] = off[i - 1] + Len(ss[i]) /\ off[i - 1] \in Nat /\ Len(ss[i]) \in Nat
      <4>1. Lens(ss)[i] = Len(ss[i]) /\ Len(ss[i]) \in Nat
        BY <3>2, RowsAre
      <4> QED
        BY <3>2, <4>1 DEF Offsets, Ends
    <3>5. off[i - 1] + j \in 1 .. a + l /\ off[i - 1] + j <= a
      <4> DEFINE x == off[i]
                 y == off[i - 1]
                 m == Len(ss[i])
      <4>1. j \in 1 .. m /\ x = y + m /\ y \in Nat /\ m \in Nat /\ x <= a
        BY <3>3, <3>4
      <4> HIDE DEF x, y, m
      <4>2. y + j \in 1 .. a + l /\ y + j <= a
        BY <1>5, <4>1
      <4> QED
        BY <4>2 DEF y
    <3> QED
      BY <1>7, <3>1, <3>5
  <2> QED
    BY <2>1, <2>2
<1>8. Len(t) = off[n + 1]
  BY <1>5, <1>6
<1>9. t \in Seq(S) /\ Laid(t, off, ss, n + 1)
  BY <1>3, <1>4, <1>8 DEF Laid
<1> QED
  BY <1>9 DEF t

(* FlattenSeq lays the rows out one after another. *)
LEMMA FlattenLaid ==
  ASSUME NEW S, NEW ss \in Seq(Seq(S)), NEW off, Offsets(off, ss)
  PROVE  FlattenSeq(ss) \in Seq(S) /\ Laid(FlattenSeq(ss), off, ss, Len(ss))
<1> DEFINE n == Len(ss)
<1>1. n \in Nat /\ \A i \in 1 .. n : ss[i] \in Seq(S) /\ Len(ss[i]) \in Nat
  BY RowsAre
<1>2. CASE n = 0
  <2>1. ss = << >> /\ << >> \in Seq(S) /\ Len(<< >>) = 0
    BY <1>2, EmptySeq
  <2>2. FlattenSeq(ss) = << >>
    BY <1>2, <2>1 DEF FlattenSeq
  <2>3. off[0] = 0
    BY DEF Offsets, Ends
  <2>4. Laid(<< >>, off, ss, 0)
    BY <2>1, <2>3 DEF Laid
  <2> QED
    BY <1>2, <2>1, <2>2, <2>4
<1>3. CASE n # 0
  <2> DEFINE f == CHOOSE f : Flattens(f, ss, n)
             T == {k \in Nat : k + 1 \in 1 .. n => f[k + 1] \in Seq(S) /\ Laid(f[k + 1], off, ss, k + 1)}
  <2>1. Flattens(f, ss, n)
    BY <1>1, FlattenExists
  <2> HIDE DEF f
  <2>2. \A i \in 1 .. n : f[i] = IF i = 1 THEN ss[i] ELSE f[i - 1] \o ss[i]
    BY <2>1 DEF Flattens
  <2>3. 0 \in T
    <3>1. << >> \in Seq(S) /\ Len(<< >>) = 0
      BY EmptySeq
    <3>2. off[0] = 0
      BY DEF Offsets, Ends
    <3>3. Laid(<< >>, off, ss, 0)
      BY <3>1, <3>2 DEF Laid
    <3>4. 1 \in 1 .. n /\ 0 + 1 = 1 /\ 0 + 1 <= n
      BY <1>1, <1>3
    <3>5. << >> \o ss[0 + 1] \in Seq(S) /\ Laid(<< >> \o ss[0 + 1], off, ss, 0 + 1)
      BY <3>1, <3>3, <3>4, LaidRow
    <3>6. << >> \o ss[1] = ss[1] /\ f[1] = ss[1]
      BY <1>1, <2>2, <3>4, ConcatEmptySeq
    <3> QED
      BY <3>4, <3>5, <3>6
  <2>4. ASSUME NEW k \in T PROVE k + 1 \in T
    <3>0. k \in Nat
      OBVIOUS
    <3> SUFFICES ASSUME k + 1 + 1 \in 1 .. n
                 PROVE  f[k + 1 + 1] \in Seq(S) /\ Laid(f[k + 1 + 1], off, ss, k + 1 + 1)
      BY <3>0
    <3>1. k + 1 \in 1 .. n /\ k + 1 \in Nat /\ k + 1 + 1 # 1 /\ k + 1 + 1 - 1 = k + 1 /\ k + 1 + 1 <= n
      BY <1>1, <3>0
    <3>2. f[k + 1] \in Seq(S) /\ Laid(f[k + 1], off, ss, k + 1)
      BY <3>1
    <3>3. f[k + 1 + 1] = f[k + 1] \o ss[k + 1 + 1]
      <4> DEFINE m == k + 1 + 1
      <4>1. m \in 1 .. n /\ m # 1 /\ m - 1 = k + 1
        BY <3>1
      <4> HIDE DEF T, m
      <4>2. f[m] = f[m - 1] \o ss[m]
        BY <2>2, <4>1
      <4> QED
        BY <4>1, <4>2 DEF m
    <3>4. f[k + 1] \o ss[k + 1 + 1] \in Seq(S) /\ Laid(f[k + 1] \o ss[k + 1 + 1], off, ss, k + 1 + 1)
      <4> DEFINE m == k + 1
      <4>1. m \in Nat /\ m + 1 <= Len(ss) /\ f[m] \in Seq(S) /\ Laid(f[m], off, ss, m)
        BY <3>1, <3>2
      <4> HIDE DEF T, m
      <4>2. f[m] \o ss[m + 1] \in Seq(S) /\ Laid(f[m] \o ss[m + 1], off, ss, m + 1)
        BY <4>1, LaidRow
      <4> QED
        BY <4>2 DEF m
    <3> QED
      BY <3>3, <3>4
  <2>5. T = Nat
    <3> HIDE DEF T
    <3>1. T \in SUBSET Nat
      BY DEF T
    <3> QED
      BY <2>3, <2>4, <3>1, SetInduction
  <2>6. n - 1 \in Nat /\ n - 1 + 1 = n /\ n \in 1 .. n
    BY <1>1, <1>3
  <2>7. n - 1 + 1 \in 1 .. n => f[n - 1 + 1] \in Seq(S) /\ Laid(f[n - 1 + 1], off, ss, n - 1 + 1)
    BY <2>5, <2>6
  <2>8. f[n] \in Seq(S) /\ Laid(f[n], off, ss, n)
    BY <2>6, <2>7
  <2>9. FlattenSeq(ss) = f[n]
    BY <1>3 DEF FlattenSeq, f, Flattens
  <2> QED
    BY <2>8, <2>9
<1> QED
  BY <1>2, <1>3

Placed(off, len, n, k) == \E i \in 1 .. n : \E j \in 1 .. len[i] : k = off[i - 1] + j
Moved(off, oft, c, d, m) == oft[m] = IF m >= c THEN off[m] + d ELSE off[m]

(* Every place up to the end lies in a row, for every choice of the rows. *)
LEMMA PlacedAll ==
  \A len, n, off, k : n \in Nat /\ Ends(off, len, n) /\ k \in 1 .. off[n] => Placed(off, len, n, k)
BY PlaceExists DEF Placed

(* A row longer by d moves the ends behind it. *)
LEMMA MovedAll ==
  ASSUME NEW len, NEW ext, NEW n \in Nat, NEW off, Ends(off, len, n), NEW oft, Ends(oft, ext, n),
         NEW c \in Nat \ {0}, NEW d \in Nat,
         \A i \in 1 .. n : ext[i] = IF i = c THEN len[i] + d ELSE len[i],
         NEW m \in 0 .. n
  PROVE  Moved(off, oft, c, d, m)
BY EndsShift DEF Moved

(* The same, for a sequence of sequences. *)
LEMMA OffsetsPlace ==
  ASSUME NEW S, NEW ss \in Seq(Seq(S)), NEW off, Offsets(off, ss), NEW k \in 1 .. off[Len(ss)]
  PROVE  \E i \in 1 .. Len(ss) : \E j \in 1 .. Len(ss[i]) : k = off[i - 1] + j
<1>1. Len(ss) \in Nat /\ \A i \in 1 .. Len(ss) : Lens(ss)[i] = Len(ss[i])
  BY RowsAre
<1>2. Ends(off, Lens(ss), Len(ss))
  BY DEF Offsets
<1>3. Placed(off, Lens(ss), Len(ss), k)
  BY <1>1, <1>2, PlacedAll
<1> QED
  BY <1>1, <1>3 DEF Placed

(* What is laid out as the rows are is the flattened sequence. *)
LEMMA LaidOnly ==
  ASSUME NEW S, NEW ss \in Seq(Seq(S)), NEW off, Offsets(off, ss),
         NEW t \in Seq(S), Laid(t, off, ss, Len(ss))
  PROVE  t = FlattenSeq(ss)
<1> DEFINE f == FlattenSeq(ss)
           n == Len(ss)
<1>1. f \in Seq(S) /\ Laid(f, off, ss, n)
  BY FlattenLaid
<1> HIDE DEF f
<1>2. Len(t) = off[n] /\ Len(f) = off[n]
  BY <1>1 DEF Laid
<1>3. ASSUME NEW k \in 1 .. off[n] PROVE t[k] = f[k]
  <2>3. PICK i \in 1 .. n : \E j \in 1 .. Len(ss[i]) : k = off[i - 1] + j
    BY OffsetsPlace
  <2>4. PICK j \in 1 .. Len(ss[i]) : k = off[i - 1] + j
    BY <2>3
  <2> QED
    BY <1>1, <2>4 DEF Laid
<1>4. t = f
  BY <1>1, <1>2, <1>3, SeqEqual
<1> QED
  BY <1>4 DEF f

(* Each place of a row is an element of the flattened sequence, and back. *)
LEMMA FlattenPlace ==
  ASSUME NEW S, NEW ss \in Seq(Seq(S)), NEW off, Offsets(off, ss),
         NEW i \in 1 .. Len(ss), NEW j \in 1 .. Len(ss[i])
  PROVE  /\ off[i - 1] + j \in 1 .. Len(FlattenSeq(ss))
         /\ FlattenSeq(ss)[off[i - 1] + j] = ss[i][j]
<1>1. FlattenSeq(ss) \in Seq(S) /\ Laid(FlattenSeq(ss), off, ss, Len(ss))
  BY FlattenLaid
<1>2. Len(ss) \in Nat /\ Lens(ss)[i] = Len(ss[i]) /\ Len(ss[i]) \in Nat
  BY RowsAre
<1>3. Ends(off, Lens(ss), Len(ss)) /\ Len(FlattenSeq(ss)) = off[Len(ss)]
  BY <1>1 DEF Offsets, Laid
<1>4. i \in 0 .. Len(ss) /\ Len(ss) \in 0 .. Len(ss) /\ i - 1 \in 0 .. Len(ss)
  BY <1>2
<1>5. off[i] <= off[Len(ss)]
  BY <1>2, <1>3, <1>4, EndsGrow
<1> DEFINE x == off[i - 1]
           y == off[i]
           z == off[Len(ss)]
           m == Len(ss[i])
<1>6. x \in Nat /\ y = x + m /\ m \in Nat /\ z \in Nat /\ y <= z /\ j \in 1 .. m
  BY <1>2, <1>3, <1>4, <1>5 DEF Ends
<1> HIDE DEF x, y, z, m
<1>7. x + j \in 1 .. z
  BY <1>6
<1> QED
  BY <1>1, <1>3, <1>7 DEF Laid, x, z

(* Every element of the flattened sequence stands in a row. *)
LEMMA FlattenBack ==
  ASSUME NEW S, NEW ss \in Seq(Seq(S)), NEW off, Offsets(off, ss),
         NEW k \in 1 .. Len(FlattenSeq(ss))
  PROVE  \E i \in 1 .. Len(ss) : \E j \in 1 .. Len(ss[i]) :
           k = off[i - 1] + j /\ FlattenSeq(ss)[k] = ss[i][j]
<1>1. FlattenSeq(ss) \in Seq(S) /\ Laid(FlattenSeq(ss), off, ss, Len(ss))
  BY FlattenLaid
<1>2. k \in 1 .. off[Len(ss)]
  BY <1>1 DEF Laid
<1>5. PICK i \in 1 .. Len(ss) : \E j \in 1 .. Len(ss[i]) : k = off[i - 1] + j
  BY <1>2, OffsetsPlace
<1>7. PICK j \in 1 .. Len(ss[i]) : k = off[i - 1] + j
  BY <1>5
<1>6. FlattenSeq(ss)[k] = ss[i][j]
  BY <1>7, FlattenPlace
<1> QED
  BY <1>6, <1>7

(* The elements of the flattened sequence are those of the rows. *)
LEMMA FlattenRange ==
  ASSUME NEW S, NEW ss \in Seq(Seq(S))
  PROVE  /\ FlattenSeq(ss) \in Seq(S)
         /\ \A x : x \in ToSet(FlattenSeq(ss)) <=>
                     \E i \in 1 .. Len(ss) : \E j \in 1 .. Len(ss[i]) : x = ss[i][j]
<1>1. PICK off : Offsets(off, ss)
  BY OffsetsExist
<1> DEFINE f == FlattenSeq(ss)
<1>2. f \in Seq(S)
  BY <1>1, FlattenLaid
<1>3. DOMAIN f = 1 .. Len(f)
  BY <1>2, LenProperties
<1>4. ASSUME NEW x \in ToSet(f)
      PROVE  \E i \in 1 .. Len(ss) : \E j \in 1 .. Len(ss[i]) : x = ss[i][j]
  <2>1. PICK k \in 1 .. Len(f) : x = f[k]
    BY <1>3 DEF ToSet
  <2> QED
    BY <1>1, <2>1, FlattenBack
<1>5. ASSUME NEW i \in 1 .. Len(ss), NEW j \in 1 .. Len(ss[i]) PROVE ss[i][j] \in ToSet(f)
  <2>1. off[i - 1] + j \in 1 .. Len(f) /\ f[off[i - 1] + j] = ss[i][j]
    BY <1>1, FlattenPlace
  <2> QED
    BY <1>3, <2>1 DEF ToSet
<1> QED
  BY <1>2, <1>4, <1>5

(* Two elements of the flattened sequence are as different as their places. *)
LEMMA FlattenApart ==
  ASSUME NEW S, NEW ss \in Seq(Seq(S)), NEW off, Offsets(off, ss),
         NEW i \in 1 .. Len(ss), NEW j \in 1 .. Len(ss[i]),
         NEW k \in 1 .. Len(ss), NEW l \in 1 .. Len(ss[k]), off[i - 1] + j = off[k - 1] + l
  PROVE  i = k /\ j = l
<1>1. Len(ss) \in Nat /\ Lens(ss)[i] = Len(ss[i]) /\ Lens(ss)[k] = Len(ss[k])
  BY RowsAre
<1>2. Ends(off, Lens(ss), Len(ss))
  BY DEF Offsets
<1>3. j \in 1 .. Lens(ss)[i] /\ l \in 1 .. Lens(ss)[k]
  BY <1>1
<1> QED
  BY <1>1, <1>2, <1>3, PlaceUnique

(* A row grows by d. *)
LEMMA FlattenLonger ==
  ASSUME NEW S, NEW ss \in Seq(Seq(S)), NEW rs \in Seq(Seq(S)), Len(rs) = Len(ss),
         NEW c \in 1 .. Len(ss), NEW d \in Nat,
         \A i \in 1 .. Len(ss) : Len(rs[i]) = IF i = c THEN Len(ss[i]) + d ELSE Len(ss[i])
  PROVE  Len(FlattenSeq(rs)) = Len(FlattenSeq(ss)) + d
<1> DEFINE n == Len(ss)
<1>1. n \in Nat /\ c \in Nat \ {0}
  BY RowsAre
<1>2. PICK off : Offsets(off, ss)
  BY OffsetsExist
<1>3. PICK oft : Offsets(oft, rs)
  BY OffsetsExist
<1>4. Ends(off, Lens(ss), n) /\ Ends(oft, Lens(rs), n)
  BY <1>2, <1>3 DEF Offsets
<1>5. \A i \in 1 .. n : Lens(ss)[i] = Len(ss[i]) /\ Lens(rs)[i] = Len(rs[i])
  BY RowsAre
<1>6. \A i \in 1 .. n : Lens(rs)[i] = IF i = c THEN Lens(ss)[i] + d ELSE Lens(ss)[i]
  BY <1>5
<1>7. n \in 0 .. n /\ n >= c
  BY <1>1
<1>8. oft[n] = IF n >= c THEN off[n] + d ELSE off[n]
  <2> DEFINE len == Lens(ss)
             ext == Lens(rs)
  <2>1. Ends(off, len, n) /\ Ends(oft, ext, n)
        /\ \A i \in 1 .. n : ext[i] = IF i = c THEN len[i] + d ELSE len[i]
    BY <1>4, <1>6
  <2> HIDE DEF len, ext, n
  <2>2. Moved(off, oft, c, d, n)
    BY <1>1, <1>7, <2>1, MovedAll
  <2> QED
    BY <2>2 DEF Moved
<1>9. Len(FlattenSeq(rs)) = oft[n] /\ Len(FlattenSeq(ss)) = off[n]
  BY <1>2, <1>3, FlattenLaid DEF Laid
<1> QED
  BY <1>7, <1>8, <1>9

(* One element changes. *)
Put(f, p, v) == [f EXCEPT ![p] = v]
SameLengths(rs, ss) == \A k \in 1 .. Len(ss) : Len(rs[k]) = Len(ss[k])
At(p, off, i, j) == p = off[i - 1] + j
PutAt(ss, i, j, v) == [ss EXCEPT ![i][j] = v]

(* The flattened sequence with one element replaced. *)
LEMMA FlattenPut ==
  ASSUME NEW S, NEW ss \in Seq(Seq(S)), NEW off, Offsets(off, ss),
         NEW i \in 1 .. Len(ss), NEW j \in 1 .. Len(ss[i]), NEW v \in S,
         NEW rs, rs = PutAt(ss, i, j, v), NEW p, At(p, off, i, j)
  PROVE  /\ rs \in Seq(Seq(S)) /\ Len(rs) = Len(ss)
         /\ SameLengths(rs, ss)
         /\ FlattenSeq(rs) = Put(FlattenSeq(ss), p, v)
         /\ p \in 1 .. Len(FlattenSeq(ss)) /\ FlattenSeq(ss)[p] = ss[i][j]
<1> DEFINE r == [ss[i] EXCEPT ![j] = v]
           f == FlattenSeq(ss)
           q == off[i - 1] + j
           t == [f EXCEPT ![p] = v]
<1>0. p = q
  BY DEF At
<1>1. ss[i] \in Seq(S)
  BY RowsAre
<1>2. r \in Seq(S) /\ Len(r) = Len(ss[i]) /\ \A l \in 1 .. Len(ss[i]) : r[l] = IF l = j THEN v ELSE ss[i][l]
  BY <1>1, ExceptSeq
<1> HIDE DEF r
<1>3. rs = [ss EXCEPT ![i] = r]
  BY DEF r, PutAt
<1>4. /\ rs \in Seq(Seq(S)) /\ Len(rs) = Len(ss)
      /\ \A k \in 1 .. Len(ss) : rs[k] = IF k = i THEN r ELSE ss[k]
  <2> DEFINE Q == Seq(S)
  <2>1. ss \in Seq(Q) /\ r \in Q
    BY <1>2
  <2> HIDE DEF Q
  <2> DEFINE x == [ss EXCEPT ![i] = r]
  <2>3. /\ x \in Seq(Q) /\ Len(x) = Len(ss)
        /\ \A k \in 1 .. Len(ss) : x[k] = IF k = i THEN r ELSE ss[k]
    BY <2>1, ExceptSeq
  <2>2. /\ rs \in Seq(Q) /\ Len(rs) = Len(ss)
        /\ \A k \in 1 .. Len(ss) : rs[k] = IF k = i THEN r ELSE ss[k]
    BY <1>3, <2>3
  <2> QED
    BY <2>2 DEF Q
<1>5. \A k \in 1 .. Len(ss) : Len(rs[k]) = Len(ss[k])
  BY <1>2, <1>4
<1>6. \A k \in 1 .. Len(ss) : \A l \in 1 .. Len(ss[k]) :
              rs[k][l] = IF k = i /\ l = j THEN v ELSE ss[k][l]
  BY <1>2, <1>4
<1>7. Offsets(off, rs)
  <2>1. Lens(rs) = Lens(ss)
    BY <1>4, <1>5 DEF Lens
  <2> QED
    BY <1>4, <2>1 DEF Offsets
<1>8. f \in Seq(S) /\ p \in 1 .. Len(f) /\ f[p] = ss[i][j] /\ Laid(f, off, ss, Len(ss))
  BY <1>0, FlattenLaid, FlattenPlace
<1> HIDE DEF f
<1>9. t \in Seq(S) /\ Len(t) = Len(f) /\ \A k \in 1 .. Len(f) : t[k] = IF k = p THEN v ELSE f[k]
  BY <1>8, ExceptSeq
<1> HIDE DEF t
<1>10. ASSUME NEW k \in 1 .. Len(rs), NEW l \in 1 .. Len(rs[k]) PROVE t[off[k - 1] + l] = rs[k][l]
  <2>1. k \in 1 .. Len(ss) /\ l \in 1 .. Len(ss[k])
    BY <1>4, <1>5
  <2>2. off[k - 1] + l \in 1 .. Len(f) /\ f[off[k - 1] + l] = ss[k][l]
    BY <2>1, FlattenPlace DEF f
  <2>3. off[k - 1] + l = p <=> k = i /\ l = j
    <3>1. off[k - 1] + l = q => k = i /\ l = j
      BY <2>1, FlattenApart
    <3> QED
      BY <1>0, <3>1
  <2>4. rs[k][l] = IF k = i /\ l = j THEN v ELSE ss[k][l]
    BY <1>6, <2>1
  <2>5. t[off[k - 1] + l] = IF off[k - 1] + l = p THEN v ELSE f[off[k - 1] + l]
    BY <1>9, <2>2
  <2> QED
    BY <2>2, <2>3, <2>4, <2>5
<1>11. Laid(t, off, rs, Len(rs))
  BY <1>4, <1>8, <1>9, <1>10 DEF Laid
<1>12. t = FlattenSeq(rs)
  BY <1>4, <1>7, <1>9, <1>11, LaidOnly
<1> QED
  BY <1>4, <1>5, <1>8, <1>12 DEF t, f, Put, SameLengths

-----------------------------------------------------------------------------
(* One element more in the flattened sequence. *)

(* The end of the row before k, with the first rows of two sequences alike. *)
LEMMA OffsetsMoved ==
  ASSUME NEW S, NEW ss \in Seq(Seq(S)), NEW rs \in Seq(Seq(S)), Len(ss) <= Len(rs),
         NEW off, Offsets(off, ss), NEW oft, Offsets(oft, rs),
         NEW c \in Nat \ {0}, NEW d \in Nat,
         \A i \in 1 .. Len(ss) : Len(rs[i]) = IF i = c THEN Len(ss[i]) + d ELSE Len(ss[i]),
         NEW m \in 0 .. Len(ss)
  PROVE  Moved(off, oft, c, d, m)
<1> DEFINE n == Len(ss)
           len == Lens(ss)
           ext == Lens(rs)
<1>1. n \in Nat /\ Len(rs) \in Nat /\ n \in 0 .. Len(rs) /\ m \in 0 .. n
  BY RowsAre
<1>2. Ends(off, len, n) /\ Ends(oft, ext, Len(rs))
  BY DEF Offsets
<1>3. \A i \in 1 .. n : len[i] = Len(ss[i]) /\ ext[i] = Len(rs[i])
  BY <1>1, RowsAre
<1>4. \A i \in 1 .. n : ext[i] = IF i = c THEN len[i] + d ELSE len[i]
  BY <1>3
<1> HIDE DEF n, len, ext
<1>5. Ends(oft, ext, n)
  BY <1>1, <1>2 DEF Ends
<1> QED
  BY <1>1, <1>2, <1>4, <1>5, MovedAll

(* An element is appended to the last row, or in a row of its own. *)
LastPushed(ss, v) == [ss EXCEPT ![Len(ss)] = Append(@, v)]
RowPushed(rs, ss, v) == \A k \in 1 .. Len(ss) : rs[k] = IF k = Len(ss) THEN Append(ss[k], v) ELSE ss[k]

(* The flattened sequence with one element more. *)
LEMMA FlattenPush ==
  ASSUME NEW S, NEW ss \in Seq(Seq(S)), Len(ss) # 0, NEW v \in S,
         NEW rs, rs = LastPushed(ss, v)
  PROVE  /\ rs \in Seq(Seq(S)) /\ Len(rs) = Len(ss)
         /\ RowPushed(rs, ss, v)
         /\ FlattenSeq(rs) = Append(FlattenSeq(ss), v)
<1> DEFINE n == Len(ss)
           r == Append(ss[n], v)
           f == FlattenSeq(ss)
           t == Append(f, v)
<1>1. n \in Nat \ {0} /\ n \in 1 .. n /\ n - 1 \in 0 .. n /\ n \in 0 .. n
  BY RowsAre
<1>2. ss[n] \in Seq(S) /\ Len(ss[n]) \in Nat
  BY <1>1, RowsAre
<1>3. /\ r \in Seq(S) /\ Len(r) = Len(ss[n]) + 1
      /\ \A l \in 1 .. Len(ss[n]) : r[l] = ss[n][l]
      /\ r[Len(ss[n]) + 1] = v
  BY <1>2, AppendProperties
<1> HIDE DEF r
<1>4. rs = [ss EXCEPT ![n] = r]
  BY DEF r, LastPushed
<1>5. /\ rs \in Seq(Seq(S)) /\ Len(rs) = n
      /\ \A k \in 1 .. n : rs[k] = IF k = n THEN r ELSE ss[k]
  <2> DEFINE Q == Seq(S)
             x == [ss EXCEPT ![n] = r]
  <2>1. ss \in Seq(Q) /\ r \in Q
    BY <1>3
  <2> HIDE DEF Q
  <2>2. /\ x \in Seq(Q) /\ Len(x) = n
        /\ \A k \in 1 .. n : x[k] = IF k = n THEN r ELSE ss[k]
    BY <1>1, <2>1, ExceptSeq
  <2> QED
    BY <1>4, <2>2 DEF Q
<1>6. PICK off : Offsets(off, ss)
  BY OffsetsExist
<1>7. PICK oft : Offsets(oft, rs)
  BY <1>5, OffsetsExist
<1>8. ASSUME NEW k \in 1 .. n PROVE Len(rs[k]) = IF k = n THEN Len(ss[k]) + 1 ELSE Len(ss[k])
  <2>1. CASE k = n
    <3>1. rs[k] = r /\ ss[k] = ss[n]
      BY <1>5, <2>1
    <3> QED
      BY <1>3, <2>1, <3>1
  <2>2. CASE k # n
    <3>1. rs[k] = ss[k]
      BY <1>5, <2>2
    <3> QED
      BY <2>2, <3>1
  <2> QED
    BY <2>1, <2>2
<1>9. ASSUME NEW m \in 0 .. n PROVE oft[m] = IF m >= n THEN off[m] + 1 ELSE off[m]
  <2> DEFINE c == n
             d == 1
  <2>4. Len(rs) = Len(ss) /\ Len(ss) \in Nat \ {0}
    BY <1>1, <1>5
  <2>5. Len(ss) <= Len(rs)
    BY <2>4
  <2>6. c \in Nat \ {0} /\ d \in Nat /\ m \in 0 .. Len(ss)
    BY <1>1
  <2>1. c \in Nat \ {0} /\ d \in Nat /\ Len(ss) <= Len(rs) /\ m \in 0 .. Len(ss)
    BY <2>5, <2>6
  <2>3. ASSUME NEW k \in 1 .. Len(ss)
        PROVE  Len(rs[k]) = IF k = c THEN Len(ss[k]) + d ELSE Len(ss[k])
    BY <1>8, Zenon
  <2> HIDE DEF c, d, n
  <2>2. Moved(off, oft, c, d, m)
    BY <1>5, <1>6, <1>7, <2>1, <2>3, OffsetsMoved
  <2> QED
    BY <2>2 DEF Moved, c, d
<1>10. f \in Seq(S) /\ Len(f) = off[n]
  BY <1>6, FlattenLaid DEF Laid
<1>11. off[n] \in Nat /\ off[n] = off[n - 1] + Len(ss[n]) /\ off[n - 1] \in Nat
  <2>1. Ends(off, Lens(ss), n) /\ Lens(ss)[n] = Len(ss[n])
    BY <1>1, <1>6, RowsAre DEF Offsets
  <2> QED
    BY <1>1, <2>1 DEF Ends
<1>12. /\ t \in Seq(S) /\ Len(t) = Len(f) + 1
       /\ \A i \in 1 .. Len(f) : t[i] = f[i]
       /\ t[Len(f) + 1] = v
  <2> HIDE DEF f
  <2> QED
    BY <1>10, AppendProperties
<1>13. ASSUME NEW k \in 1 .. n, NEW l \in 1 .. Len(rs[k]) PROVE t[oft[k - 1] + l] = rs[k][l]
  <2>1. k - 1 \in 0 .. n /\ ~(k - 1 >= n)
    BY <1>1
  <2>2. oft[k - 1] = off[k - 1]
    BY <1>9, <2>1
  <2>3. CASE l \in 1 .. Len(ss[k])
    <3>1. off[k - 1] + l \in 1 .. Len(f) /\ f[off[k - 1] + l] = ss[k][l]
      BY <1>6, <2>3, FlattenPlace
    <3>2. rs[k][l] = ss[k][l]
      BY <1>3, <1>5, <2>3
    <3> HIDE DEF f, t
    <3> QED
      BY <1>12, <2>2, <3>1, <3>2
  <2>4. CASE l \notin 1 .. Len(ss[k])
    <3>1. k = n /\ l = Len(ss[n]) + 1
      <4>1. Len(ss[k]) \in Nat
        BY RowsAre
      <4>2. Len(rs[k]) = IF k = n THEN Len(ss[k]) + 1 ELSE Len(ss[k])
        BY <1>8
      <4> DEFINE a == Len(ss[k])
                 b == Len(rs[k])
      <4>3. a \in Nat /\ b = (IF k = n THEN a + 1 ELSE a) /\ l \in 1 .. b /\ l \notin 1 .. a
        BY <2>4, <4>1, <4>2
      <4> HIDE DEF a, b
      <4>4. k = n /\ l = a + 1
        BY <4>3
      <4> QED
        BY <4>4 DEF a
    <3>2. rs[k][l] = v
      BY <1>3, <1>5, <3>1
    <3>3. oft[k - 1] + l = Len(f) + 1
      <4> DEFINE a == Len(ss[n])
                 x == off[n - 1]
                 y == off[n]
      <4>1. y = x + a /\ x \in Nat /\ a \in Nat
        BY <1>2, <1>11
      <4>2. oft[k - 1] = x /\ l = a + 1 /\ Len(f) = y
        BY <1>10, <2>2, <3>1
      <4> HIDE DEF a, x, y, f
      <4> QED
        BY <4>1, <4>2
    <3> HIDE DEF f, t
    <3> QED
      BY <1>12, <3>2, <3>3
  <2> QED
    BY <2>3, <2>4
<1>14. Len(t) = oft[n]
  <2>1. oft[n] = off[n] + 1
    BY <1>1, <1>9
  <2> HIDE DEF f, t
  <2> QED
    BY <1>10, <1>12, <2>1
<1>15. Laid(t, oft, rs, Len(rs))
  <2> HIDE DEF f, t
  <2> QED
    BY <1>5, <1>13, <1>14 DEF Laid
<1>16. t = FlattenSeq(rs)
  <2> HIDE DEF f, t
  <2> QED
    BY <1>5, <1>7, <1>12, <1>15, LaidOnly
<1> QED
  BY <1>5, <1>16 DEF r, RowPushed

(* An empty row more changes nothing; an element in a new row comes last. *)
LEMMA FlattenNew ==
  ASSUME NEW S, NEW ss \in Seq(Seq(S)), NEW v \in S
  PROVE  /\ Append(ss, <<v>>) \in Seq(Seq(S)) /\ Len(Append(ss, <<v>>)) = Len(ss) + 1
         /\ \A k \in 1 .. Len(ss) + 1 : Append(ss, <<v>>)[k] = IF k = Len(ss) + 1 THEN <<v>> ELSE ss[k]
         /\ FlattenSeq(Append(ss, <<v>>)) = Append(FlattenSeq(ss), v)
<1> DEFINE n == Len(ss)
           r == <<v>>
           rs == Append(ss, r)
           f == FlattenSeq(ss)
           t == Append(f, v)
<1>1. n \in Nat /\ n \in 0 .. n
  BY RowsAre
<1>2. r \in Seq(S) /\ Len(r) = 1 /\ r[1] = v
  OBVIOUS
<1> HIDE DEF r
<1>3. /\ rs \in Seq(Seq(S)) /\ Len(rs) = n + 1
      /\ \A k \in 1 .. n + 1 : rs[k] = IF k = n + 1 THEN r ELSE ss[k]
  <2> DEFINE Q == Seq(S)
  <2>1. ss \in Seq(Q) /\ r \in Q
    BY <1>2
  <2> HIDE DEF Q
  <2>2. /\ rs \in Seq(Q) /\ Len(rs) = n + 1
        /\ \A k \in 1 .. n : rs[k] = ss[k]
        /\ rs[n + 1] = r
    BY <2>1, AppendProperties
  <2>3. \A k \in 1 .. n + 1 : k \in 1 .. n \/ k = n + 1
    BY <1>1
  <2>4. n + 1 \notin 1 .. n
    BY <1>1
  <2> QED
    BY <2>2, <2>3, <2>4 DEF Q
<1> HIDE DEF rs
<1>4. PICK off : Offsets(off, ss)
  BY OffsetsExist
<1>5. PICK oft : Offsets(oft, rs)
  BY <1>3, OffsetsExist
<1>6. ASSUME NEW m \in 0 .. n PROVE oft[m] = off[m]
  <2> DEFINE c == n + 1
             d == 0
  <2>1. c \in Nat \ {0} /\ d \in Nat /\ n <= Len(rs) /\ m \in 0 .. n /\ ~(m >= c)
    BY <1>1, <1>3
  <2>2. ASSUME NEW k \in 1 .. n PROVE Len(rs[k]) = IF k = c THEN Len(ss[k]) + d ELSE Len(ss[k])
    <3>1. k # n + 1 /\ k \in 1 .. n + 1
      BY <1>1
    <3>2. rs[k] = ss[k]
      BY <1>3, <3>1
    <3> QED
      BY <3>1, <3>2
  <2> HIDE DEF c, d
  <2>3. Moved(off, oft, c, d, m)
    BY <1>3, <1>4, <1>5, <2>1, <2>2, OffsetsMoved
  <2> QED
    BY <2>1, <2>3 DEF Moved
<1>7. f \in Seq(S) /\ Len(f) = off[n]
  BY <1>4, FlattenLaid DEF Laid
<1>8. off[n] \in Nat /\ oft[n + 1] = off[n] + 1
  <2>1. /\ Ends(off, Lens(ss), n) /\ Ends(oft, Lens(rs), n + 1)
        /\ n + 1 \in 1 .. n + 1 /\ n + 1 - 1 = n
    BY <1>1, <1>3, <1>4, <1>5 DEF Offsets
  <2>2. Lens(rs)[n + 1] = 1
    <3>1. rs[n + 1] = r /\ n + 1 \in 1 .. Len(rs)
      BY <1>3, <2>1
    <3>2. Lens(rs)[n + 1] = Len(rs[n + 1])
      BY <1>3, <3>1, RowsAre
    <3> QED
      BY <1>2, <3>1, <3>2
  <2>3. oft[n + 1] = oft[n] + Lens(rs)[n + 1]
    BY <2>1 DEF Ends
  <2>4. off[n] \in Nat
    BY <1>1, <2>1 DEF Ends
  <2> QED
    BY <1>1, <1>6, <2>2, <2>3, <2>4
<1>15. f \in Seq(S)
  BY <1>7
<1>9. /\ t \in Seq(S) /\ Len(t) = Len(f) + 1
      /\ \A i \in 1 .. Len(f) : t[i] = f[i]
      /\ t[Len(f) + 1] = v
  <2> HIDE DEF f
  <2> QED
    BY <1>15, AppendProperties
<1>10. ASSUME NEW k \in 1 .. n + 1, NEW l \in 1 .. Len(rs[k]) PROVE t[oft[k - 1] + l] = rs[k][l]
  <2>1. k - 1 \in 0 .. n
    BY <1>1
  <2>2. oft[k - 1] = off[k - 1]
    BY <1>6, <2>1
  <2>3. CASE k = n + 1
    <3>3. rs[k] = r /\ k - 1 = n
      BY <1>1, <1>3, <2>3
    <3>4. l \in 1 .. 1
      BY <1>2, <3>3
    <3>1. l = 1 /\ k - 1 = n /\ rs[k][l] = v
      BY <1>2, <3>3, <3>4
    <3>2. oft[k - 1] + l = Len(f) + 1
      BY <1>7, <2>2, <3>1
    <3> HIDE DEF f, t
    <3> QED
      BY <1>9, <3>1, <3>2
  <2>4. CASE k # n + 1
    <3>1. k \in 1 .. n /\ rs[k] = ss[k]
      BY <1>1, <1>3, <2>4
    <3>2. off[k - 1] + l \in 1 .. Len(f) /\ f[off[k - 1] + l] = ss[k][l]
      BY <1>4, <3>1, FlattenPlace
    <3> HIDE DEF f, t
    <3> QED
      BY <1>9, <2>2, <3>1, <3>2
  <2> QED
    BY <2>3, <2>4
<1>11. Len(t) = oft[n + 1]
  <2> HIDE DEF f, t
  <2> QED
    BY <1>7, <1>8, <1>9
<1>12. Laid(t, oft, rs, Len(rs))
  <2> HIDE DEF f, t
  <2> QED
    BY <1>3, <1>10, <1>11 DEF Laid
<1>13. t = FlattenSeq(rs)
  <2> HIDE DEF f, t
  <2> QED
    BY <1>3, <1>5, <1>9, <1>12, LaidOnly
<1> QED
  BY <1>3, <1>13 DEF r, rs

(* What one value holds, as a function of its record. *)
RowsOf(w)   == [i \in 1 .. BucketCount |-> w.buckets[i - 1]]
ChainsOf(w) == FlattenSeq(RowsOf(w))
SlotsOf(w)  == FlattenSeq(w.pages)
KidsOf(w) ==
  CASE w.type = "Object" -> {e.lpValue : e \in ToSet(ChainsOf(w))}
    [] w.type = "Array"  -> ToSet(SlotsOf(w)) \ {NULL}
    [] OTHER             -> {}
CountOf(w) ==
  CASE w.type = "Object" -> Len(ChainsOf(w))
    [] w.type = "Array"  -> Len(w.pages)
    [] OTHER             -> 0

(* The operators of the model look at the record of the value only. *)
LEMMA ViewedByRecord ==
  ASSUME NEW c
  PROVE  /\ Chains(c) = ChainsOf(values[c]) /\ Slots(c) = SlotsOf(values[c])
         /\ Children(c) = KidsOf(values[c]) /\ CellsOf(c) = CountOf(values[c])
<1>1. Chains(c) = ChainsOf(values[c]) /\ Slots(c) = SlotsOf(values[c])
  BY DEF Chains, ChainsOf, RowsOf, Slots, SlotsOf
<1> QED
  BY <1>1 DEF Children, KidsOf, CellsOf, CountOf

(* The places of a value, and what each holds: no two hold the same. *)
PlacesOf(w) == {p \in (0 .. BucketCount - 1) \X Nat : p[2] \in 1 .. Len(w.buckets[p[1]])}
HoldsOf(w) ==
  CASE w.type = "Object" -> [p \in PlacesOf(w) |-> w.buckets[p[1]][p[2]].lpValue]
    [] w.type = "Array"  -> SlotsOf(w)
    [] OTHER             -> <<>>
Single(f) == \A p, q \in DOMAIN f : f[p] = f[q] /\ f[p] # NULL => p = q
HeldBy(f)  == {f[p] : p \in DOMAIN f} \ {NULL}

(* The chains of an object, as a sequence. *)
LEMMA RowsOfObject ==
  ASSUME NEW w \in ObjectCell
  PROVE  /\ RowsOf(w) \in Seq(Seq(Entry)) /\ Len(RowsOf(w)) = BucketCount
         /\ \A i \in 1 .. BucketCount : RowsOf(w)[i] = w.buckets[i - 1]
<1>1. BucketCount \in Nat
  BY ValuesAssumption
<1>2. \A i \in 1 .. BucketCount : w.buckets[i - 1] \in Seq(Entry)
  BY <1>1 DEF ObjectCell
<1> QED
  BY <1>1, <1>2 DEF RowsOf

(* An entry of an object is one of a chain, and the entries are counted once. *)
LEMMA ChainsOfObject ==
  ASSUME NEW w \in ObjectCell
  PROVE  /\ ChainsOf(w) \in Seq(Entry)
         /\ \A e : e \in ToSet(ChainsOf(w)) <=>
              \E h \in 0 .. BucketCount - 1 : \E j \in 1 .. Len(w.buckets[h]) : e = w.buckets[h][j]
<1>1. /\ RowsOf(w) \in Seq(Seq(Entry)) /\ Len(RowsOf(w)) = BucketCount
      /\ \A i \in 1 .. BucketCount : RowsOf(w)[i] = w.buckets[i - 1]
  BY RowsOfObject
<1>2. /\ ChainsOf(w) \in Seq(Entry)
      /\ \A e : e \in ToSet(ChainsOf(w)) <=>
              \E i \in 1 .. BucketCount : \E j \in 1 .. Len(RowsOf(w)[i]) : e = RowsOf(w)[i][j]
  BY <1>1, FlattenRange DEF ChainsOf
<1>3. BucketCount \in Nat
  BY ValuesAssumption
<1>4. ASSUME NEW i \in 1 .. BucketCount, NEW j \in 1 .. Len(RowsOf(w)[i])
      PROVE  \E h \in 0 .. BucketCount - 1 : \E l \in 1 .. Len(w.buckets[h]) : RowsOf(w)[i][j] = w.buckets[h][l]
  <2>1. i - 1 \in 0 .. BucketCount - 1 /\ RowsOf(w)[i] = w.buckets[i - 1]
    BY <1>1, <1>3
  <2> QED
    BY <2>1
<1>5. ASSUME NEW h \in 0 .. BucketCount - 1, NEW j \in 1 .. Len(w.buckets[h])
      PROVE  \E i \in 1 .. BucketCount : \E l \in 1 .. Len(RowsOf(w)[i]) : w.buckets[h][j] = RowsOf(w)[i][l]
  <2>1. h + 1 \in 1 .. BucketCount /\ RowsOf(w)[h + 1] = w.buckets[h]
    <3>1. h + 1 \in 1 .. BucketCount /\ (h + 1) - 1 = h
      BY <1>3
    <3> QED
      BY <1>1, <3>1
  <2> QED
    BY <2>1
<1>6. ASSUME NEW e
      PROVE  e \in ToSet(ChainsOf(w)) <=>
              \E h \in 0 .. BucketCount - 1 : \E j \in 1 .. Len(w.buckets[h]) : e = w.buckets[h][j]
  <2>1. CASE e \in ToSet(ChainsOf(w))
    <3>1. PICK i \in 1 .. BucketCount : \E j \in 1 .. Len(RowsOf(w)[i]) : e = RowsOf(w)[i][j]
      BY <1>2, <2>1
    <3> QED
      BY <1>4, <2>1, <3>1
  <2>2. ASSUME NEW h \in 0 .. BucketCount - 1, NEW j \in 1 .. Len(w.buckets[h]), e = w.buckets[h][j]
        PROVE  e \in ToSet(ChainsOf(w))
    <3>1. \E i \in 1 .. BucketCount : \E l \in 1 .. Len(RowsOf(w)[i]) : e = RowsOf(w)[i][l]
      BY <1>5, <2>2
    <3> QED
      BY <1>2, <3>1
  <2> QED
    BY <2>1, <2>2
<1> QED
  BY <1>2, <1>6

(* The children of a value are what its places hold. *)
LEMMA KidsHeld ==
  ASSUME NEW w, CellOK(w)
  PROVE  KidsOf(w) = HeldBy(HoldsOf(w)) /\ KidsOf(w) \subseteq Block
<1>1. CASE w.type = "Object"
  <2>1. w \in ObjectCell
    BY <1>1 DEF CellOK
  <2>2. \A e : e \in ToSet(ChainsOf(w)) <=>
              \E h \in 0 .. BucketCount - 1 : \E j \in 1 .. Len(w.buckets[h]) : e = w.buckets[h][j]
    BY <2>1, ChainsOfObject
  <2>3. \A h \in 0 .. BucketCount - 1 : w.buckets[h] \in Seq(Entry)
    BY <2>1 DEF ObjectCell
  <2>4. ASSUME NEW h \in 0 .. BucketCount - 1, NEW j \in 1 .. Len(w.buckets[h])
        PROVE  w.buckets[h][j] \in Entry /\ w.buckets[h][j].lpValue \in Block /\ j \in Nat
    <3>1. w.buckets[h][j] \in Entry
      BY <2>3, ElementOfSeq
    <3> QED
      BY <3>1 DEF Entry
  <2>5. HoldsOf(w) = [p \in PlacesOf(w) |-> w.buckets[p[1]][p[2]].lpValue]
    BY <1>1 DEF HoldsOf
  <2>6. KidsOf(w) = {e.lpValue : e \in ToSet(ChainsOf(w))}
    BY <1>1 DEF KidsOf
  <2>7. NULL \notin Block
    BY ValuesAssumption
  <2>8. ASSUME NEW u \in KidsOf(w) PROVE u \in HeldBy(HoldsOf(w)) /\ u \in Block
    <3>4. PICK h \in 0 .. BucketCount - 1 : \E j \in 1 .. Len(w.buckets[h]) : u = w.buckets[h][j].lpValue
      BY <2>2, <2>6
    <3>1. PICK j \in 1 .. Len(w.buckets[h]) : u = w.buckets[h][j].lpValue
      BY <3>4
    <3>2. <<h, j>> \in PlacesOf(w)
      BY <2>4 DEF PlacesOf
    <3>3. HoldsOf(w)[<<h, j>>] = u /\ <<h, j>> \in DOMAIN HoldsOf(w) /\ u # NULL
      BY <2>4, <2>5, <2>7, <3>1, <3>2
    <3> QED
      BY <2>4, <3>1, <3>3 DEF HeldBy
  <2>9. ASSUME NEW u \in HeldBy(HoldsOf(w)) PROVE u \in KidsOf(w)
    <3>1. PICK p \in PlacesOf(w) : u = w.buckets[p[1]][p[2]].lpValue
      BY <2>5 DEF HeldBy
    <3>2. p[1] \in 0 .. BucketCount - 1 /\ p[2] \in 1 .. Len(w.buckets[p[1]])
      BY DEF PlacesOf
    <3> QED
      BY <2>2, <2>6, <3>1, <3>2
  <2> QED
    BY <2>8, <2>9
<1>2. CASE w.type = "Array"
  <2>1. w \in ArrayCell
    BY <1>2 DEF CellOK
  <2>2. w.pages \in Seq(Seq(Block \cup {NULL}))
    BY <2>1 DEF ArrayCell, Page
  <2>3. SlotsOf(w) \in Seq(Block \cup {NULL})
    BY <2>2, FlattenRange DEF SlotsOf
  <2>4. HoldsOf(w) = SlotsOf(w) /\ KidsOf(w) = ToSet(SlotsOf(w)) \ {NULL}
    BY <1>2 DEF HoldsOf, KidsOf
  <2>5. \A i \in DOMAIN SlotsOf(w) : SlotsOf(w)[i] \in Block \cup {NULL}
    BY <2>3, LenProperties, ElementOfSeq
  <2> QED
    BY <2>4, <2>5 DEF HeldBy, ToSet
<1>3. CASE w.type \notin {"Object", "Array"}
  <2>1. HoldsOf(w) = << >> /\ KidsOf(w) = {}
    BY <1>3 DEF HoldsOf, KidsOf
  <2>2. DOMAIN << >> = {}
    OBVIOUS
  <2> QED
    BY <2>1, <2>2 DEF HeldBy
<1> QED
  BY <1>1, <1>2, <1>3

-----------------------------------------------------------------------------
(* cjsonObject_Set, as a change of one cell. *)

(* A place more holds one value more. *)
LEMMA HeldAdd ==
  ASSUME NEW f, NEW g, NEW p, NEW v, p \notin DOMAIN f, DOMAIN g = DOMAIN f \cup {p}, g[p] = v,
         \A q \in DOMAIN f : g[q] = f[q], Single(f), v \notin HeldBy(f)
  PROVE  Single(g) /\ HeldBy(g) = HeldBy(f) \cup ({v} \ {NULL})
<1>1. Single(g)
  BY DEF Single, HeldBy
<1>2. HeldBy(g) = HeldBy(f) \cup ({v} \ {NULL})
  BY DEF HeldBy
<1> QED
  BY <1>1, <1>2

(* A place gets another value; no other place held the old one. *)
LEMMA HeldPut ==
  ASSUME NEW f, NEW g, NEW p \in DOMAIN f, NEW v, DOMAIN g = DOMAIN f, g[p] = v,
         \A q \in DOMAIN f \ {p} : g[q] = f[q], Single(f), v \notin HeldBy(f)
  PROVE  Single(g) /\ HeldBy(g) = (HeldBy(f) \ {f[p]}) \cup ({v} \ {NULL})
<1>1. Single(g)
  BY DEF Single, HeldBy
<1>2. HeldBy(g) = (HeldBy(f) \ {f[p]}) \cup ({v} \ {NULL})
  BY DEF HeldBy, Single
<1> QED
  BY <1>1, <1>2

(* The keys of an object: each in its bucket, and once. *)
Keyed(w, hs) ==
  w.type = "Object" =>
    \A h \in 0 .. BucketCount - 1 : \A i \in 1 .. Len(w.buckets[h]) :
      /\ hs[w.buckets[h][i].key] = h
      /\ \A j \in 1 .. Len(w.buckets[h]) : w.buckets[h][j].key = w.buckets[h][i].key => j = i

WithBucket(w, h, chain) == [w EXCEPT !.buckets[h] = chain]

(* An object with one chain replaced is an object. *)
LEMMA NewBucket ==
  ASSUME NEW w \in ObjectCell, NEW h \in 0 .. BucketCount - 1, NEW chain \in Seq(Entry)
  PROVE  /\ WithBucket(w, h, chain) \in ObjectCell /\ CellOK(WithBucket(w, h, chain))
         /\ WithBucket(w, h, chain).type = "Object"
         /\ WithBucket(w, h, chain).lpSystem = w.lpSystem
         /\ \A g \in 0 .. BucketCount - 1 :
              WithBucket(w, h, chain).buckets[g] = IF g = h THEN chain ELSE w.buckets[g]
<1> DEFINE b == [w.buckets EXCEPT ![h] = chain]
           x == WithBucket(w, h, chain)
<1>1. w \in [type : {"Object"}, lpSystem : System, buckets : [0 .. BucketCount - 1 -> Seq(Entry)]]
  BY DEF ObjectCell
<1>2. b \in [0 .. BucketCount - 1 -> Seq(Entry)]
  BY <1>1
<1>3. \A g \in 0 .. BucketCount - 1 : b[g] = IF g = h THEN chain ELSE w.buckets[g]
  BY <1>1
<1>4. x = [w EXCEPT !.buckets = b]
  BY DEF WithBucket
<1> HIDE DEF b, x
<1>5. /\ x \in [type : {"Object"}, lpSystem : System, buckets : [0 .. BucketCount - 1 -> Seq(Entry)]]
      /\ x.type = "Object" /\ x.lpSystem = w.lpSystem /\ x.buckets = b
  BY <1>1, <1>2, <1>4
<1>6. x \in ObjectCell
  BY <1>5 DEF ObjectCell
<1>7. CellOK(x)
  BY <1>5, <1>6 DEF CellOK
<1> QED
  BY <1>3, <1>5, <1>6, <1>7 DEF x

(* cjsonObject_Set at a new key: one entry more at the end of its chain. *)
LEMMA EntryAdded ==
  ASSUME NEW w \in ObjectCell, NEW h \in 0 .. BucketCount - 1, NEW k \in Key, NEW v \in Block,
         NEW x, x = WithBucket(w, h, Append(w.buckets[h], [key |-> k, lpValue |-> v])),
         Single(HoldsOf(w)), v \notin KidsOf(w),
         NEW hs, Keyed(w, hs), hs[k] = h, \A j \in 1 .. Len(w.buckets[h]) : w.buckets[h][j].key # k
  PROVE  /\ CellOK(x) /\ x.type = "Object" /\ x.lpSystem = w.lpSystem
         /\ CountOf(x) = CountOf(w) + 1 /\ KidsOf(x) = KidsOf(w) \cup {v}
         /\ Single(HoldsOf(x)) /\ Keyed(x, hs)
<1> DEFINE old   == w.buckets[h]
           e     == [key |-> k, lpValue |-> v]
           chain == Append(old, e)
           n     == Len(old)
<1>1. w.type = "Object" /\ \A g \in 0 .. BucketCount - 1 : w.buckets[g] \in Seq(Entry) /\ Len(w.buckets[g]) \in Nat
  BY LenProperties DEF ObjectCell
<1>2. e \in Entry /\ e.key = k /\ e.lpValue = v
  BY DEF Entry
<1>3. /\ chain \in Seq(Entry) /\ Len(chain) = n + 1 /\ chain[n + 1] = e
      /\ \A j \in 1 .. n : chain[j] = old[j]
  <2>1. old \in Seq(Entry)
    BY <1>1
  <2> HIDE DEF old, e
  <2> QED
    BY <1>2, <2>1, AppendProperties
<1>4. n \in Nat
  BY <1>1
<1> HIDE DEF e, chain
<1>5. x = WithBucket(w, h, chain)
  BY DEF chain, e
<1>6. /\ x \in ObjectCell /\ CellOK(x) /\ x.type = "Object" /\ x.lpSystem = w.lpSystem
      /\ \A g \in 0 .. BucketCount - 1 : x.buckets[g] = IF g = h THEN chain ELSE w.buckets[g]
  <2>1. chain \in Seq(Entry)
    BY <1>3
  <2> DEFINE y == WithBucket(w, h, chain)
  <2>2. /\ y \in ObjectCell /\ CellOK(y) /\ y.type = "Object" /\ y.lpSystem = w.lpSystem
        /\ \A g \in 0 .. BucketCount - 1 : y.buckets[g] = IF g = h THEN chain ELSE w.buckets[g]
    BY <2>1, NewBucket
  <2>3. x = y
    BY <1>5
  <2> HIDE DEF y
  <2> QED
    BY <2>2, <2>3
<1>7. CellOK(w)
  BY <1>1 DEF CellOK
<1>8. KidsOf(w) = HeldBy(HoldsOf(w)) /\ KidsOf(x) = HeldBy(HoldsOf(x)) /\ NULL \notin Block
  BY <1>6, <1>7, KidsHeld, ValuesAssumption
<1> DEFINE p == <<h, n + 1>>
<1>9. /\ DOMAIN HoldsOf(w) = PlacesOf(w) /\ DOMAIN HoldsOf(x) = PlacesOf(x)
      /\ \A q \in PlacesOf(w) : HoldsOf(w)[q] = w.buckets[q[1]][q[2]].lpValue
      /\ \A q \in PlacesOf(x) : HoldsOf(x)[q] = x.buckets[q[1]][q[2]].lpValue
  BY <1>1, <1>6 DEF HoldsOf
<1>10. \A g \in 0 .. BucketCount - 1 :
         \A j : j \in 1 .. Len(x.buckets[g]) <=> j \in 1 .. Len(w.buckets[g]) \/ (g = h /\ j = n + 1)
  <2> SUFFICES ASSUME NEW g \in 0 .. BucketCount - 1, NEW j
               PROVE  j \in 1 .. Len(x.buckets[g]) <=> j \in 1 .. Len(w.buckets[g]) \/ (g = h /\ j = n + 1)
    OBVIOUS
  <2>1. CASE g = h
    <3>1. Len(x.buckets[g]) = n + 1 /\ Len(w.buckets[g]) = n
      BY <1>3, <1>6, <2>1
    <3> HIDE DEF n
    <3> QED
      BY <1>4, <2>1, <3>1
  <2>2. CASE g # h
    BY <1>6, <2>2
  <2> QED
    BY <2>1, <2>2
<1>11. PlacesOf(x) = PlacesOf(w) \cup {p} /\ p \notin PlacesOf(w)
  <2> HIDE DEF n
  <2>1. ASSUME NEW q \in PlacesOf(x) PROVE q \in PlacesOf(w) \cup {p}
    BY <1>4, <1>10 DEF PlacesOf
  <2>2. ASSUME NEW q \in PlacesOf(w) \cup {p} PROVE q \in PlacesOf(x)
    BY <1>4, <1>10 DEF PlacesOf
  <2>3. p \notin PlacesOf(w)
    BY <1>4 DEF PlacesOf, n
  <2> QED
    BY <2>1, <2>2, <2>3
<1>12. HoldsOf(x)[p] = v
  <2>1. p \in PlacesOf(x) /\ p[1] = h /\ p[2] = n + 1
    BY <1>11
  <2>2. x.buckets[h][n + 1] = e
    BY <1>3, <1>6
  <2> HIDE DEF p, n
  <2> QED
    BY <1>2, <1>9, <2>1, <2>2
<1>13. ASSUME NEW q \in PlacesOf(w) PROVE HoldsOf(x)[q] = HoldsOf(w)[q]
  <2>1. q[1] \in 0 .. BucketCount - 1 /\ q[2] \in 1 .. Len(w.buckets[q[1]])
    BY DEF PlacesOf
  <2>2. x.buckets[q[1]][q[2]] = w.buckets[q[1]][q[2]]
    BY <1>3, <1>6, <2>1
  <2>3. q \in PlacesOf(x)
    BY <1>11
  <2>4. HoldsOf(x)[q] = x.buckets[q[1]][q[2]].lpValue /\ HoldsOf(w)[q] = w.buckets[q[1]][q[2]].lpValue
    BY <1>9, <2>3
  <2> QED
    BY <2>2, <2>4
<1>14. Single(HoldsOf(x)) /\ HeldBy(HoldsOf(x)) = HeldBy(HoldsOf(w)) \cup ({v} \ {NULL})
  <2> DEFINE f == HoldsOf(w)
             g == HoldsOf(x)
  <2>1. p \notin DOMAIN f /\ DOMAIN g = DOMAIN f \cup {p} /\ g[p] = v
    BY <1>9, <1>11, <1>12
  <2>2. \A q \in DOMAIN f : g[q] = f[q]
    BY <1>9, <1>13
  <2>3. Single(f) /\ v \notin HeldBy(f)
    BY <1>8
  <2> HIDE DEF p, f, g
  <2>4. Single(g) /\ HeldBy(g) = HeldBy(f) \cup ({v} \ {NULL})
    BY <2>1, <2>2, <2>3, HeldAdd
  <2> QED
    BY <2>4 DEF f, g
<1>15. KidsOf(x) = KidsOf(w) \cup {v}
  BY <1>8, <1>14
<1>16. CountOf(x) = CountOf(w) + 1
  <2>1. /\ RowsOf(w) \in Seq(Seq(Entry)) /\ Len(RowsOf(w)) = BucketCount
        /\ \A i \in 1 .. BucketCount : RowsOf(w)[i] = w.buckets[i - 1]
    BY RowsOfObject
  <2>2. /\ RowsOf(x) \in Seq(Seq(Entry)) /\ Len(RowsOf(x)) = BucketCount
        /\ \A i \in 1 .. BucketCount : RowsOf(x)[i] = x.buckets[i - 1]
    BY <1>6, RowsOfObject
  <2> DEFINE c == h + 1
             d == 1
  <2>3. BucketCount \in Nat /\ c \in 1 .. BucketCount /\ d \in Nat
    BY ValuesAssumption
  <2>4. ASSUME NEW i \in 1 .. BucketCount
        PROVE  Len(RowsOf(x)[i]) = IF i = c THEN Len(RowsOf(w)[i]) + d ELSE Len(RowsOf(w)[i])
    <3>1. i - 1 \in 0 .. BucketCount - 1 /\ (i = c <=> i - 1 = h)
      BY <2>3
    <3>2. RowsOf(x)[i] = x.buckets[i - 1] /\ RowsOf(w)[i] = w.buckets[i - 1]
      BY <2>1, <2>2
    <3>3. CASE i - 1 = h
      <4>1. RowsOf(x)[i] = chain /\ RowsOf(w)[i] = old
        BY <1>6, <3>1, <3>2, <3>3
      <4> QED
        BY <1>3, <3>1, <3>3, <4>1
    <3>4. CASE i - 1 # h
      BY <1>6, <3>1, <3>2, <3>4
    <3> QED
      BY <3>3, <3>4
  <2> HIDE DEF c, d
  <2>5. Len(FlattenSeq(RowsOf(x))) = Len(FlattenSeq(RowsOf(w))) + d
    <3> DEFINE ss == RowsOf(w)
               rs == RowsOf(x)
    <3>1. /\ ss \in Seq(Seq(Entry)) /\ rs \in Seq(Seq(Entry)) /\ Len(rs) = Len(ss)
          /\ c \in 1 .. Len(ss)
      BY <2>1, <2>2, <2>3
    <3>2. ASSUME NEW i \in 1 .. Len(ss)
          PROVE  Len(rs[i]) = IF i = c THEN Len(ss[i]) + d ELSE Len(ss[i])
      BY <2>1, <2>4
    <3> HIDE DEF ss, rs
    <3>3. Len(FlattenSeq(rs)) = Len(FlattenSeq(ss)) + d
      BY <2>3, <3>1, <3>2, FlattenLonger
    <3> QED
      BY <3>3 DEF ss, rs
  <2> QED
    BY <1>1, <1>6, <2>5 DEF CountOf, ChainsOf, d
<1>17. Keyed(x, hs)
  <2> SUFFICES ASSUME NEW g \in 0 .. BucketCount - 1, NEW i \in 1 .. Len(x.buckets[g])
               PROVE  /\ hs[x.buckets[g][i].key] = g
                      /\ \A j \in 1 .. Len(x.buckets[g]) : x.buckets[g][j].key = x.buckets[g][i].key => j = i
    BY DEF Keyed
  <2>1. CASE g = h
    <3>1. x.buckets[g] = chain /\ \A j \in 1 .. Len(x.buckets[g]) : j \in 1 .. n \/ j = n + 1
      BY <1>6, <1>10, <2>1
    <3>2. \A j \in 1 .. n : hs[old[j].key] = h /\ (\A l \in 1 .. n : old[l].key = old[j].key => l = j)
      BY <1>1 DEF Keyed
    <3>3. chain[n + 1].key = k /\ \A j \in 1 .. n : chain[j].key = old[j].key /\ old[j].key # k
      BY <1>2, <1>3
    <3> HIDE DEF n, old
    <3>4. i \in 1 .. n \/ i = n + 1
      BY <3>1
    <3>5. hs[chain[i].key] = h
      BY <3>2, <3>3, <3>4
    <3>6. ASSUME NEW j \in 1 .. Len(x.buckets[g]), chain[j].key = chain[i].key PROVE j = i
      <4>1. j \in 1 .. n \/ j = n + 1
        BY <3>1
      <4> QED
        BY <3>2, <3>3, <3>4, <3>6, <4>1
    <3> QED
      BY <2>1, <3>1, <3>5, <3>6
  <2>2. CASE g # h
    <3>1. x.buckets[g] = w.buckets[g]
      BY <1>6, <2>2
    <3>2. \A l \in 1 .. Len(w.buckets[g]) :
            /\ hs[w.buckets[g][l].key] = g
            /\ \A j \in 1 .. Len(w.buckets[g]) : w.buckets[g][j].key = w.buckets[g][l].key => j = l
      BY <1>1 DEF Keyed
    <3> QED
      BY <3>1, <3>2
  <2> QED
    BY <2>1, <2>2
<1> QED
  BY <1>6, <1>14, <1>15, <1>16, <1>17

(* An entry is a place of the object, which holds its value. *)
LEMMA EntryFacts ==
  ASSUME NEW w \in ObjectCell, NEW h \in 0 .. BucketCount - 1, NEW i \in 1 .. Len(w.buckets[h])
  PROVE  /\ w.buckets[h] \in Seq(Entry) /\ w.buckets[h][i] \in Entry
         /\ w.buckets[h][i].lpValue \in Block /\ w.buckets[h][i].key \in Key
         /\ w.buckets[h][i].lpValue \in KidsOf(w)
         /\ <<h, i>> \in PlacesOf(w) /\ HoldsOf(w)[<<h, i>>] = w.buckets[h][i].lpValue
<1>1. w.type = "Object" /\ w.buckets[h] \in Seq(Entry)
  BY DEF ObjectCell
<1>2. w.buckets[h][i] \in Entry /\ i \in Nat
  BY <1>1, ElementOfSeq
<1>3. w.buckets[h][i].lpValue \in Block /\ w.buckets[h][i].key \in Key
  BY <1>2 DEF Entry
<1>4. w.buckets[h][i] \in ToSet(ChainsOf(w))
  BY ChainsOfObject
<1>5. w.buckets[h][i].lpValue \in KidsOf(w)
  BY <1>1, <1>4 DEF KidsOf
<1>6. <<h, i>> \in PlacesOf(w)
  BY <1>2 DEF PlacesOf
<1>7. HoldsOf(w)[<<h, i>>] = w.buckets[h][i].lpValue
  BY <1>1, <1>6 DEF HoldsOf
<1> QED
  BY <1>1, <1>2, <1>3, <1>5, <1>6, <1>7

(* The object x is w with v instead of u. *)
Refilled(x, w, u, v, hs) ==
  /\ CellOK(x) /\ x.type = "Object" /\ x.lpSystem = w.lpSystem
  /\ CountOf(x) = CountOf(w) /\ KidsOf(x) = (KidsOf(w) \ {u}) \cup {v}
  /\ Single(HoldsOf(x)) /\ Keyed(x, hs)

(* cjsonObject_Set at a key it has: the entry gets the new value. *)
LEMMA EntryReplaced ==
  ASSUME NEW w \in ObjectCell, NEW h \in 0 .. BucketCount - 1, NEW i \in 1 .. Len(w.buckets[h]),
         NEW v \in Block,
         NEW x, x = WithBucket(w, h, [w.buckets[h] EXCEPT ![i].lpValue = v]),
         Single(HoldsOf(w)), v \notin KidsOf(w), NEW hs, Keyed(w, hs),
         NEW b, b = w.buckets[h][i].lpValue
  PROVE  Refilled(x, w, b, v, hs)
<1> DEFINE old   == w.buckets[h]
           e     == [old[i] EXCEPT !.lpValue = v]
           chain == [old EXCEPT ![i] = e]
           n     == Len(old)
           u     == old[i].lpValue
<1>1. w.type = "Object" /\ \A g \in 0 .. BucketCount - 1 : w.buckets[g] \in Seq(Entry) /\ Len(w.buckets[g]) \in Nat
  BY LenProperties DEF ObjectCell
<1>2. e \in Entry /\ e.key = old[i].key /\ e.lpValue = v
  <2>1. old[i] \in Entry
    BY EntryFacts
  <2> HIDE DEF old
  <2> QED
    BY <2>1 DEF Entry
<1>3. /\ chain \in Seq(Entry) /\ Len(chain) = n
      /\ \A j \in 1 .. n : chain[j] = IF j = i THEN e ELSE old[j]
  <2>1. old \in Seq(Entry) /\ i \in 1 .. Len(old)
    BY <1>1
  <2> HIDE DEF old, e
  <2> QED
    BY <1>2, <2>1, ExceptSeq
<1>4. n \in Nat
  BY <1>1
<1> HIDE DEF e, chain
<1>5. x = WithBucket(w, h, chain)
  BY DEF chain, e
<1>6. /\ x \in ObjectCell /\ CellOK(x) /\ x.type = "Object" /\ x.lpSystem = w.lpSystem
      /\ \A g \in 0 .. BucketCount - 1 : x.buckets[g] = IF g = h THEN chain ELSE w.buckets[g]
  <2>1. chain \in Seq(Entry)
    BY <1>3
  <2> DEFINE y == WithBucket(w, h, chain)
  <2>2. /\ y \in ObjectCell /\ CellOK(y) /\ y.type = "Object" /\ y.lpSystem = w.lpSystem
        /\ \A g \in 0 .. BucketCount - 1 : y.buckets[g] = IF g = h THEN chain ELSE w.buckets[g]
    BY <2>1, NewBucket
  <2>3. x = y
    BY <1>5
  <2> HIDE DEF y
  <2> QED
    BY <2>2, <2>3
<1>7. CellOK(w)
  BY <1>1 DEF CellOK
<1>8. KidsOf(w) = HeldBy(HoldsOf(w)) /\ KidsOf(x) = HeldBy(HoldsOf(x)) /\ NULL \notin Block
  BY <1>6, <1>7, KidsHeld, ValuesAssumption
<1> DEFINE p == <<h, i>>
<1>9. /\ DOMAIN HoldsOf(w) = PlacesOf(w) /\ DOMAIN HoldsOf(x) = PlacesOf(x)
      /\ \A q \in PlacesOf(w) : HoldsOf(w)[q] = w.buckets[q[1]][q[2]].lpValue
      /\ \A q \in PlacesOf(x) : HoldsOf(x)[q] = x.buckets[q[1]][q[2]].lpValue
  BY <1>1, <1>6 DEF HoldsOf
<1>10. \A g \in 0 .. BucketCount - 1 : Len(x.buckets[g]) = Len(w.buckets[g])
  <2> SUFFICES ASSUME NEW g \in 0 .. BucketCount - 1 PROVE Len(x.buckets[g]) = Len(w.buckets[g])
    OBVIOUS
  <2>1. CASE g = h
    BY <1>3, <1>6, <2>1
  <2>2. CASE g # h
    BY <1>6, <2>2
  <2> QED
    BY <2>1, <2>2
<1>11. PlacesOf(x) = PlacesOf(w) /\ p \in PlacesOf(w) /\ HoldsOf(w)[p] = u
  <2>1. PlacesOf(x) = PlacesOf(w)
    BY <1>10 DEF PlacesOf
  <2> QED
    BY <2>1, EntryFacts
<1>12. HoldsOf(x)[p] = v
  <2>1. p \in PlacesOf(x) /\ p[1] = h /\ p[2] = i
    BY <1>11
  <2>2. x.buckets[h][i] = e
    BY <1>3, <1>6
  <2>3. e.lpValue = v
    BY <1>2
  <2> HIDE DEF p, n, old, u
  <2>4. HoldsOf(x)[p] = x.buckets[p[1]][p[2]].lpValue
    BY <1>9, <2>1
  <2> QED
    BY <2>1, <2>2, <2>3, <2>4
<1>13. ASSUME NEW q \in PlacesOf(w), q # p PROVE HoldsOf(x)[q] = HoldsOf(w)[q]
  <2>1. q[1] \in 0 .. BucketCount - 1 /\ q[2] \in 1 .. Len(w.buckets[q[1]]) /\ (q[1] # h \/ q[2] # i)
    BY <1>13 DEF PlacesOf
  <2>2. x.buckets[q[1]][q[2]] = w.buckets[q[1]][q[2]]
    BY <1>3, <1>6, <2>1
  <2>4. HoldsOf(x)[q] = x.buckets[q[1]][q[2]].lpValue /\ HoldsOf(w)[q] = w.buckets[q[1]][q[2]].lpValue
    BY <1>9, <1>11
  <2> QED
    BY <2>2, <2>4
<1>14. Single(HoldsOf(x)) /\ HeldBy(HoldsOf(x)) = (HeldBy(HoldsOf(w)) \ {u}) \cup ({v} \ {NULL})
  <2> DEFINE f == HoldsOf(w)
             g == HoldsOf(x)
  <2>1. p \in DOMAIN f /\ DOMAIN g = DOMAIN f /\ g[p] = v /\ f[p] = u
    BY <1>9, <1>11, <1>12
  <2>2. \A q \in DOMAIN f \ {p} : g[q] = f[q]
    BY <1>9, <1>13
  <2>3. Single(f) /\ v \notin HeldBy(f)
    BY <1>8
  <2> HIDE DEF p, f, g, u
  <2>4. Single(g) /\ HeldBy(g) = (HeldBy(f) \ {f[p]}) \cup ({v} \ {NULL})
    BY <2>1, <2>2, <2>3, HeldPut
  <2> QED
    BY <2>1, <2>4 DEF f, g
<1>15. KidsOf(x) = (KidsOf(w) \ {u}) \cup {v}
  <2> HIDE DEF u
  <2> QED
    BY <1>8, <1>14
<1>16. CountOf(x) = CountOf(w)
  <2>1. /\ RowsOf(w) \in Seq(Seq(Entry)) /\ Len(RowsOf(w)) = BucketCount
        /\ \A j \in 1 .. BucketCount : RowsOf(w)[j] = w.buckets[j - 1]
    BY RowsOfObject
  <2>2. /\ RowsOf(x) \in Seq(Seq(Entry)) /\ Len(RowsOf(x)) = BucketCount
        /\ \A j \in 1 .. BucketCount : RowsOf(x)[j] = x.buckets[j - 1]
    BY <1>6, RowsOfObject
  <2> DEFINE c == h + 1
             d == 0
  <2>3. BucketCount \in Nat /\ c \in 1 .. BucketCount /\ d \in Nat
    BY ValuesAssumption
  <2>4. ASSUME NEW j \in 1 .. BucketCount
        PROVE  Len(RowsOf(x)[j]) = Len(RowsOf(w)[j]) /\ Len(RowsOf(w)[j]) \in Nat
    <3>1. j - 1 \in 0 .. BucketCount - 1
      BY <2>3
    <3>2. RowsOf(x)[j] = x.buckets[j - 1] /\ RowsOf(w)[j] = w.buckets[j - 1]
      BY <2>1, <2>2
    <3> QED
      BY <1>1, <1>10, <3>1, <3>2
  <2>5. Len(FlattenSeq(RowsOf(x))) = Len(FlattenSeq(RowsOf(w))) + d
    <3> DEFINE ss == RowsOf(w)
               rs == RowsOf(x)
    <3>1. /\ ss \in Seq(Seq(Entry)) /\ rs \in Seq(Seq(Entry)) /\ Len(rs) = Len(ss)
          /\ c \in 1 .. Len(ss)
      BY <2>1, <2>2, <2>3
    <3>2. ASSUME NEW j \in 1 .. Len(ss)
          PROVE  Len(rs[j]) = IF j = c THEN Len(ss[j]) + d ELSE Len(ss[j])
      <4>1. Len(rs[j]) = Len(ss[j]) /\ Len(ss[j]) \in Nat
        BY <2>1, <2>4
      <4> HIDE DEF ss, rs
      <4> QED
        BY <4>1
    <3> HIDE DEF ss, rs, c, d
    <3>3. Len(FlattenSeq(rs)) = Len(FlattenSeq(ss)) + d
      BY <2>3, <3>1, <3>2, FlattenLonger
    <3> QED
      BY <3>3 DEF ss, rs
  <2>6. Len(FlattenSeq(RowsOf(w))) \in Nat
    BY ChainsOfObject, LenProperties DEF ChainsOf
  <2> QED
    BY <1>1, <1>6, <2>5, <2>6 DEF CountOf, ChainsOf
<1>17. Keyed(x, hs)
  <2> SUFFICES ASSUME NEW g \in 0 .. BucketCount - 1, NEW j \in 1 .. Len(x.buckets[g])
               PROVE  /\ hs[x.buckets[g][j].key] = g
                      /\ \A l \in 1 .. Len(x.buckets[g]) : x.buckets[g][l].key = x.buckets[g][j].key => l = j
    BY DEF Keyed
  <2>1. \A l \in 1 .. Len(w.buckets[g]) : x.buckets[g][l].key = w.buckets[g][l].key
    <3>1. CASE g = h
      BY <1>2, <1>3, <1>6, <3>1
    <3>2. CASE g # h
      BY <1>6, <3>2
    <3> QED
      BY <3>1, <3>2
  <2>2. Len(x.buckets[g]) = Len(w.buckets[g])
    BY <1>10
  <2>3. \A m \in 1 .. Len(w.buckets[g]) :
          /\ hs[w.buckets[g][m].key] = g
          /\ \A l \in 1 .. Len(w.buckets[g]) : w.buckets[g][l].key = w.buckets[g][m].key => l = m
    BY <1>1 DEF Keyed
  <2> QED
    BY <2>1, <2>2, <2>3
<1> QED
  BY <1>6, <1>14, <1>15, <1>16, <1>17 DEF Refilled

(* A new object has no entries. *)
LEMMA NewObjectIs ==
  ASSUME NEW s \in System, NEW hs
  PROVE  /\ CellOK(NewObject(s)) /\ KidsOf(NewObject(s)) = {} /\ CountOf(NewObject(s)) = 0
         /\ Single(HoldsOf(NewObject(s))) /\ Keyed(NewObject(s), hs)
         /\ NewObject(s).type = "Object" /\ NewObject(s).lpSystem = s
<1> DEFINE w == NewObject(s)
<1>1. w.type = "Object" /\ w.lpSystem = s /\ w.buckets = [i \in 0 .. BucketCount - 1 |-> <<>>]
  BY DEF NewObject
<1>2. <<>> \in Seq(Entry) /\ Len(<<>>) = 0
  BY EmptySeq
<1>3. w \in ObjectCell
  BY <1>2 DEF NewObject, ObjectCell
<1>4. CellOK(w)
  BY <1>1, <1>3 DEF CellOK
<1>5. \A g \in 0 .. BucketCount - 1 : w.buckets[g] = <<>>
  BY <1>1
<1> HIDE DEF w
<1>6. \A g \in 0 .. BucketCount - 1 : 1 .. Len(w.buckets[g]) = {}
  BY <1>2, <1>5
<1>7. PlacesOf(w) = {}
  BY <1>6 DEF PlacesOf
<1>8. Single(HoldsOf(w)) /\ HeldBy(HoldsOf(w)) = {}
  BY <1>1, <1>7 DEF Single, HeldBy, HoldsOf
<1>9. Keyed(w, hs)
  BY <1>6 DEF Keyed
<1>10. KidsOf(w) = {}
  BY <1>4, <1>8, KidsHeld
<1>11. CountOf(w) = 0
  <2>1. ChainsOf(w) \in Seq(Entry) /\ ToSet(ChainsOf(w)) = {}
    BY <1>3, <1>6, ChainsOfObject
  <2>2. ChainsOf(w) = << >>
    <3>1. DOMAIN ChainsOf(w) = 1 .. Len(ChainsOf(w)) /\ Len(ChainsOf(w)) \in Nat
      BY <2>1, LenProperties
    <3>2. DOMAIN ChainsOf(w) = {}
      BY <2>1 DEF ToSet
    <3> QED
      BY <2>1, <3>1, <3>2, EmptySeq
  <2> QED
    BY <1>1, <1>2, <2>2 DEF CountOf
<1> QED
  BY <1>1, <1>4, <1>8, <1>9, <1>10, <1>11 DEF w

-----------------------------------------------------------------------------
(* cjsonArray_Push and cjsonArray_Set, as changes of one cell. *)
Slot == Block \cup {NULL}
WithPages(w, pages) == [w EXCEPT !.pages = pages]
PagesOK(pages) ==
  \A p \in DOMAIN pages : Len(pages[p]) \in IF p = Len(pages) THEN 1 .. PageSize ELSE {PageSize}

(* The array x is w with v at its end, with n pages more. *)
Longer(x, w, v, n, hs) ==
  /\ CellOK(x) /\ x.type = "Array" /\ x.lpSystem = w.lpSystem
  /\ CountOf(x) = CountOf(w) + n /\ KidsOf(x) = KidsOf(w) \cup {v}
  /\ Single(HoldsOf(x)) /\ Keyed(x, hs) /\ SlotsOf(x) = Append(SlotsOf(w), v)

(* The array x is w with v instead of u in slot i. *)
SlotSet(x, w, u, v, i, hs) ==
  /\ CellOK(x) /\ x.type = "Array" /\ x.lpSystem = w.lpSystem
  /\ CountOf(x) = CountOf(w)
  /\ KidsOf(x) = (KidsOf(w) \ {u}) \cup ({v} \ {NULL})
  /\ Single(HoldsOf(x)) /\ Keyed(x, hs)
  /\ i \in 1 .. Len(SlotsOf(w)) /\ SlotsOf(w)[i] = u
  /\ SlotsOf(x) = [SlotsOf(w) EXCEPT ![i] = v]

(* An array with other pages is an array. *)
LEMMA NewPages ==
  ASSUME NEW w \in ArrayCell, NEW pages \in Seq(Page), PagesOK(pages)
  PROVE  /\ CellOK(WithPages(w, pages)) /\ WithPages(w, pages).type = "Array"
         /\ WithPages(w, pages).lpSystem = w.lpSystem /\ WithPages(w, pages).pages = pages
<1> DEFINE x == WithPages(w, pages)
<1>1. w \in [type : {"Array"}, lpSystem : {"libc"}, pages : Seq(Page)]
  BY DEF ArrayCell
<1>2. /\ x \in [type : {"Array"}, lpSystem : {"libc"}, pages : Seq(Page)]
      /\ x.type = "Array" /\ x.lpSystem = w.lpSystem /\ x.pages = pages
  BY <1>1 DEF WithPages
<1> HIDE DEF x
<1>3. CellOK(x)
  BY <1>2 DEF CellOK, ArrayCell, PagesOK
<1> QED
  BY <1>2, <1>3 DEF x

(* The elements of an array, and what its places hold. *)
LEMMA ArrayFacts ==
  ASSUME NEW w, CellOK(w), w.type = "Array"
  PROVE  /\ w \in ArrayCell /\ w.pages \in Seq(Seq(Slot)) /\ PagesOK(w.pages)
         /\ SlotsOf(w) \in Seq(Slot) /\ HoldsOf(w) = SlotsOf(w)
         /\ KidsOf(w) = HeldBy(SlotsOf(w)) /\ CountOf(w) = Len(w.pages) /\ Len(w.pages) \in Nat
         /\ DOMAIN SlotsOf(w) = 1 .. Len(SlotsOf(w)) /\ Len(SlotsOf(w)) \in Nat
         /\ DOMAIN w.pages = 1 .. Len(w.pages)
         /\ \A p \in 1 .. Len(w.pages) : w.pages[p] \in Seq(Slot) /\ Len(w.pages[p]) \in Nat
<1>1. w \in ArrayCell /\ PagesOK(w.pages)
  BY DEF CellOK, PagesOK
<1>2. w.pages \in Seq(Seq(Slot))
  BY <1>1 DEF ArrayCell, Page, Slot
<1>3. SlotsOf(w) \in Seq(Slot)
  BY <1>2, FlattenRange DEF SlotsOf
<1>4. HoldsOf(w) = SlotsOf(w) /\ CountOf(w) = Len(w.pages)
  BY DEF HoldsOf, CountOf
<1>5. KidsOf(w) = HeldBy(SlotsOf(w))
  BY <1>4, KidsHeld
<1>6. DOMAIN SlotsOf(w) = 1 .. Len(SlotsOf(w)) /\ Len(SlotsOf(w)) \in Nat
  BY <1>3, LenProperties
<1>7. Len(w.pages) \in Nat /\ DOMAIN w.pages = 1 .. Len(w.pages)
  BY <1>2, LenProperties
<1>8. \A p \in 1 .. Len(w.pages) : w.pages[p] \in Seq(Slot) /\ Len(w.pages[p]) \in Nat
  BY <1>2, RowsAre
<1> QED
  BY <1>1, <1>2, <1>3, <1>4, <1>5, <1>6, <1>7, <1>8

(* A sequence of slots with one more element holds that as well. *)
LEMMA SlotsPushed ==
  ASSUME NEW s \in Seq(Slot), NEW v \in Block, Single(s), v \notin HeldBy(s)
  PROVE  Single(Append(s, v)) /\ HeldBy(Append(s, v)) = HeldBy(s) \cup {v}
<1> DEFINE t == Append(s, v)
           p == Len(s) + 1
<1>1. /\ t \in Seq(Slot) /\ Len(t) = Len(s) + 1 /\ t[Len(s) + 1] = v
      /\ \A i \in 1 .. Len(s) : t[i] = s[i]
  BY AppendProperties DEF Slot
<1>2. Len(s) \in Nat /\ DOMAIN s = 1 .. Len(s) /\ DOMAIN t = 1 .. Len(t)
  BY <1>1, LenProperties
<1>3. p \notin DOMAIN s /\ DOMAIN t = DOMAIN s \cup {p}
  BY <1>1, <1>2
<1>4. t[p] = v /\ \A q \in DOMAIN s : t[q] = s[q]
  BY <1>1, <1>2
<1> HIDE DEF t, p
<1>5. Single(t) /\ HeldBy(t) = HeldBy(s) \cup ({v} \ {NULL})
  BY <1>3, <1>4, HeldAdd
<1>6. v # NULL
  BY ValuesAssumption
<1> QED
  BY <1>5, <1>6 DEF t

(* cjsonArray_Push with room in the last page. *)
LEMMA SlotFilled ==
  ASSUME NEW w, CellOK(w), w.type = "Array", NEW ss, ss = w.pages,
         ss # <<>>, Len(Last(ss)) < PageSize,
         NEW v \in Block, Single(HoldsOf(w)), v \notin KidsOf(w),
         NEW x, x = WithPages(w, LastPushed(ss, v)), NEW hs
  PROVE  Longer(x, w, v, 0, hs)
<1> DEFINE rs == LastPushed(ss, v)
           n  == Len(ss)
<1>1. /\ w \in ArrayCell /\ ss \in Seq(Seq(Slot)) /\ PagesOK(ss) /\ n \in Nat
      /\ SlotsOf(w) \in Seq(Slot) /\ HoldsOf(w) = SlotsOf(w)
      /\ KidsOf(w) = HeldBy(SlotsOf(w)) /\ CountOf(w) = n /\ DOMAIN ss = 1 .. n
      /\ \A p \in 1 .. n : Len(ss[p]) \in Nat
  BY ArrayFacts
<1>2. n # 0 /\ v \in Slot /\ PageSize \in Nat
  BY <1>1, EmptySeq, ValuesAssumption DEF Slot
<1>13. ss \in Seq(Seq(Slot)) /\ Len(ss) # 0 /\ v \in Slot /\ rs = LastPushed(ss, v)
  BY <1>1, <1>2
<1> HIDE DEF rs
<1>14. /\ rs \in Seq(Seq(Slot)) /\ Len(rs) = Len(ss)
       /\ RowPushed(rs, ss, v)
       /\ FlattenSeq(rs) = Append(FlattenSeq(ss), v)
  <2>1. rs \in Seq(Seq(Slot)) /\ Len(rs) = Len(ss)
    BY <1>13, FlattenPush
  <2>2. RowPushed(rs, ss, v)
    BY <1>13, FlattenPush
  <2>3. FlattenSeq(rs) = Append(FlattenSeq(ss), v)
    BY <1>13, FlattenPush
  <2> QED
    BY <2>1, <2>2, <2>3
<1>3. /\ rs \in Seq(Seq(Slot)) /\ Len(rs) = n
      /\ \A k \in 1 .. n : rs[k] = IF k = n THEN Append(ss[k], v) ELSE ss[k]
      /\ FlattenSeq(rs) = Append(FlattenSeq(ss), v)
  BY <1>14 DEF RowPushed
<1>4. Len(Append(ss[n], v)) = Len(ss[n]) + 1
  <2>1. ss[n] \in Seq(Slot)
    BY <1>1, <1>2, RowsAre
  <2> QED
    BY <1>2, <2>1, AppendProperties
<1>5. Len(ss[n]) < PageSize
  BY DEF Last
<1>6. PagesOK(rs)
  <2>1. DOMAIN rs = 1 .. n
    BY <1>3, LenProperties
  <2>2. ASSUME NEW p \in 1 .. n PROVE Len(rs[p]) \in IF p = n THEN 1 .. PageSize ELSE {PageSize}
    <3>1. CASE p = n
      <4>1. Len(rs[p]) = Len(ss[n]) + 1 /\ Len(ss[n]) \in Nat
        BY <1>1, <1>3, <1>4, <3>1
      <4> QED
        BY <1>2, <1>5, <3>1, <4>1
    <3>2. CASE p # n
      <4>1. rs[p] = ss[p]
        BY <1>3, <3>2
      <4>2. Len(ss[p]) \in {PageSize}
        BY <1>1, <3>2 DEF PagesOK
      <4> QED
        BY <3>2, <4>1, <4>2
    <3> QED
      BY <3>1, <3>2
  <2> QED
    BY <1>3, <2>1, <2>2 DEF PagesOK
<1>7. rs \in Seq(Page)
  BY <1>3 DEF Page, Slot
<1>8. /\ CellOK(x) /\ x.type = "Array" /\ x.lpSystem = w.lpSystem /\ x.pages = rs
  <2>1. x = WithPages(w, rs)
    BY DEF rs
  <2> QED
    BY <1>1, <1>6, <1>7, <2>1, NewPages
<1>9. SlotsOf(x) = Append(SlotsOf(w), v)
  BY <1>3, <1>8 DEF SlotsOf
<1>10. HoldsOf(x) = SlotsOf(x) /\ KidsOf(x) = HeldBy(SlotsOf(x)) /\ CountOf(x) = Len(x.pages)
  BY <1>8, ArrayFacts
<1>11. Single(SlotsOf(x)) /\ HeldBy(SlotsOf(x)) = HeldBy(SlotsOf(w)) \cup {v}
  BY <1>1, <1>9, SlotsPushed
<1>12. Keyed(x, hs)
  BY <1>8 DEF Keyed
<1> QED
  BY <1>1, <1>3, <1>8, <1>9, <1>10, <1>11, <1>12 DEF Longer

(* cjsonArray_Push into a new page. *)
LEMMA PageAdded ==
  ASSUME NEW w, CellOK(w), w.type = "Array", NEW ss, ss = w.pages,
         ss = <<>> \/ Len(Last(ss)) >= PageSize,
         NEW v \in Block, Single(HoldsOf(w)), v \notin KidsOf(w),
         NEW x, x = WithPages(w, Append(ss, <<v>>)), NEW hs
  PROVE  Longer(x, w, v, 1, hs)
<1> DEFINE rs == Append(ss, <<v>>)
           n  == Len(ss)
<1>1. /\ w \in ArrayCell /\ ss \in Seq(Seq(Slot)) /\ PagesOK(ss) /\ n \in Nat
      /\ SlotsOf(w) \in Seq(Slot) /\ HoldsOf(w) = SlotsOf(w)
      /\ KidsOf(w) = HeldBy(SlotsOf(w)) /\ CountOf(w) = n /\ DOMAIN ss = 1 .. n
      /\ \A p \in 1 .. n : Len(ss[p]) \in Nat
  BY ArrayFacts
<1>2. v \in Slot /\ PageSize \in Nat \ {0}
  BY ValuesAssumption DEF Slot
<1>5. n # 0 => Len(ss[n]) >= PageSize
  BY <1>1, EmptySeq DEF Last
<1>3. /\ rs \in Seq(Seq(Slot)) /\ Len(rs) = n + 1
      /\ \A k \in 1 .. n + 1 : rs[k] = IF k = n + 1 THEN <<v>> ELSE ss[k]
      /\ FlattenSeq(rs) = Append(FlattenSeq(ss), v)
  BY <1>1, <1>2, FlattenNew
<1> HIDE DEF rs
<1>4. Len(<<v>>) = 1
  OBVIOUS
<1>6. PagesOK(rs)
  <2>1. DOMAIN rs = 1 .. n + 1
    BY <1>3, LenProperties
  <2>2. ASSUME NEW p \in 1 .. n + 1 PROVE Len(rs[p]) \in IF p = n + 1 THEN 1 .. PageSize ELSE {PageSize}
    <3>1. CASE p = n + 1
      <4>1. Len(rs[p]) = 1
        BY <1>3, <1>4, <3>1
      <4> QED
        BY <1>2, <3>1, <4>1
    <3>2. CASE p # n + 1
      <4>1. rs[p] = ss[p] /\ p \in 1 .. n
        BY <1>1, <1>3, <3>2
      <4>2. Len(ss[p]) \in IF p = n THEN 1 .. PageSize ELSE {PageSize}
        BY <1>1, <4>1 DEF PagesOK
      <4>3. p = n => Len(ss[p]) >= PageSize
        BY <1>1, <1>5, <4>1
      <4>4. Len(ss[p]) = PageSize
        BY <1>2, <4>2, <4>3
      <4> QED
        BY <3>2, <4>1, <4>4
    <3> QED
      BY <3>1, <3>2
  <2> QED
    BY <1>3, <2>1, <2>2 DEF PagesOK
<1>7. rs \in Seq(Page)
  BY <1>3 DEF Page, Slot
<1>8. /\ CellOK(x) /\ x.type = "Array" /\ x.lpSystem = w.lpSystem /\ x.pages = rs
  <2>1. x = WithPages(w, rs)
    BY DEF rs
  <2> QED
    BY <1>1, <1>6, <1>7, <2>1, NewPages
<1>9. SlotsOf(x) = Append(SlotsOf(w), v)
  BY <1>3, <1>8 DEF SlotsOf
<1>10. HoldsOf(x) = SlotsOf(x) /\ KidsOf(x) = HeldBy(SlotsOf(x)) /\ CountOf(x) = Len(x.pages)
  BY <1>8, ArrayFacts
<1>11. Single(SlotsOf(x)) /\ HeldBy(SlotsOf(x)) = HeldBy(SlotsOf(w)) \cup {v}
  BY <1>1, <1>9, SlotsPushed
<1>12. Keyed(x, hs)
  BY <1>8 DEF Keyed
<1> QED
  BY <1>1, <1>3, <1>8, <1>9, <1>10, <1>11, <1>12 DEF Longer

(* cjsonArray_Set: the slot j of page p, which is element i of the array. *)
LEMMA SlotReplaced ==
  ASSUME NEW w, CellOK(w), w.type = "Array", NEW ss, ss = w.pages, NEW off, Offsets(off, ss),
         NEW p \in 1 .. Len(ss), NEW j \in 1 .. Len(ss[p]),
         NEW v \in Slot, Single(HoldsOf(w)), v \notin KidsOf(w),
         NEW rs, rs = PutAt(ss, p, j, v), NEW x, x = WithPages(w, rs),
         NEW i, At(i, off, p, j), NEW hs
  PROVE  SlotSet(x, w, ss[p][j], v, i, hs)
<1> DEFINE n  == Len(ss)
           u  == ss[p][j]
<1>1. /\ w \in ArrayCell /\ ss \in Seq(Seq(Slot)) /\ PagesOK(ss) /\ n \in Nat
      /\ SlotsOf(w) \in Seq(Slot) /\ HoldsOf(w) = SlotsOf(w)
      /\ KidsOf(w) = HeldBy(SlotsOf(w)) /\ CountOf(w) = n /\ DOMAIN ss = 1 .. n
      /\ SlotsOf(w) = FlattenSeq(ss) /\ DOMAIN SlotsOf(w) = 1 .. Len(SlotsOf(w))
  BY ArrayFacts DEF SlotsOf
<1>2. ss \in Seq(Seq(Slot))
  BY <1>1
<1>3. rs \in Seq(Seq(Slot)) /\ Len(rs) = n
  BY <1>2, FlattenPut
<1>15. SameLengths(rs, ss)
  BY <1>2, FlattenPut
<1>16. FlattenSeq(rs) = Put(FlattenSeq(ss), i, v)
  BY <1>2, FlattenPut
<1>17. i \in 1 .. Len(FlattenSeq(ss)) /\ FlattenSeq(ss)[i] = ss[p][j]
  BY <1>2, FlattenPut
<1> HIDE DEF n, u
<1>4. /\ rs \in Seq(Seq(Slot)) /\ Len(rs) = n
      /\ \A k \in 1 .. n : Len(rs[k]) = Len(ss[k])
      /\ FlattenSeq(rs) = Put(FlattenSeq(ss), i, v)
      /\ i \in 1 .. Len(FlattenSeq(ss)) /\ FlattenSeq(ss)[i] = ss[p][j]
  BY <1>3, <1>15, <1>16, <1>17 DEF SameLengths, n
<1>5. i \in 1 .. Len(SlotsOf(w)) /\ SlotsOf(w)[i] = u
  BY <1>1, <1>4 DEF u
<1>6. PagesOK(rs)
  <2>1. DOMAIN rs = 1 .. n
    BY <1>4, LenProperties
  <2> QED
    BY <1>1, <1>4, <2>1 DEF PagesOK, n
<1>7. rs \in Seq(Page)
  BY <1>4 DEF Page, Slot
<1>8. CellOK(x) /\ x.type = "Array" /\ x.lpSystem = w.lpSystem /\ x.pages = rs
  <2>1. w \in ArrayCell /\ x = WithPages(w, rs)
    BY <1>1
  <2> QED
    BY <2>1, <1>6, <1>7, NewPages
<1>9. SlotsOf(x) = [SlotsOf(w) EXCEPT ![i] = v]
  BY <1>1, <1>4, <1>8 DEF SlotsOf, Put
<1>10. HoldsOf(x) = SlotsOf(x) /\ KidsOf(x) = HeldBy(SlotsOf(x)) /\ CountOf(x) = Len(x.pages)
  BY <1>8, ArrayFacts
<1>11. Single(SlotsOf(x)) /\ HeldBy(SlotsOf(x)) = (HeldBy(SlotsOf(w)) \ {u}) \cup ({v} \ {NULL})
  <2> DEFINE f == SlotsOf(w)
             g == SlotsOf(x)
  <2>1. i \in DOMAIN f /\ f[i] = u /\ f \in [1 .. Len(SlotsOf(w)) -> Slot]
    BY <1>1, <1>5, LenProperties
  <2>2. DOMAIN g = DOMAIN f /\ g[i] = v /\ \A q \in DOMAIN f \ {i} : g[q] = f[q]
    <3> HIDE DEF f
    <3>1. g = [f EXCEPT ![i] = v]
      BY <1>9 DEF f
    <3> HIDE DEF g
    <3> QED
      BY <2>1, <3>1
  <2>3. Single(f) /\ v \notin HeldBy(f)
    BY <1>1
  <2> HIDE DEF f, g, u
  <2>4. Single(g) /\ HeldBy(g) = (HeldBy(f) \ {f[i]}) \cup ({v} \ {NULL})
    BY <2>1, <2>2, <2>3, HeldPut
  <2> QED
    BY <2>1, <2>4 DEF f, g
<1>12. Keyed(x, hs)
  BY <1>8 DEF Keyed
<1>13. KidsOf(x) = (KidsOf(w) \ {u}) \cup ({v} \ {NULL}) /\ Single(HoldsOf(x))
  <2> HIDE DEF u
  <2> QED
    BY <1>1, <1>10, <1>11
<1>14. CountOf(x) = CountOf(w)
  BY <1>1, <1>4, <1>8, <1>10
<1> QED
  BY <1>5, <1>8, <1>9, <1>12, <1>13, <1>14 DEF u, SlotSet

(* A new array has no elements. *)
LEMMA NewArrayIs ==
  ASSUME NEW hs
  PROVE  /\ CellOK(NewArray) /\ KidsOf(NewArray) = {} /\ CountOf(NewArray) = 0
         /\ Single(HoldsOf(NewArray)) /\ Keyed(NewArray, hs)
         /\ NewArray.type = "Array" /\ NewArray.lpSystem = "libc" /\ SlotsOf(NewArray) = <<>>
<1> DEFINE w == NewArray
<1>1. w.type = "Array" /\ w.lpSystem = "libc" /\ w.pages = <<>>
  BY DEF NewArray
<1>2. <<>> \in Seq(Page) /\ Len(<<>>) = 0 /\ DOMAIN <<>> = {}
  BY EmptySeq
<1>3. w \in ArrayCell
  BY <1>2 DEF NewArray, ArrayCell
<1>4. CellOK(w)
  BY <1>1, <1>2, <1>3 DEF CellOK
<1> HIDE DEF w
<1>5. SlotsOf(w) = <<>>
  BY <1>1, <1>2 DEF SlotsOf, FlattenSeq
<1>6. HoldsOf(w) = <<>> /\ CountOf(w) = 0
  BY <1>1, <1>2, <1>5 DEF HoldsOf, CountOf
<1>7. Single(HoldsOf(w)) /\ HeldBy(HoldsOf(w)) = {}
  BY <1>2, <1>6 DEF Single, HeldBy
<1>8. KidsOf(w) = {}
  BY <1>4, <1>7, KidsHeld
<1>9. Keyed(w, hs)
  BY <1>1 DEF Keyed
<1> QED
  BY <1>1, <1>4, <1>5, <1>6, <1>7, <1>8, <1>9 DEF w

(* A scalar holds nothing. *)
LEMMA ScalarIs ==
  ASSUME NEW w, CellOK(w), w.type \notin {"Object", "Array"}, NEW hs
  PROVE  KidsOf(w) = {} /\ CountOf(w) = 0 /\ Single(HoldsOf(w)) /\ Keyed(w, hs) /\ w \in ScalarCell
<1>1. DOMAIN << >> = {}
  BY EmptySeq
<1> QED
  BY <1>1 DEF KidsOf, CountOf, Single, HoldsOf, Keyed, CellOK

(* Nor does a new one. *)
LEMMA NewScalarIs ==
  ASSUME NEW t \in Scalar, NEW s \in System
  PROVE  CellOK(NewScalar(t, s)) /\ NewScalar(t, s).type = t /\ NewScalar(t, s).lpSystem = s
BY DEF NewScalar, CellOK, ScalarCell, Scalar, Constant, Numeric

(* The levels of a tree, each with the members of the one before and what   *)
(* lies below them: as many levels as there are elements reach the end.      *)
LEMMA LevelsReach ==
  ASSUME NEW D, NEW k, IsFiniteSet(D), ClosedUnder(k, D), NEW c \in D,
         NEW M \in Nat, Cardinality(D) <= M, NEW f, f[0] = {c},
         \A n \in 1 .. M : f[n] = f[n - 1] \cup UNION {k[d] : d \in f[n - 1]}
  PROVE  f[M] = Reach(D, k, c)
<1> DEFINE R == Reach(D, k, c)
<1>1. R \subseteq D /\ c \in R /\ ClosedUnder(k, R)
  BY ReachIs DEF Within
<1> HIDE DEF R
<1>2. ASSUME NEW n \in Nat, n + 1 <= M PROVE f[n + 1] = f[n] \cup UNION {k[d] : d \in f[n]}
  <2>1. n + 1 \in 1 .. M /\ (n + 1) - 1 = n
    BY <1>2
  <2> QED
    BY <2>1
<1> DEFINE P == {n \in Nat : n <= M => f[n] \subseteq R /\ c \in f[n]}
<1>3. 0 \in P
  BY <1>1
<1>4. ASSUME NEW n \in P PROVE n + 1 \in P
  <2> SUFFICES ASSUME n + 1 <= M PROVE f[n + 1] \subseteq R /\ c \in f[n + 1]
    OBVIOUS
  <2>1. f[n] \subseteq R /\ c \in f[n]
    OBVIOUS
  <2>2. f[n + 1] = f[n] \cup UNION {k[d] : d \in f[n]}
    BY <1>2
  <2> QED
    BY <1>1, <2>1, <2>2 DEF ClosedUnder
<1>5. P = Nat
  <2>1. P \in SUBSET Nat
    OBVIOUS
  <2> HIDE DEF P
  <2> QED
    BY <1>3, <1>4, <2>1, SetInduction
<1>6. ASSUME NEW n \in Nat, n <= M
      PROVE  /\ f[n] \subseteq R /\ c \in f[n] /\ f[n] \subseteq D
             /\ IsFiniteSet(f[n]) /\ Cardinality(f[n]) \in Nat
  <2>1. f[n] \subseteq R /\ c \in f[n]
    BY <1>5, <1>6
  <2>2. f[n] \subseteq D
    BY <1>1, <2>1
  <2> QED
    BY <2>1, <2>2, FS_Subset, FS_CardinalityType
<1> DEFINE Q == {n \in Nat : n <= M => ClosedUnder(k, f[n]) \/ Cardinality(f[n]) >= n + 1}
<1>7. 0 \in Q
  <2>1. Cardinality({c}) = 1
    BY FS_Singleton
  <2> QED
    BY <2>1
<1>8. ASSUME NEW n \in Q PROVE n + 1 \in Q
  <2> SUFFICES ASSUME n + 1 <= M, ~ClosedUnder(k, f[n + 1]) PROVE Cardinality(f[n + 1]) >= (n + 1) + 1
    OBVIOUS
  <2>1. f[n + 1] = f[n] \cup UNION {k[d] : d \in f[n]}
    BY <1>2
  <2>2. f[n] # f[n + 1]
    <3> SUFFICES ASSUME f[n] = f[n + 1] PROVE FALSE
      OBVIOUS
    <3> QED
      BY <2>1 DEF ClosedUnder
  <2>3. ~ClosedUnder(k, f[n])
    <3> SUFFICES ASSUME ClosedUnder(k, f[n]) PROVE FALSE
      OBVIOUS
    <3>1. f[n + 1] = f[n]
      BY <2>1 DEF ClosedUnder
    <3> QED
      BY <2>2, <3>1
  <2>4. n \in Nat /\ n <= M /\ n + 1 \in Nat /\ Cardinality(f[n]) >= n + 1
    BY <2>3
  <2>5. IsFiniteSet(f[n + 1]) /\ Cardinality(f[n + 1]) \in Nat /\ Cardinality(f[n]) \in Nat
    BY <1>6, <2>4
  <2>6. f[n] \subseteq f[n + 1]
    BY <2>1
  <2>7. Cardinality(f[n]) < Cardinality(f[n + 1])
    BY <2>2, <2>5, <2>6, FS_Subset
  <2> QED
    BY <2>4, <2>5, <2>7
<1>9. Q = Nat
  <2>1. Q \in SUBSET Nat
    OBVIOUS
  <2> HIDE DEF Q
  <2> QED
    BY <1>7, <1>8, <2>1, SetInduction
<1>10. ClosedUnder(k, f[M])
  <2>1. ClosedUnder(k, f[M]) \/ Cardinality(f[M]) >= M + 1
    BY <1>9
  <2>2. f[M] \subseteq D /\ Cardinality(f[M]) \in Nat
    BY <1>6
  <2>3. Cardinality(f[M]) <= Cardinality(D) /\ Cardinality(D) \in Nat
    BY <2>2, FS_Subset, FS_CardinalityType
  <2> QED
    BY <2>1, <2>2, <2>3
<1>11. Within(D, k, c, f[M])
  BY <1>6, <1>10 DEF Within
<1>12. R \subseteq f[M]
  BY <1>11, ReachLeast DEF R
<1>13. f[M] \subseteq R /\ M <= M
  BY <1>6
<1> HIDE DEF P, Q
<1> QED
  BY <1>12, <1>13 DEF R

(* The levels that cjsonReleaseValue visits. *)
Levels(f, c, m) ==
  f = [n \in 0 .. m |-> IF n = 0 THEN {c} \ {NULL} ELSE f[n - 1] \cup UNION {Children(d) : d \in f[n - 1]}]

(* The levels of Subtree are a function. *)
LEMMA LevelsExist ==
  ASSUME NEW c, NEW m \in Nat
  PROVE  \E f : Levels(f, c, m)
<1> DEFINE T == {n \in Nat : \E f : Levels(f, c, n)}
<1>1. 0 \in T
  <2>1. Levels([i \in 0 .. 0 |-> {c} \ {NULL}], c, 0)
    BY DEF Levels
  <2> QED
    BY <2>1
<1>2. ASSUME NEW n \in T PROVE n + 1 \in T
  <2>1. PICK f : Levels(f, c, n)
    BY <1>2
  <2> DEFINE g == [i \in 0 .. n + 1 |-> IF i \in 0 .. n THEN f[i]
                                        ELSE f[i - 1] \cup UNION {Children(d) : d \in f[i - 1]}]
  <2>2. ASSUME NEW i \in 0 .. n + 1
        PROVE  g[i] = IF i = 0 THEN {c} \ {NULL} ELSE g[i - 1] \cup UNION {Children(d) : d \in g[i - 1]}
    <3>1. CASE i \in 0 .. n
      <4>1. f[i] = IF i = 0 THEN {c} \ {NULL} ELSE f[i - 1] \cup UNION {Children(d) : d \in f[i - 1]}
        BY <2>1, <3>1 DEF Levels
      <4>2. i # 0 => i - 1 \in 0 .. n /\ i - 1 \in 0 .. n + 1
        BY <3>1
      <4>3. i # 0 => g[i - 1] = f[i - 1]
        BY <4>2
      <4>4. g[i] = f[i]
        BY <3>1
      <4> HIDE DEF g
      <4> QED
        BY <4>1, <4>3, <4>4
    <3>2. CASE i = n + 1
      <4>1. i # 0 /\ i \notin 0 .. n /\ i - 1 \in 0 .. n /\ i - 1 \in 0 .. n + 1
        BY <3>2
      <4>2. g[i - 1] = f[i - 1] /\ g[i] = f[i - 1] \cup UNION {Children(d) : d \in f[i - 1]}
        BY <4>1
      <4> HIDE DEF g
      <4> QED
        BY <4>1, <4>2
    <3> QED
      BY <3>1, <3>2
  <2>3. Levels(g, c, n + 1)
    <3>1. g = [i \in 0 .. n + 1 |-> g[i]]
      OBVIOUS
    <3> HIDE DEF g
    <3> QED
      BY <2>2, <3>1 DEF Levels
  <2> HIDE DEF g
  <2> QED
    BY <2>3
<1>3. T = Nat
  <2> HIDE DEF T
  <2>1. T \in SUBSET Nat
    BY DEF T
  <2> QED
    BY <1>1, <1>2, <2>1, SetInduction
<1> QED
  BY <1>3

Kids(V)   == [c \in DOMAIN V |-> KidsOf(V[c])]
Counts(V) == [c \in DOMAIN V |-> CountOf(V[c])]

(* Subtree is the last of the levels. *)
LEMMA SubtreeLevels ==
  ASSUME NEW c, NEW M, M = Cardinality(Block)
  PROVE  \E f : Levels(f, c, M) /\ Subtree(c) = f[M] /\ M \in Nat
<1>1. M \in Nat
  BY ValuesAssumption, FS_CardinalityType
<1> DEFINE f == CHOOSE f : Levels(f, c, M)
<1>2. Levels(f, c, M)
  BY <1>1, LevelsExist
<1>3. Subtree(c) = f[M]
  BY DEF Subtree, Levels
<1> HIDE DEF f
<1> QED
  BY <1>1, <1>2, <1>3

(* Subtree is what can be reached. *)
LEMMA SubtreeIs ==
  ASSUME DOMAIN values \subseteq Block, ClosedUnder(Kids(values), DOMAIN values), NEW c \in DOMAIN values
  PROVE  Subtree(c) = Reach(DOMAIN values, Kids(values), c)
<1> DEFINE D == DOMAIN values
           k == Kids(values)
           M == Cardinality(Block)
<1>1. PICK f : Levels(f, c, M) /\ Subtree(c) = f[M] /\ M \in Nat
  BY SubtreeLevels
<1>2. IsFiniteSet(D) /\ Cardinality(D) <= M
  BY ValuesAssumption, FS_Subset
<1>3. c # NULL
  BY ValuesAssumption
<1> HIDE DEF M
<1>4. f[0] = {c}
  BY <1>1, <1>3 DEF Levels
<1>5. ASSUME NEW d \in D PROVE Children(d) = k[d] /\ k[d] \subseteq D
  <2>1. Children(d) = k[d]
    BY ViewedByRecord DEF Kids
  <2> QED
    BY <2>1 DEF ClosedUnder
<1> HIDE DEF D, k
<1> DEFINE P == {n \in Nat : n <= M => f[n] \subseteq D}
<1>6. ASSUME NEW n \in Nat, n + 1 <= M
      PROVE  f[n + 1] = f[n] \cup UNION {Children(d) : d \in f[n]}
  <2>1. n + 1 \in 0 .. M /\ n + 1 # 0 /\ (n + 1) - 1 = n
    BY <1>1, <1>6
  <2> DEFINE F(i) == IF i = 0 THEN {c} \ {NULL} ELSE f[i - 1] \cup UNION {Children(d) : d \in f[i - 1]}
  <2>2. f = [i \in 0 .. M |-> F(i)]
    BY <1>1 DEF Levels
  <2> HIDE DEF F
  <2>3. f[n + 1] = F(n + 1)
    BY <2>1, <2>2
  <2> QED
    BY <2>1, <2>3 DEF F
<1>7. 0 \in P
  BY <1>4 DEF D
<1>8. ASSUME NEW n \in P PROVE n + 1 \in P
  <2> SUFFICES ASSUME n + 1 <= M PROVE f[n + 1] \subseteq D
    OBVIOUS
  <2>1. f[n] \subseteq D /\ n \in Nat
    BY <1>1
  <2> QED
    BY <1>5, <1>6, <2>1
<1>9. P = Nat
  <2>1. P \in SUBSET Nat
    OBVIOUS
  <2> HIDE DEF P
  <2> QED
    BY <1>7, <1>8, <2>1, SetInduction
<1>10. ASSUME NEW n \in 1 .. M PROVE f[n] = f[n - 1] \cup UNION {k[d] : d \in f[n - 1]}
  <2>1. n - 1 \in Nat /\ (n - 1) + 1 = n /\ (n - 1) + 1 <= M /\ n - 1 <= M
    BY <1>1
  <2>2. f[n] = f[n - 1] \cup UNION {Children(d) : d \in f[n - 1]}
    BY <1>6, <2>1
  <2>3. f[n - 1] \subseteq D
    BY <1>9, <2>1
  <2> QED
    BY <1>5, <2>2, <2>3
<1>11. ClosedUnder(k, D) /\ c \in D
  BY DEF D, k
<1>12. f[M] = Reach(D, k, c)
  <2> HIDE DEF P
  <2> QED
    BY <1>1, <1>2, <1>4, <1>10, <1>11, LevelsReach
<1> QED
  BY <1>1, <1>12 DEF D, k

(* Nothing lies below NULL. *)
LEMMA SubtreeOfNothing == Subtree(NULL) = {}
<1> DEFINE M == Cardinality(Block)
           c == NULL
<1>1. PICK f : Levels(f, c, M) /\ Subtree(c) = f[M] /\ M \in Nat
  BY SubtreeLevels
<1> HIDE DEF M
<1> DEFINE P == {n \in Nat : n <= M => f[n] = {}}
           F(i) == IF i = 0 THEN {c} \ {NULL} ELSE f[i - 1] \cup UNION {Children(d) : d \in f[i - 1]}
<1>2. f = [i \in 0 .. M |-> F(i)]
  BY <1>1 DEF Levels
<1>3. ASSUME NEW n \in 0 .. M PROVE f[n] = F(n)
  <2> HIDE DEF F
  <2> QED
    BY <1>2
<1>4. 0 \in P
  <2>1. 0 \in 0 .. M
    BY <1>1
  <2>2. F(0) = {}
    OBVIOUS
  <2>3. f[0] = {}
    BY <1>3, <2>1, <2>2
  <2> QED
    BY <2>3
<1>5. ASSUME NEW n \in P PROVE n + 1 \in P
  <2> SUFFICES ASSUME n + 1 <= M PROVE f[n + 1] = {}
    OBVIOUS
  <2>1. f[n] = {} /\ n \in Nat
    BY <1>1
  <2>2. n + 1 \in 0 .. M /\ n + 1 # 0 /\ (n + 1) - 1 = n
    BY <1>1, <2>1
  <2>3. f[n + 1] = F(n + 1)
    BY <1>3, <2>2
  <2> QED
    BY <2>1, <2>2, <2>3
<1>6. P = Nat
  <2>1. P \in SUBSET Nat
    OBVIOUS
  <2> HIDE DEF P
  <2> QED
    BY <1>4, <1>5, <2>1, SetInduction
<1> QED
  BY <1>1, <1>6

-----------------------------------------------------------------------------
(* The sums of the model are totals. *)
CellSums(g, S) ==
  g = [T \in SUBSET S |-> IF T = {} THEN 0
                          ELSE LET x == CHOOSE x \in T : TRUE IN CellsOf(x) + g[T \ {x}]]

(* MapThenSumSet is the total. *)
LEMMA SumIs ==
  ASSUME NEW S, S \subseteq DOMAIN values, IsFiniteSet(S)
  PROVE  MapThenSumSet(CellsOf, S) = Total(Counts(values), S)
<1> DEFINE F == Counts(values)
<1>1. MapThenSumSet(CellsOf, S) = (CHOOSE g : CellSums(g, S))[S]
  BY DEF MapThenSumSet, MapThenFoldSet, CellSums
<1>2. \A x \in S : CellsOf(x) = F[x]
  BY ViewedByRecord DEF Counts
<1> HIDE DEF F
<1>3. ASSUME NEW T \in SUBSET S, T # {} PROVE CellsOf(Chosen(T)) = F[Chosen(T)]
  <2>1. Chosen(T) \in T
    BY <1>3, ChosenIn
  <2> QED
    BY <1>2, <2>1
<1>4. ASSUME NEW g PROVE CellSums(g, S) <=> Adds(g, F, S)
  <2> DEFINE A(T) == IF T = {} THEN 0 ELSE F[Chosen(T)] + g[T \ {Chosen(T)}]
             B(T) == IF T = {} THEN 0 ELSE LET x == CHOOSE x \in T : TRUE IN CellsOf(x) + g[T \ {x}]
  <2>1. ASSUME NEW T \in SUBSET S PROVE A(T) = B(T)
    <3>1. CASE T = {}
      BY <3>1
    <3>2. CASE T # {}
      <4>1. B(T) = CellsOf(Chosen(T)) + g[T \ {Chosen(T)}]
        BY <3>2 DEF Chosen
      <4> HIDE DEF B
      <4> QED
        BY <1>3, <3>2, <4>1
    <3> QED
      BY <3>1, <3>2
  <2>2. CellSums(g, S) <=> g = [T \in SUBSET S |-> B(T)]
    BY DEF CellSums
  <2>3. Adds(g, F, S) <=> g = [T \in SUBSET S |-> A(T)]
    BY DEF Adds
  <2> HIDE DEF A, B
  <2> QED
    BY <2>1, <2>2, <2>3
<1> DEFINE g == CHOOSE g : CellSums(g, S)
<1>5. Adds(g, F, S)
  <2>1. \E h : CellSums(h, S)
    BY <1>4, AddsExists
  <2>2. CellSums(g, S)
    BY <2>1
  <2> HIDE DEF g
  <2> QED
    BY <1>4, <2>2
<1> DEFINE h == Adder(F, S)
<1>6. Adds(h, F, S)
  BY AddsExists DEF Adder
<1> HIDE DEF g, h
<1>7. g[S] = h[S]
  BY <1>5, <1>6, AddsAgree
<1> QED
  BY <1>1, <1>7 DEF g, h, F, Total

-----------------------------------------------------------------------------
(* Sound stores: cells, ownership and counters. *)

(* The entries or pages of a value are counted by a number. *)
LEMMA CountNat ==
  ASSUME NEW w, CellOK(w)
  PROVE  CountOf(w) \in Nat /\ w.lpSystem \in System /\ w.type \in Scalar \cup {"Object", "Array"}
<1>1. CASE w.type = "Object"
  <2>1. w \in ObjectCell
    BY <1>1 DEF CellOK
  <2>2. ChainsOf(w) \in Seq(Entry)
    BY <2>1, ChainsOfObject
  <2>3. CountOf(w) = Len(ChainsOf(w)) /\ Len(ChainsOf(w)) \in Nat
    BY <1>1, <2>2, LenProperties DEF CountOf
  <2> QED
    BY <1>1, <2>1, <2>3 DEF ObjectCell
<1>2. CASE w.type = "Array"
  <2>1. w \in ArrayCell /\ CountOf(w) = Len(w.pages) /\ Len(w.pages) \in Nat
    BY <1>2, ArrayFacts
  <2> QED
    BY <1>2, <2>1 DEF ArrayCell, System
<1>3. CASE w.type \notin {"Object", "Array"}
  <2>1. w \in ScalarCell /\ CountOf(w) = 0
    BY <1>3, ScalarIs
  <2> QED
    BY <2>1 DEF ScalarCell
<1> QED
  BY <1>1, <1>2, <1>3

CellSound(w, h, hs) ==
  /\ CellOK(w) /\ Single(HoldsOf(w)) /\ Keyed(w, hs)
  /\ h \in System /\ (w.type # "Array" => h = w.lpSystem)
OfSystem(V, s) == {c \in DOMAIN V : V[c].lpSystem = s}
Counted(V, C)  == \A s \in System : C[s] = Total(Counts(V), OfSystem(V, s))
Sound(V, H, C, R, hs) ==
  /\ DOMAIN V \subseteq Block /\ DOMAIN H = DOMAIN V
  /\ \A c \in DOMAIN V : CellSound(V[c], H[c], hs)
  /\ Forest(DOMAIN V, Kids(V), R)
  /\ Counted(V, C)

(* Those of G that s allocated. *)
PartOf(V, G, s) == {d \in G : V[d].lpSystem = s}

(* What soundness says of the parts the sums and forests are about. *)
LEMMA SoundFacts ==
  ASSUME NEW V, NEW H, NEW C, NEW R, NEW hs, Sound(V, H, C, R, hs)
  PROVE  /\ IsFiniteSet(DOMAIN V) /\ DOMAIN V \subseteq Block
         /\ \A c \in DOMAIN V : Counts(V)[c] = CountOf(V[c]) /\ Counts(V)[c] \in Nat
         /\ \A c \in DOMAIN V : Kids(V)[c] = KidsOf(V[c]) /\ V[c].lpSystem \in System
         /\ R \subseteq DOMAIN V /\ ClosedUnder(Kids(V), DOMAIN V) /\ NULL \notin DOMAIN V
<1>1. IsFiniteSet(DOMAIN V) /\ NULL \notin DOMAIN V
  BY FS_Subset, ValuesAssumption DEF Sound
<1>2. \A c \in DOMAIN V : CellOK(V[c])
  BY DEF Sound, CellSound
<1>3. \A c \in DOMAIN V : CountOf(V[c]) \in Nat /\ V[c].lpSystem \in System
  BY <1>2, CountNat
<1>4. R \subseteq DOMAIN V /\ ClosedUnder(Kids(V), DOMAIN V)
  BY ForestKids DEF Sound
<1> QED
  BY <1>1, <1>3, <1>4 DEF Sound, Counts, Kids

SplitCount(V, C, G, s) ==
  /\ Total(Counts(V), PartOf(V, G, s)) \in Nat
  /\ Total(Counts(V), OfSystem(V, s) \ G) \in Nat
  /\ C[s] = Total(Counts(V), PartOf(V, G, s)) + Total(Counts(V), OfSystem(V, s) \ G)

(* The counters when the values G are gone. *)
LEMMA CountedWithout ==
  ASSUME NEW V, NEW H, NEW C, NEW R, NEW hs, Sound(V, H, C, R, hs), NEW G, G \subseteq DOMAIN V,
         NEW s \in System
  PROVE  SplitCount(V, C, G, s)
<1> DEFINE S == OfSystem(V, s)
           U == PartOf(V, G, s)
           F == Counts(V)
<1>1. S \subseteq DOMAIN V /\ U \subseteq S /\ S \ U = S \ G
  BY DEF OfSystem, PartOf
<1>2. IsFiniteSet(S) /\ U \in SUBSET S
  BY <1>1, SoundFacts, FS_Subset
<1>3. \A x \in S : F[x] \in Nat
  BY <1>1, SoundFacts
<1>4. C[s] = Total(F, S)
  BY DEF Sound, Counted
<1> HIDE DEF S, U, F
<1>5. /\ Total(F, S) = Total(F, U) + Total(F, S \ U)
      /\ Total(F, U) \in Nat /\ Total(F, S \ U) \in Nat
  <2>1. IsFiniteSet(S)
    BY <1>2
  <2>2. U \in SUBSET S
    BY <1>2
  <2>3. Total(F, S) = Total(F, U) + Total(F, S \ U)
    BY <1>3, <2>1, <2>2, TotalParts
  <2>4. Total(F, U) \in Nat /\ Total(F, S \ U) \in Nat
    BY <1>3, <2>1, <2>2, TotalParts
  <2> QED
    BY <2>3, <2>4
<1> QED
  BY <1>1, <1>4, <1>5 DEF S, U, F, SplitCount

(* One cell changes, and G goes. *)
LEMMA Exchange ==
  ASSUME NEW V, NEW H, NEW C, NEW R, NEW hs, Sound(V, H, C, R, hs),
         NEW c \in DOMAIN V, NEW G, G \subseteq DOMAIN V, c \notin G,
         NEW x, CellOK(x), Single(HoldsOf(x)), Keyed(x, hs), x.lpSystem = V[c].lpSystem,
         x.type = "Array" <=> V[c].type = "Array",
         NEW n \in Nat, CountOf(x) = CountOf(V[c]) + n,
         NEW W, DOMAIN W = DOMAIN V \ G, W[c] = x, \A d \in DOMAIN W \ {c} : W[d] = V[d],
         NEW J, DOMAIN J = DOMAIN W, \A d \in DOMAIN W : J[d] = H[d],
         NEW B, \A s \in System : B[s] = (C[s] + (IF s = x.lpSystem THEN n ELSE 0))
                                         - Total(Counts(V), PartOf(V, G, s)),
         NEW Q, Forest(DOMAIN W, Kids(W), Q)
  PROVE  Sound(W, J, B, Q, hs) /\ \A s \in System : B[s] \in Nat
<1>1. DOMAIN W \subseteq Block /\ c \in DOMAIN W
  BY DEF Sound
<1>2. ASSUME NEW d \in DOMAIN W PROVE CellSound(W[d], J[d], hs)
  <2>1. CellSound(V[d], H[d], hs) /\ J[d] = H[d]
    BY DEF Sound
  <2>2. CASE d = c
    <3>1. H[c] \in System /\ (V[c].type # "Array" => H[c] = V[c].lpSystem)
      BY <2>1, <2>2 DEF CellSound
    <3>2. x.type # "Array" => H[c] = x.lpSystem
      BY <3>1
    <3> QED
      BY <2>1, <2>2, <3>1, <3>2 DEF CellSound
  <2>3. CASE d # c
    BY <2>1, <2>3
  <2> QED
    BY <2>2, <2>3
<1>3. ASSUME NEW s \in System
      PROVE  B[s] = Total(Counts(W), OfSystem(W, s)) /\ B[s] \in Nat
  <2> DEFINE S == OfSystem(V, s) \ G
             F == Counts(V)
             K == Counts(W)
             a == Total(F, PartOf(V, G, s))
             b == Total(F, S)
  <2>1. a \in Nat /\ b \in Nat /\ C[s] = a + b
    <3>1. SplitCount(V, C, G, s)
      BY CountedWithout
    <3> QED
      BY <3>1 DEF SplitCount
  <2>2. OfSystem(W, s) = S
    BY DEF OfSystem
  <2>3. IsFiniteSet(S) /\ S \subseteq DOMAIN V /\ S \subseteq DOMAIN W
    <3>1. S \subseteq DOMAIN V /\ S \subseteq DOMAIN W
      BY DEF OfSystem
    <3> QED
      BY <3>1, SoundFacts, FS_Subset
  <2>4. ASSUME NEW d \in S PROVE F[d] \in Nat /\ K[d] = IF d = c THEN F[d] + n ELSE F[d]
    <3>1. F[d] \in Nat /\ F[d] = CountOf(V[d]) /\ K[d] = CountOf(W[d])
      BY <2>3, SoundFacts DEF Counts
    <3> QED
      BY <2>3, <3>1
  <2>5. c \in S <=> s = x.lpSystem
    BY DEF OfSystem
  <2>6. B[s] = (C[s] + (IF s = x.lpSystem THEN n ELSE 0)) - a
    OBVIOUS
  <2> HIDE DEF S, F, K, a
  <2>7. CASE c \in S
    <3>1. Total(K, S) = Total(F, S) + n
      BY <2>3, <2>4, <2>7, TotalAt
    <3>2. B[s] = (C[s] + n) - a
      BY <2>5, <2>6, <2>7
    <3>3. Total(K, S) = b + n
      BY <3>1
    <3> HIDE DEF b
    <3>4. B[s] = Total(K, S) /\ B[s] \in Nat
      BY <2>1, <3>2, <3>3
    <3> QED
      BY <2>2, <3>4 DEF K
  <2>8. CASE c \notin S
    <3>1. \A d \in S : F[d] \in Nat /\ K[d] = F[d]
      BY <2>4, <2>8
    <3>2. Total(K, S) = b
      BY <2>3, <3>1, TotalSame
    <3>3. B[s] = (C[s] + 0) - a
      BY <2>5, <2>6, <2>8
    <3> HIDE DEF b
    <3>4. B[s] = Total(K, S) /\ B[s] \in Nat
      BY <2>1, <3>2, <3>3
    <3> QED
      BY <2>2, <3>4 DEF K
  <2> QED
    BY <2>7, <2>8
<1> QED
  BY <1>1, <1>2, <1>3 DEF Sound, Counted

(* From the values V, the heap H and the counts C to W, J and B: G goes.      *)
Removal(V, H, C, G, W, J, B) ==
  /\ DOMAIN W = DOMAIN V \ G /\ \A d \in DOMAIN W : W[d] = V[d]
  /\ DOMAIN J = DOMAIN W /\ \A d \in DOMAIN W : J[d] = H[d]
  /\ \A s \in System : B[s] = C[s] - Total(Counts(V), PartOf(V, G, s))

SoundLeft(V, G, W, J, B, Q, hs) ==
  /\ Sound(W, J, B, Q, hs) /\ \A s \in System : B[s] \in Nat
  /\ G \subseteq DOMAIN V

(* A value of the client goes with all below it. *)
LEMMA Dropped ==
  ASSUME NEW V, NEW H, NEW C, NEW R, NEW hs, Sound(V, H, C, R, hs),
         NEW v \in R, NEW G, G = Reach(DOMAIN V, Kids(V), v),
         NEW W, NEW J, NEW B, Removal(V, H, C, G, W, J, B)
  PROVE  SoundLeft(V, G, W, J, B, R \ {v}, hs)
<1>0. /\ DOMAIN W = DOMAIN V \ G /\ \A d \in DOMAIN W : W[d] = V[d]
      /\ DOMAIN J = DOMAIN W /\ \A d \in DOMAIN W : J[d] = H[d]
      /\ \A s \in System : B[s] = C[s] - Total(Counts(V), PartOf(V, G, s))
  BY DEF Removal
<1>1. DOMAIN W \subseteq Block /\ G \subseteq DOMAIN V
  BY <1>0 DEF Sound, Reach
<1>2. \A d \in DOMAIN W : CellSound(W[d], J[d], hs)
  BY <1>0 DEF Sound
<1>3. ASSUME NEW s \in System
      PROVE  B[s] = Total(Counts(W), OfSystem(W, s)) /\ B[s] \in Nat
  <2> DEFINE S == OfSystem(V, s) \ G
             F == Counts(V)
             K == Counts(W)
             a == Total(F, PartOf(V, G, s))
             b == Total(F, S)
  <2>1. a \in Nat /\ b \in Nat /\ C[s] = a + b
    <3>1. SplitCount(V, C, G, s)
      BY <1>1, CountedWithout
    <3> QED
      BY <3>1 DEF SplitCount
  <2>2. OfSystem(W, s) = S
    BY <1>0 DEF OfSystem
  <2>3. IsFiniteSet(S) /\ S \subseteq DOMAIN V /\ S \subseteq DOMAIN W
    <3>1. S \subseteq DOMAIN V /\ S \subseteq DOMAIN W
      BY <1>0 DEF OfSystem
    <3> QED
      BY <3>1, SoundFacts, FS_Subset
  <2>4. ASSUME NEW d \in S PROVE F[d] \in Nat /\ K[d] = F[d]
    <3>1. F[d] \in Nat /\ F[d] = CountOf(V[d]) /\ K[d] = CountOf(W[d])
      BY <1>0, <2>3, SoundFacts DEF Counts
    <3>2. W[d] = V[d]
      BY <1>0, <2>3
    <3> QED
      BY <3>1, <3>2
  <2>6. B[s] = C[s] - a
    BY <1>0
  <2> HIDE DEF S, F, K, a
  <2>7. Total(K, S) = b
    BY <2>3, <2>4, TotalSame
  <2> HIDE DEF b
  <2>8. B[s] = Total(K, S) /\ B[s] \in Nat
    BY <2>1, <2>6, <2>7
  <2> QED
    BY <2>2, <2>8 DEF K
<1>4. Forest(DOMAIN W, Kids(W), R \ {v})
  <2> DEFINE D == DOMAIN V
             k == Kids(V)
             h == Kids(W)
  <2>1. Forest(D, k, R)
    BY DEF Sound
  <2>2. \A d \in D \ Reach(D, k, v) : h[d] = k[d]
    BY <1>0 DEF Kids
  <2>3. DOMAIN W = D \ Reach(D, k, v)
    BY <1>0
  <2> HIDE DEF D, k, h
  <2>4. Forest(D \ Reach(D, k, v), k, R \ {v})
    BY <2>1, ForestDrop
  <2>5. Forest(D \ Reach(D, k, v), h, R \ {v})
    BY <2>2, <2>4, ForestSame
  <2> QED
    BY <2>3, <2>5 DEF h
<1> QED
  BY <1>0, <1>1, <1>2, <1>3, <1>4 DEF Sound, Counted, SoundLeft

(* A new value of the client. *)
LEMMA Added ==
  ASSUME NEW V, NEW H, NEW C, NEW R, NEW hs, Sound(V, H, C, R, hs),
         NEW b \in Block, b \notin DOMAIN V, NEW x, NEW t, CellSound(x, t, hs),
         KidsOf(x) = {}, CountOf(x) = 0,
         NEW W, DOMAIN W = DOMAIN V \cup {b}, W[b] = x, \A d \in DOMAIN V : W[d] = V[d],
         NEW J, DOMAIN J = DOMAIN W, J[b] = t, \A d \in DOMAIN V : J[d] = H[d]
  PROVE  Sound(W, J, C, R \cup {b}, hs)
<1>1. DOMAIN W \subseteq Block
  BY DEF Sound
<1>2. \A d \in DOMAIN W : CellSound(W[d], J[d], hs)
  BY DEF Sound
<1>3. ASSUME NEW s \in System
      PROVE  C[s] = Total(Counts(W), OfSystem(W, s))
  <2> DEFINE S == OfSystem(V, s)
             F == Counts(V)
             K == Counts(W)
  <2>1. C[s] = Total(F, S)
    BY DEF Sound, Counted
  <2>3. IsFiniteSet(S) /\ S \subseteq DOMAIN V /\ S \subseteq DOMAIN W
    <3>1. S \subseteq DOMAIN V /\ S \subseteq DOMAIN W
      BY DEF OfSystem
    <3> QED
      BY <3>1, SoundFacts, FS_Subset
  <2>4. ASSUME NEW d \in S PROVE F[d] \in Nat /\ K[d] = F[d]
    <3>1. F[d] \in Nat /\ F[d] = CountOf(V[d]) /\ K[d] = CountOf(W[d])
      BY <2>3, SoundFacts DEF Counts
    <3> QED
      BY <2>3, <3>1
  <2>5. K[b] = 0 /\ b \notin S
    BY <2>3 DEF Counts
  <2>6. OfSystem(W, s) = IF x.lpSystem = s THEN S \cup {b} ELSE S
    BY DEF OfSystem
  <2> HIDE DEF S, F, K
  <2>7. Total(K, S) = Total(F, S) /\ Total(K, S) \in Nat
    <3>1. Total(K, S) = Total(F, S)
      BY <2>3, <2>4, TotalSame
    <3>2. \A d \in S : K[d] \in Nat
      BY <2>4
    <3> QED
      BY <2>3, <3>1, <3>2, TotalNat
  <2>8. CASE x.lpSystem = s
    <3> DEFINE T == S \cup {b}
    <3>1. IsFiniteSet(T) /\ b \in T /\ T \ {b} = S
      BY <2>3, <2>5, FS_AddElement
    <3>2. \A d \in T : K[d] \in Nat
      BY <2>4, <2>5
    <3> HIDE DEF T
    <3>3. Total(K, T) = K[b] + Total(K, T \ {b})
      BY <3>1, <3>2, TotalStep
    <3>4. Total(K, T) = Total(K, S)
      BY <2>5, <2>7, <3>1, <3>3
    <3> QED
      BY <2>1, <2>6, <2>7, <2>8, <3>4 DEF T, K
  <2>9. CASE x.lpSystem # s
    BY <2>1, <2>6, <2>7, <2>9 DEF K
  <2> QED
    BY <2>8, <2>9
<1>4. Forest(DOMAIN W, Kids(W), R \cup {b})
  <2> DEFINE D == DOMAIN V
             k == Kids(V)
             h == Kids(W)
  <2>1. Forest(D, k, R) /\ b \notin D
    BY DEF Sound
  <2>2. (\A d \in D : h[d] = k[d]) /\ h[b] = {}
    BY DEF Kids
  <2> HIDE DEF D, k, h
  <2>3. Forest(D \cup {b}, h, R \cup {b})
    BY <2>1, <2>2, ForestAdd
  <2> QED
    BY <2>3 DEF D, h
<1> QED
  BY <1>1, <1>2, <1>3, <1>4 DEF Sound, Counted

Taken(D, k, u) == IF u = NULL THEN {} ELSE Reach(D, k, u)
GoneOf(V, u)   == Taken(DOMAIN V, Kids(V), u)
(* The children h are those of k, but those of c, which loses u and gets v. *)
Swaps(h, D, k, c, u, v) ==
  \A y \in D : h[y] = IF y = c THEN (k[c] \ {u}) \cup ({v} \ {NULL}) ELSE k[y]
Graftable(D, k, R, c, v) == v = NULL \/ (v \in R /\ c \notin Reach(D, k, v))

(* In a forest u is released from below c, and the root v comes below it;    *)
(* NULL stands for none.                                                     *)
LEMMA SwapForest ==
  ASSUME NEW D, NEW k, NEW R, Forest(D, k, R), NULL \notin D, NEW c \in D,
         NEW u, u = NULL \/ u \in k[c],
         NEW v, Graftable(D, k, R, c, v),
         NEW G, G = Taken(D, k, u), NEW h, Swaps(h, D, k, c, u, v)
  PROVE  Forest(D \ G, h, R \ {v}) /\ c \notin G /\ G \subseteq D
<1>1. R \subseteq D /\ ClosedUnder(k, D) /\ k[c] \subseteq D
  BY ForestKids DEF ClosedUnder
<1>2. NULL \notin R /\ NULL \notin k[c]
  BY <1>1
<1>8. \A y \in D : h[y] = IF y = c THEN (k[c] \ {u}) \cup ({v} \ {NULL}) ELSE k[y]
  BY DEF Swaps
<1>9. v # NULL => v \in R /\ c \notin Reach(D, k, v)
  BY DEF Graftable
<1>3. c \notin G /\ G \subseteq D
  <2>1. CASE u = NULL
    BY <2>1 DEF Taken
  <2>2. CASE u # NULL
    <3>1. u \in k[c] /\ G = Reach(D, k, u)
      BY <2>2 DEF Taken
    <3>2. c \notin Reach(D, k, u)
      BY <3>1, ReachUp
    <3> QED
      BY <3>1, <3>2 DEF Reach
  <2> QED
    BY <2>1, <2>2
<1>4. CASE u = NULL /\ v = NULL
  <2>1. \A y \in D : h[y] = k[y]
    BY <1>2, <1>4, <1>8
  <2>2. Forest(D, h, R)
    BY <2>1, ForestSame
  <2>3. D \ G = D /\ R \ {v} = R
    BY <1>2, <1>4 DEF Taken
  <2> QED
    BY <1>3, <2>2, <2>3
<1>5. CASE u = NULL /\ v # NULL
  <2>1. \A y \in D : h[y] = IF y = c THEN k[c] \cup {v} ELSE k[y]
    BY <1>2, <1>5, <1>8
  <2>4. v \in R /\ c \notin Reach(D, k, v)
    BY <1>5, <1>9
  <2>2. Forest(D, h, R \ {v})
    BY <2>1, <2>4, ForestGraft
  <2>3. D \ G = D
    BY <1>5 DEF Taken
  <2> QED
    BY <1>3, <2>2, <2>3
<1>6. CASE u # NULL /\ v = NULL
  <2>1. \A y \in D : h[y] = IF y = c THEN k[c] \ {u} ELSE k[y]
    BY <1>6, <1>8
  <2>5. u \in k[c]
    BY <1>6
  <2>2. Forest(D, h, R \cup {u}) /\ Reach(D, h, u) = Reach(D, k, u)
    <3>1. Forest(D, h, R \cup {u})
      BY <2>1, <2>5, ForestCut
    <3>2. Reach(D, h, u) = Reach(D, k, u)
      BY <2>1, <2>5, ReachCut
    <3> QED
      BY <3>1, <3>2
  <2>3. Forest(D \ Reach(D, h, u), h, (R \cup {u}) \ {u})
    BY <2>2, ForestDrop
  <2>4. (R \cup {u}) \ {u} = R \ {v}
    <3>1. k[c] \cap R = {}
      BY DEF Forest
    <3> QED
      BY <1>2, <1>6, <3>1
  <2> QED
    BY <1>3, <1>6, <2>2, <2>3, <2>4 DEF Taken
<1>7. CASE u # NULL /\ v # NULL
  <2>1. \A y \in D : h[y] = IF y = c THEN (k[c] \ {u}) \cup {v} ELSE k[y]
    BY <1>7, <1>8
  <2>3. u \in k[c] /\ v \in R /\ c \notin Reach(D, k, v)
    BY <1>7, <1>9
  <2>2. Forest(D \ Reach(D, k, u), h, R \ {v})
    BY <2>1, <2>3, ForestSwap
  <2> QED
    BY <1>3, <1>7, <2>2 DEF Taken
<1> QED
  BY <1>4, <1>5, <1>6, <1>7

(* The cell x may take the place of w. *)
Fits(x, w, n, hs) ==
  /\ CellOK(x) /\ Single(HoldsOf(x)) /\ Keyed(x, hs) /\ x.lpSystem = w.lpSystem
  /\ (x.type = "Array" <=> w.type = "Array") /\ CountOf(x) = CountOf(w) + n

(* From the values V, the heap H and the counts C to W, J and B: c gets the   *)
(* cell x with n entries or pages more, and G goes.                           *)
Change(V, H, C, c, G, n, x, W, J, B) ==
  /\ DOMAIN W = DOMAIN V \ G /\ W[c] = x /\ \A d \in DOMAIN W \ {c} : W[d] = V[d]
  /\ DOMAIN J = DOMAIN W /\ \A d \in DOMAIN W : J[d] = H[d]
  /\ \A s \in System : B[s] = (C[s] + (IF s = x.lpSystem THEN n ELSE 0))
                              - Total(Counts(V), PartOf(V, G, s))

(* A change of one value, with what it drops, leaves the store sound. *)
LEMMA Swapped ==
  ASSUME NEW V, NEW H, NEW C, NEW R, NEW hs, Sound(V, H, C, R, hs), NEW c \in DOMAIN V,
         NEW u, u = NULL \/ u \in KidsOf(V[c]),
         NEW v, Graftable(DOMAIN V, Kids(V), R, c, v),
         NEW G, G = GoneOf(V, u),
         NEW n \in Nat, NEW x, Fits(x, V[c], n, hs),
         KidsOf(x) = (KidsOf(V[c]) \ {u}) \cup ({v} \ {NULL}),
         NEW W, NEW J, NEW B, Change(V, H, C, c, G, n, x, W, J, B)
  PROVE  SoundLeft(V, G, W, J, B, R \ {v}, hs)
<1>0. /\ DOMAIN W = DOMAIN V \ G /\ W[c] = x /\ \A d \in DOMAIN W \ {c} : W[d] = V[d]
      /\ DOMAIN J = DOMAIN W /\ \A d \in DOMAIN W : J[d] = H[d]
      /\ \A s \in System : B[s] = (C[s] + (IF s = x.lpSystem THEN n ELSE 0))
                                  - Total(Counts(V), PartOf(V, G, s))
  BY DEF Change
<1> DEFINE D == DOMAIN V
           k == Kids(V)
           h == [y \in D |-> IF y = c THEN KidsOf(x) ELSE k[y]]
           Q == R \ {v}
<1>1. Forest(D, k, R) /\ NULL \notin D /\ c \in D
  BY SoundFacts DEF Sound
<1>2. k[c] = KidsOf(V[c])
  BY DEF Kids
<1>3. G = Taken(D, k, u)
  BY DEF GoneOf
<1>4. Swaps(h, D, k, c, u, v)
  BY <1>2 DEF Swaps
<1>5. u = NULL \/ u \in k[c]
  BY <1>2
<1>6. Graftable(D, k, R, c, v)
  OBVIOUS
<1>7. \A y \in D \ G : Kids(W)[y] = h[y]
  <2>1. ASSUME NEW y \in D \ G PROVE Kids(W)[y] = h[y]
    <3>1. Kids(W)[y] = KidsOf(W[y]) /\ k[y] = KidsOf(V[y])
      BY <1>0 DEF Kids
    <3> QED
      BY <1>0, <3>1
  <2> QED
    BY <2>1
<1>8. DOMAIN W = D \ G
  BY <1>0
<1> HIDE DEF D, k, h
<1>9. Forest(D \ G, h, R \ {v}) /\ c \notin G /\ G \subseteq D
  BY <1>1, <1>3, <1>4, <1>5, <1>6, SwapForest
<1>10. Forest(D \ G, Kids(W), R \ {v})
  BY <1>7, <1>9, ForestSame
<1>11. Forest(DOMAIN W, Kids(W), Q)
  BY <1>8, <1>10
<1>12. c \notin G /\ G \subseteq DOMAIN V
  BY <1>9 DEF D
<1>13. /\ CellOK(x) /\ Single(HoldsOf(x)) /\ Keyed(x, hs) /\ x.lpSystem = V[c].lpSystem
       /\ (x.type = "Array" <=> V[c].type = "Array") /\ CountOf(x) = CountOf(V[c]) + n
  BY DEF Fits
<1> HIDE DEF Q
<1>14. Sound(W, J, B, Q, hs) /\ \A s \in System : B[s] \in Nat
  BY <1>0, <1>11, <1>12, <1>13, Exchange
<1> QED
  BY <1>12, <1>14 DEF Q, SoundLeft

-----------------------------------------------------------------------------
(* What the steps of the model compute. *)
LEMMA GoneIs ==
  ASSUME NEW H, NEW C, NEW R, NEW hs, Sound(values, H, C, R, hs),
         NEW u, u = NULL \/ u \in DOMAIN values
  PROVE  Subtree(u) = GoneOf(values, u)
<1>1. DOMAIN values \subseteq Block /\ ClosedUnder(Kids(values), DOMAIN values) /\ NULL \notin DOMAIN values
  BY SoundFacts
<1>2. CASE u = NULL
  BY <1>2, SubtreeOfNothing DEF GoneOf, Taken
<1>3. CASE u # NULL
  BY <1>1, <1>3, SubtreeIs DEF GoneOf, Taken
<1> QED
  BY <1>2, <1>3

(* CellsWithout subtracts the entries and pages of what is released. *)
LEMMA CellsLeft ==
  ASSUME NEW H, NEW C, NEW R, NEW hs, Sound(values, H, C, R, hs),
         cells \in [System -> 0 .. MaxCells], NEW G, G \subseteq DOMAIN values
  PROVE  /\ DOMAIN CellsWithout(G) = System
         /\ \A s \in System : CellsWithout(G)[s] = cells[s] - Total(Counts(values), PartOf(values, G, s))
         /\ CellsWithout(G) = [s \in System |-> CellsWithout(G)[s]]
<1>1. DOMAIN cells = System
  OBVIOUS
<1>2. ASSUME NEW s \in System
      PROVE  MapThenSumSet(CellsOf, {d \in G : values[d].lpSystem = s})
               = Total(Counts(values), PartOf(values, G, s))
  <2> DEFINE S == PartOf(values, G, s)
  <2>1. {d \in G : values[d].lpSystem = s} = S
    BY DEF PartOf
  <2>2. S \subseteq DOMAIN values
    BY DEF PartOf
  <2> HIDE DEF S
  <2>3. IsFiniteSet(S)
    BY <2>2, SoundFacts, FS_Subset
  <2>4. MapThenSumSet(CellsOf, S) = Total(Counts(values), S)
    BY <2>2, <2>3, SumIs
  <2> QED
    BY <2>1, <2>4 DEF S
<1> DEFINE m(s) == MapThenSumSet(CellsOf, {d \in G : values[d].lpSystem = s})
<1>3. CellsWithout(G) = [s \in System |-> cells[s] - m(s)]
  BY <1>1 DEF CellsWithout
<1>4. \A s \in System : m(s) = Total(Counts(values), PartOf(values, G, s))
  BY <1>2
<1> HIDE DEF m
<1> QED
  BY <1>3, <1>4

(* Plus adds those of an allocation. *)
LEMMA CellsMore ==
  ASSUME cells \in [System -> 0 .. MaxCells], NEW s \in System, NEW n \in Nat
  PROVE  /\ Plus(s, n) \in [System -> Nat]
         /\ \A t \in System : Plus(s, n)[t] = cells[t] + (IF t = s THEN n ELSE 0)
<1>1. \A t \in System : Plus(s, n)[t] = IF t = s THEN cells[t] + n ELSE cells[t]
  BY DEF Plus
<1>2. \A t \in System : cells[t] \in Nat
  BY ValuesAssumption
<1>3. DOMAIN Plus(s, n) = System
  BY DEF Plus
<1>4. Plus(s, n) = [t \in System |-> Plus(s, n)[t]]
  BY DEF Plus
<1> DEFINE f == Plus(s, n)
<1> HIDE DEF f
<1>5. \A t \in System : f[t] = cells[t] + (IF t = s THEN n ELSE 0) /\ f[t] \in Nat
  BY <1>1, <1>2 DEF f
<1> QED
  BY <1>4, <1>5 DEF f

(* The room left in the pool. *)
LEMMA FreeCellsIs ==
  ASSUME cells \in [System -> 0 .. MaxCells]
  PROVE  FreeCells = MaxCells - (cells["libc"] + cells["pool"])
<1> DEFINE S == DOMAIN cells
           E(g) == g = [T \in SUBSET S |-> IF T = {} THEN 0
                          ELSE LET x == CHOOSE x \in T : TRUE IN cells[x] + g[T \ {x}]]
<1>0. S = System
  OBVIOUS
<1>1. FreeCells = MaxCells - (CHOOSE g : E(g))[S]
  BY DEF FreeCells, MapThenSumSet, MapThenFoldSet
<1>2. IsFiniteSet(S)
  <2>1. S = {"libc"} \cup {"pool"}
    BY <1>0 DEF System
  <2>2. IsFiniteSet({"libc"})
    BY FS_Singleton
  <2> HIDE DEF S
  <2> QED
    BY <2>1, <2>2, FS_AddElement
<1>3. ASSUME NEW g PROVE E(g) <=> Adds(g, cells, S)
  BY DEF Adds, Chosen
<1> HIDE DEF E
<1> DEFINE g == CHOOSE g : E(g)
           h == Adder(cells, S)
<1>4. Adds(g, cells, S)
  <2>1. \E f : E(f)
    BY <1>2, <1>3, AddsExists
  <2>2. E(g)
    BY <2>1
  <2> HIDE DEF g
  <2> QED
    BY <1>3, <2>2
<1>5. Adds(h, cells, S)
  BY <1>2, AddsExists DEF Adder
<1> HIDE DEF g, h
<1>6. g[S] = h[S]
  BY <1>2, <1>4, <1>5, AddsAgree
<1>7. FreeCells = MaxCells - Total(cells, S)
  BY <1>1, <1>6 DEF g, h, Total
<1>8. \A t \in System : cells[t] \in Nat
  BY ValuesAssumption
<1> HIDE DEF S
<1>9. Total(cells, System) = cells["libc"] + Total(cells, System \ {"libc"})
  BY <1>0, <1>2, <1>8, TotalStep DEF System
<1>10. System \ {"libc"} = {"pool"} /\ {"pool"} \ {"pool"} = {} /\ IsFiniteSet({"pool"})
  BY FS_Singleton DEF System
<1>11. /\ Total(cells, {"pool"}) = cells["pool"] + Total(cells, {"pool"} \ {"pool"})
       /\ Total(cells, {}) = 0 /\ cells["pool"] \in Nat
  <2>1. \A x \in {"pool"} : cells[x] \in Nat
    BY <1>8 DEF System
  <2> QED
    BY <1>10, <2>1, TotalStep
<1> DEFINE a == cells["libc"]
           b == cells["pool"]
           T == Total(cells, System)
<1>12. T = a + Total(cells, {"pool"})
  BY <1>9, <1>10
<1>13. Total(cells, {"pool"}) = b + 0 /\ b \in Nat
  BY <1>10, <1>11
<1>14. FreeCells = MaxCells - T
  BY <1>0, <1>7
<1> HIDE DEF a, b, T
<1>15. FreeCells = MaxCells - (a + b)
  BY <1>12, <1>13, <1>14
<1> QED
  BY <1>15 DEF a, b

(* Only an array is given to the wrong allocator. *)
LEMMA MisfreedIs ==
  ASSUME NEW C, NEW R, NEW hs, Sound(values, heap, C, R, hs), NEW G, G \subseteq DOMAIN values
  PROVE  Misfreed(G) \subseteq {"Array"}
BY DEF Misfreed, Sound, CellSound

-----------------------------------------------------------------------------
(* The inductive invariant. *)
IInv ==
  /\ Sound(values, heap, cells, owned, hash)
  /\ cells \in [System -> 0 .. MaxCells] /\ hash \in [Key -> 0 .. BucketCount - 1]
  /\ ended \in BOOLEAN /\ misfreed \subseteq {"Array"}

(* What the client may store is a root, and not above c. *)
LEMMA StorableIs ==
  ASSUME IInv, NEW c \in DOMAIN values, NEW v, v = NULL \/ v \in Storable(c)
  PROVE  /\ Graftable(DOMAIN values, Kids(values), owned, c, v)
         /\ v = NULL \/ (v \in Block /\ v \in owned)
         /\ v \notin KidsOf(values[c])
<1> DEFINE D == DOMAIN values
<1>1. /\ owned \subseteq D /\ D \subseteq Block /\ NULL \notin D
      /\ Forest(D, Kids(values), owned) /\ Kids(values)[c] = KidsOf(values[c])
      /\ ClosedUnder(Kids(values), D)
  BY SoundFacts DEF IInv, Sound
<1>2. v = NULL \/ (v \in owned /\ c \notin Subtree(v))
  BY DEF Storable
<1>3. v # NULL => Subtree(v) = Reach(D, Kids(values), v)
  BY <1>1, <1>2, SubtreeIs
<1>4. v \notin KidsOf(values[c])
  BY <1>1, <1>2 DEF Forest, ClosedUnder
<1>7. owned \subseteq Block
  BY <1>1
<1>5. v = NULL \/ (v \in Block /\ v \in owned)
  BY <1>2, <1>7
<1>6. v = NULL \/ (v \in owned /\ c \notin Reach(D, Kids(values), v))
  BY <1>2, <1>3
<1> HIDE DEF D
<1> QED
  BY <1>4, <1>5, <1>6 DEF Graftable, D

(* One container changes, the old value u is released with all below it, and *)
(* the client gives up v.                                                     *)
LEMMA Kept ==
  ASSUME IInv, NEW c \in DOMAIN values,
         NEW u, u = NULL \/ u \in KidsOf(values[c]), NEW v, v = NULL \/ v \in Storable(c),
         NEW n \in Nat, n = 0 \/ (n = 1 /\ FreeCells > 0), NEW x, Fits(x, values[c], n, hash),
         KidsOf(x) = (KidsOf(values[c]) \ {u}) \cup ({v} \ {NULL}),
         NEW G, G = Subtree(u),
         NEW W, NEW J, NEW B, B = [s \in System |-> B[s]],
         Change(values, heap, cells, c, G, n, x, W, J, B),
         NEW M, M \subseteq misfreed \cup Misfreed(G)
  PROVE  /\ Sound(W, J, B, owned \ {v}, hash) /\ B \in [System -> 0 .. MaxCells]
         /\ M \subseteq {"Array"}
<1>1. Sound(values, heap, cells, owned, hash) /\ cells \in [System -> 0 .. MaxCells]
  BY DEF IInv
<1>2. Graftable(DOMAIN values, Kids(values), owned, c, v)
  BY StorableIs
<1>3. G = GoneOf(values, u)
  <2>1. u = NULL \/ u \in DOMAIN values
    <3>1. KidsOf(values[c]) \subseteq DOMAIN values
      BY <1>1, SoundFacts DEF ClosedUnder
    <3> QED
      BY <3>1
  <2> QED
    BY <1>1, <2>1, GoneIs
<1>4. Sound(W, J, B, owned \ {v}, hash) /\ (\A s \in System : B[s] \in Nat) /\ G \subseteq DOMAIN values
  <2>1. SoundLeft(values, G, W, J, B, owned \ {v}, hash)
    BY <1>1, <1>2, <1>3, Swapped
  <2> QED
    BY <2>1 DEF SoundLeft
<1>5. ASSUME NEW s \in System PROVE B[s] <= MaxCells
  <2> DEFINE a == Total(Counts(values), PartOf(values, G, s))
             p == cells["libc"]
             q == cells["pool"]
             e == IF s = x.lpSystem THEN n ELSE 0
  <2>1. a \in Nat
    <3>1. SplitCount(values, cells, G, s)
      BY <1>1, <1>4, CountedWithout
    <3> QED
      BY <3>1 DEF SplitCount
  <2>2. /\ MaxCells \in Nat /\ p \in 0 .. MaxCells /\ q \in 0 .. MaxCells
        /\ cells[s] \in 0 .. MaxCells
    BY <1>1, ValuesAssumption DEF System
  <2>3. FreeCells = MaxCells - (p + q)
    BY <1>1, FreeCellsIs
  <2>4. cells[s] = p \/ cells[s] = q
    BY DEF System
  <2>5. B[s] = (cells[s] + e) - a
    BY DEF Change
  <2>6. e = 0 \/ (e = 1 /\ FreeCells > 0)
    OBVIOUS
  <2> HIDE DEF a, p, q, e
  <2> QED
    BY <2>1, <2>2, <2>3, <2>4, <2>5, <2>6
<1>6. B \in [System -> 0 .. MaxCells]
  <2>1. \A s \in System : B[s] \in 0 .. MaxCells
    BY <1>4, <1>5
  <2> QED
    BY <2>1
<1>7. M \subseteq {"Array"}
  <2>1. Misfreed(G) \subseteq {"Array"}
    BY <1>1, <1>4, MisfreedIs
  <2> QED
    BY <2>1 DEF IInv
<1> QED
  BY <1>4, <1>6, <1>7

(* The first entry of k in a chain. *)
LEMMA FoundIs ==
  ASSUME NEW chain \in Seq(Entry), NEW k
  PROVE  /\ Found(chain, k) = 0 => \A j \in 1 .. Len(chain) : chain[j].key # k
         /\ Found(chain, k) # 0 => Found(chain, k) \in 1 .. Len(chain) /\ chain[Found(chain, k)].key = k
<1>1. DOMAIN chain = 1 .. Len(chain) /\ Len(chain) \in Nat
  BY LenProperties
<1> DEFINE T == {i \in DOMAIN chain : chain[i].key = k}
<1>2. CASE T = {}
  <2>1. Found(chain, k) = 0
    BY <1>2 DEF Found
  <2> QED
    BY <1>1, <1>2, <2>1
<1>3. CASE T # {}
  <2>1. T \in SUBSET Nat
    BY <1>1
  <2>2. PICK i \in T : \A j \in T : i <= j
    <3> HIDE DEF T
    <3> QED
      BY <1>3, <2>1, LeastElement
  <2>3. i \in DOMAIN chain /\ chain[i].key = k /\ \A j \in 1 .. i - 1 : chain[j].key # k
    <3>1. i \in 1 .. Len(chain) /\ i \in Nat
      BY <1>1
    <3>2. ASSUME NEW j \in 1 .. i - 1, chain[j].key = k PROVE FALSE
      <4>1. j \in T
        BY <1>1, <3>1, <3>2
      <4>2. i <= j
        BY <2>2, <4>1
      <4> QED
        BY <3>1, <4>2
    <3> QED
      BY <3>2
  <2> DEFINE P(l) == chain[l].key = k /\ \A j \in 1 .. l - 1 : chain[j].key # k
             m == CHOOSE l \in DOMAIN chain : P(l)
  <2>4. m \in DOMAIN chain /\ P(m)
    BY <2>3
  <2>5. Found(chain, k) = m
    BY <1>3 DEF Found
  <2> HIDE DEF m
  <2>6. Found(chain, k) \in 1 .. Len(chain) /\ chain[Found(chain, k)].key = k
    BY <1>1, <2>4, <2>5
  <2>7. Found(chain, k) # 0
    BY <1>1, <2>6
  <2> QED
    BY <2>6, <2>7
<1> QED
  BY <1>2, <1>3

(* The bucket of a key, and its chain. *)
LEMMA BucketIs ==
  ASSUME IInv, NEW o \in Objects, NEW k \in Key
  PROVE  /\ o \in DOMAIN values /\ values[o] \in ObjectCell /\ values[o].type = "Object"
         /\ hash[k] \in 0 .. BucketCount - 1 /\ Bucket(o, k) = values[o].buckets[hash[k]]
         /\ Bucket(o, k) \in Seq(Entry) /\ CellOK(values[o]) /\ Single(HoldsOf(values[o]))
         /\ Keyed(values[o], hash)
<1>1. o \in DOMAIN values /\ values[o].type = "Object"
  BY DEF Objects, Containers
<1>2. CellOK(values[o]) /\ Single(HoldsOf(values[o])) /\ Keyed(values[o], hash)
  BY <1>1 DEF IInv, Sound, CellSound
<1>3. values[o] \in ObjectCell
  BY <1>1, <1>2 DEF CellOK
<1>4. hash[k] \in 0 .. BucketCount - 1
  BY DEF IInv
<1> QED
  BY <1>1, <1>2, <1>3, <1>4 DEF Bucket, ObjectCell

(* A step that changes nothing. *)
LEMMA StutterKeeps == IInv /\ UNCHANGED vars => IInv'
BY DEF IInv, vars

(* What one change of a container leaves. *)
Exchanged(c, u, v, n, x, G) ==
  /\ Change(values, heap, cells, c, G, n, x, values', heap', cells')
  /\ cells' = [s \in System |-> cells'[s]]
  /\ owned' = owned \ {v} /\ hash' = hash /\ ended' = ended
  /\ misfreed' \subseteq misfreed \cup Misfreed(G)
Exchangeable(c, u, v, n, x, G) ==
  /\ (u = NULL \/ u \in KidsOf(values[c])) /\ (v = NULL \/ v \in Storable(c))
  /\ (n = 0 \/ (n = 1 /\ FreeCells > 0)) /\ Fits(x, values[c], n, hash)
  /\ KidsOf(x) = (KidsOf(values[c]) \ {u}) \cup ({v} \ {NULL})
  /\ G = Subtree(u)

Exchanges(c, u, v, n, x, G) ==
  c \in DOMAIN values /\ n \in Nat /\ Exchangeable(c, u, v, n, x, G) /\ Exchanged(c, u, v, n, x, G)

(* The four ways of changing a container keep the invariant. *)
LEMMA ExchangeKeeps ==
  ASSUME IInv, NEW c, NEW u, NEW v, NEW n, NEW x, NEW G, Exchanges(c, u, v, n, x, G)
  PROVE  IInv'
<1>0. c \in DOMAIN values /\ n \in Nat /\ Exchangeable(c, u, v, n, x, G) /\ Exchanged(c, u, v, n, x, G)
  BY DEF Exchanges
<1> DEFINE W == values'
           J == heap'
           B == cells'
           M == misfreed'
<1>1. /\ Change(values, heap, cells, c, G, n, x, W, J, B) /\ B = [s \in System |-> B[s]]
      /\ M \subseteq misfreed \cup Misfreed(G)
  BY <1>0 DEF Exchanged
<1>2. /\ (u = NULL \/ u \in KidsOf(values[c])) /\ (v = NULL \/ v \in Storable(c))
      /\ (n = 0 \/ (n = 1 /\ FreeCells > 0)) /\ Fits(x, values[c], n, hash)
      /\ KidsOf(x) = (KidsOf(values[c]) \ {u}) \cup ({v} \ {NULL})
      /\ G = Subtree(u)
  BY <1>0 DEF Exchangeable
<1>3. owned' = owned \ {v} /\ hash' = hash /\ ended' = ended
  BY <1>0 DEF Exchanged
<1> HIDE DEF W, J, B, M
<1>4. /\ Sound(W, J, B, owned \ {v}, hash) /\ B \in [System -> 0 .. MaxCells]
      /\ M \subseteq {"Array"}
  BY <1>0, <1>1, <1>2, Kept
<1>5. Sound(values', heap', cells', owned', hash')
  BY <1>3, <1>4 DEF W, J, B
<1> QED
  BY <1>3, <1>4, <1>5 DEF IInv, B, M

(* A change that releases nothing. *)
LEMMA ChangeInPlace ==
  ASSUME IInv, NEW c \in DOMAIN values, NEW n \in Nat, NEW x,
         values' = [values EXCEPT ![c] = x], heap' = heap,
         (n = 0 /\ cells' = cells) \/ cells' = Plus(x.lpSystem, n), x.lpSystem \in System
  PROVE  /\ Change(values, heap, cells, c, {}, n, x, values', heap', cells')
         /\ cells' = [s \in System |-> cells'[s]]
<1>1. cells \in [System -> 0 .. MaxCells] /\ Sound(values, heap, cells, owned, hash)
  BY DEF IInv
<1>2. DOMAIN heap = DOMAIN values
  BY <1>1 DEF Sound
<1>3. \A s \in System : cells[s] \in Nat
  BY <1>1, ValuesAssumption
<1>4. \A s \in System : cells'[s] = cells[s] + (IF s = x.lpSystem THEN n ELSE 0)
  <2>1. CASE n = 0 /\ cells' = cells
    BY <1>3, <2>1
  <2>2. CASE cells' = Plus(x.lpSystem, n)
    BY <1>1, <2>2, CellsMore
  <2> QED
    BY <2>1, <2>2
<1>5. cells' = [s \in System |-> cells'[s]]
  <2>1. CASE n = 0 /\ cells' = cells
    BY <1>1, <2>1
  <2>2. CASE cells' = Plus(x.lpSystem, n)
    BY <1>1, <2>2, CellsMore
  <2> QED
    BY <2>1, <2>2
<1>6. ASSUME NEW s \in System
      PROVE  cells'[s] = (cells[s] + (IF s = x.lpSystem THEN n ELSE 0)) - Total(Counts(values), PartOf(values, {}, s))
  <2> DEFINE a == Total(Counts(values), PartOf(values, {}, s))
             e == IF s = x.lpSystem THEN n ELSE 0
  <2>1. a = 0
    <3>1. PartOf(values, {}, s) = {} /\ IsFiniteSet({})
      BY FS_EmptySet DEF PartOf
    <3>2. \A y \in {} : Counts(values)[y] \in Nat
      OBVIOUS
    <3> QED
      BY <3>1, <3>2, TotalStep
  <2>2. e \in Nat /\ cells'[s] = cells[s] + e /\ cells[s] \in Nat
    BY <1>3, <1>4
  <2> HIDE DEF a, e
  <2>3. cells'[s] = (cells[s] + e) - a
    BY <2>1, <2>2
  <2> QED
    BY <2>3 DEF a, e
<1>7. /\ DOMAIN values' = DOMAIN values \ {} /\ values'[c] = x
      /\ \A d \in DOMAIN values' \ {c} : values'[d] = values[d]
  OBVIOUS
<1>8. DOMAIN heap' = DOMAIN values' /\ \A d \in DOMAIN values' : heap'[d] = heap[d]
  BY <1>2
<1> QED
  BY <1>5, <1>6, <1>7, <1>8 DEF Change

(* A change that releases G. *)
LEMMA ChangeAndRelease ==
  ASSUME IInv, NEW c \in DOMAIN values, NEW x, NEW G, G \subseteq DOMAIN values, c \notin G,
         values' = Without([values EXCEPT ![c] = x], G), heap' = Without(heap, G),
         cells' = CellsWithout(G)
  PROVE  /\ Change(values, heap, cells, c, G, 0, x, values', heap', cells')
         /\ cells' = [s \in System |-> cells'[s]]
<1>1. cells \in [System -> 0 .. MaxCells] /\ Sound(values, heap, cells, owned, hash)
  BY DEF IInv
<1>2. DOMAIN heap = DOMAIN values
  BY <1>1 DEF Sound
<1>3. \A s \in System : cells[s] \in Nat
  BY <1>1, ValuesAssumption
<1>4. /\ DOMAIN CellsWithout(G) = System
      /\ \A s \in System : CellsWithout(G)[s] = cells[s] - Total(Counts(values), PartOf(values, G, s))
      /\ CellsWithout(G) = [s \in System |-> CellsWithout(G)[s]]
  BY <1>1, CellsLeft
<1>6. ASSUME NEW s \in System
      PROVE  cells'[s] = (cells[s] + (IF s = x.lpSystem THEN 0 ELSE 0)) - Total(Counts(values), PartOf(values, G, s))
  <2>1. cells'[s] = cells[s] - Total(Counts(values), PartOf(values, G, s))
    BY <1>4
  <2>2. cells[s] + (IF s = x.lpSystem THEN 0 ELSE 0) = cells[s]
    BY <1>3
  <2> QED
    BY <2>1, <2>2
<1>7. /\ DOMAIN values' = DOMAIN values \ G /\ values'[c] = x
      /\ \A d \in DOMAIN values' \ {c} : values'[d] = values[d]
  BY DEF Without
<1>8. DOMAIN heap' = DOMAIN values' /\ \A d \in DOMAIN values' : heap'[d] = heap[d]
  BY <1>2, <1>7 DEF Without
<1>9. cells' = [s \in System |-> cells'[s]]
  BY <1>4
<1> QED
  BY <1>6, <1>7, <1>8, <1>9 DEF Change

(* What is released is below c, and leaves c. *)
LEMMA GoneBelow ==
  ASSUME IInv, NEW c \in DOMAIN values, NEW u, u = NULL \/ u \in KidsOf(values[c])
  PROVE  Subtree(u) \subseteq DOMAIN values /\ c \notin Subtree(u)
<1> DEFINE D == DOMAIN values
           k == Kids(values)
<1>1. Sound(values, heap, cells, owned, hash)
  BY DEF IInv
<1>2. Forest(D, k, owned) /\ k[c] = KidsOf(values[c])
  BY <1>1 DEF Sound, Kids
<1>3. CASE u = NULL
  BY <1>3, SubtreeOfNothing
<1>4. CASE u # NULL
  <2>1. u \in k[c]
    BY <1>2, <1>4
  <2>2. u \in D /\ c \notin Reach(D, k, u)
    <3> HIDE DEF D, k
    <3>1. c \in D
      BY DEF D
    <3> QED
      BY <1>2, <2>1, <3>1, ReachUp
  <2>3. Subtree(u) = Reach(D, k, u)
    BY <1>1, <2>2, SubtreeIs, SoundFacts
  <2> QED
    BY <2>2, <2>3 DEF Reach
<1> QED
  BY <1>3, <1>4

-----------------------------------------------------------------------------
(* The calls on objects, and those that create and release. *)

(* What the client may store is a block. *)
LEMMA StorableBlock ==
  ASSUME IInv, NEW c \in DOMAIN values, NEW v \in Storable(c)
  PROVE  v \in Block /\ v \notin KidsOf(values[c]) /\ v # NULL
<1>1. v \in owned
  BY DEF Storable
<1>2. owned \subseteq DOMAIN values /\ DOMAIN values \subseteq Block /\ NULL \notin DOMAIN values
  BY SoundFacts DEF IInv
<1>3. v \notin KidsOf(values[c])
  BY StorableIs
<1> QED
  BY <1>1, <1>2, <1>3

(* cjsonObject_Set with a new key. *)
LEMMA MemberAdded ==
  ASSUME IInv, NEW o \in Objects, NEW k \in Key, NEW v \in Storable(o),
         FreeCells > 0, Found(Bucket(o, k), k) = 0,
         values' = SetBucket(o, k, Append(Bucket(o, k), [key |-> k, lpValue |-> v])),
         cells' = Plus(values[o].lpSystem, 1),
         owned' = owned \ {v}, Ok, UNCHANGED <<heap, misfreed>>,
         NEW x, x = WithBucket(values[o], hash[k], Append(Bucket(o, k), [key |-> k, lpValue |-> v]))
  PROVE  Exchanges(o, NULL, v, 1, x, {})
<1> DEFINE w == values[o]
           h == hash[k]
<1>1. /\ o \in DOMAIN values /\ w \in ObjectCell /\ w.type = "Object"
      /\ h \in 0 .. BucketCount - 1 /\ Bucket(o, k) = w.buckets[h]
      /\ Bucket(o, k) \in Seq(Entry) /\ CellOK(w) /\ Single(HoldsOf(w)) /\ Keyed(w, hash)
  BY BucketIs
<1>2. v \in Block /\ v \notin KidsOf(w) /\ v # NULL
  BY <1>1, StorableBlock
<1>3. \A j \in 1 .. Len(w.buckets[h]) : w.buckets[h][j].key # k
  BY <1>1, FoundIs
<1>4. values' = [values EXCEPT ![o] = x]
  BY <1>1 DEF SetBucket, WithBucket
<1>5. x = WithBucket(w, h, Append(w.buckets[h], [key |-> k, lpValue |-> v]))
  BY <1>1
<1> HIDE DEF w, h
<1>6. hash[k] = h
  BY DEF h
<1>7. /\ CellOK(x) /\ x.type = "Object" /\ x.lpSystem = w.lpSystem
      /\ CountOf(x) = CountOf(w) + 1 /\ KidsOf(x) = KidsOf(w) \cup {v}
      /\ Single(HoldsOf(x)) /\ Keyed(x, hash)
  BY <1>1, <1>2, <1>3, <1>5, <1>6, EntryAdded
<1>8. Fits(x, w, 1, hash)
  BY <1>1, <1>7 DEF Fits
<1>9. NULL \notin KidsOf(w)
  BY <1>1, KidsHeld, ValuesAssumption
<1>10. Subtree(NULL) = {}
  BY SubtreeOfNothing
<1>11. Exchangeable(o, NULL, v, 1, x, {})
  BY <1>2, <1>7, <1>8, <1>9, <1>10 DEF Exchangeable, w
<1>12. x.lpSystem \in System
  BY <1>7, CountNat
<1>13. cells' = Plus(x.lpSystem, 1)
  BY <1>7 DEF w
<1>14. /\ Change(values, heap, cells, o, {}, 1, x, values', heap', cells')
       /\ cells' = [s \in System |-> cells'[s]]
  BY <1>1, <1>4, <1>12, <1>13, ChangeInPlace
<1>15. Exchanged(o, NULL, v, 1, x, {})
  BY <1>14 DEF Exchanged, Ok
<1> QED
  BY <1>1, <1>11, <1>15 DEF Exchanges

(* cjsonObject_Set with a key the object has. *)
LEMMA MemberReplaced ==
  ASSUME IInv, NEW o \in Objects, NEW k \in Key, NEW v \in Storable(o),
         NEW i, i = Found(Bucket(o, k), k), i # 0,
         NEW G, G = Subtree(Bucket(o, k)[i].lpValue),
         values' = Without(SetBucket(o, k, [Bucket(o, k) EXCEPT ![i].lpValue = v]), G),
         heap' = Replaced(G), cells' = CellsWithout(G), misfreed' = misfreed \cup Misfreed(G),
         owned' = owned \ {v}, Ok,
         NEW u, u = Bucket(o, k)[i].lpValue,
         NEW x, x = WithBucket(values[o], hash[k], [Bucket(o, k) EXCEPT ![i].lpValue = v])
  PROVE  Exchanges(o, u, v, 0, x, G)
<1> DEFINE w == values[o]
           h == hash[k]
<1>1. /\ o \in DOMAIN values /\ w \in ObjectCell /\ w.type = "Object"
      /\ h \in 0 .. BucketCount - 1 /\ Bucket(o, k) = w.buckets[h]
      /\ Bucket(o, k) \in Seq(Entry) /\ CellOK(w) /\ Single(HoldsOf(w)) /\ Keyed(w, hash)
  BY BucketIs
<1>2. v \in Block /\ v \notin KidsOf(w) /\ v # NULL
  BY <1>1, StorableBlock
<1>3. i \in 1 .. Len(w.buckets[h])
  BY <1>1, FoundIs
<1>4. values' = Without([values EXCEPT ![o] = x], G)
  <2>1. SetBucket(o, k, [Bucket(o, k) EXCEPT ![i].lpValue = v]) = [values EXCEPT ![o] = x]
    BY <1>1 DEF SetBucket, WithBucket
  <2> QED
    BY <2>1
<1>5. x = WithBucket(w, h, [w.buckets[h] EXCEPT ![i].lpValue = v])
  BY <1>1
<1>6. u \in KidsOf(w) /\ u \in Block
  BY <1>1, <1>3, EntryFacts
<1>7. G = Subtree(u)
  BY <1>1
<1>8. NULL \notin KidsOf(w) /\ u # NULL
  BY <1>1, <1>6, KidsHeld, ValuesAssumption
<1>16. u = w.buckets[h][i].lpValue
  BY <1>1
<1> HIDE DEF w, h
<1>17. /\ w \in ObjectCell /\ w.type = "Object" /\ h \in 0 .. BucketCount - 1
       /\ Single(HoldsOf(w)) /\ Keyed(w, hash)
  BY <1>1
<1>9. /\ CellOK(x) /\ x.type = "Object" /\ x.lpSystem = w.lpSystem
      /\ CountOf(x) = CountOf(w) /\ KidsOf(x) = (KidsOf(w) \ {u}) \cup {v}
      /\ Single(HoldsOf(x)) /\ Keyed(x, hash)
  <2>1. Refilled(x, w, u, v, hash)
    BY <1>2, <1>3, <1>5, <1>16, <1>17, EntryReplaced
  <2> QED
    BY <2>1 DEF Refilled
<1>10. CountOf(w) \in Nat
  BY <1>1, CountNat
<1>11. Fits(x, w, 0, hash)
  BY <1>1, <1>9, <1>10 DEF Fits
<1>12. Exchangeable(o, u, v, 0, x, G)
  BY <1>2, <1>6, <1>7, <1>9, <1>11 DEF Exchangeable, w
<1>13. G \subseteq DOMAIN values /\ o \notin G
  BY <1>1, <1>6, <1>7, GoneBelow DEF w
<1>14. /\ Change(values, heap, cells, o, G, 0, x, values', heap', cells')
       /\ cells' = [s \in System |-> cells'[s]]
  BY <1>1, <1>4, <1>13, ChangeAndRelease DEF Replaced
<1>15. Exchanged(o, u, v, 0, x, G)
  BY <1>14 DEF Exchanged, Ok
<1> QED
  BY <1>1, <1>12, <1>15 DEF Exchanges

(* cjsonObject_Set. *)
LEMMA ObjectSetKeeps ==
  ASSUME IInv, NEW o \in Objects, NEW k \in Key, NEW v \in Storable(o), cjsonObject_Set(o, k, v)
  PROVE  IInv'
<1> DEFINE chain == Bucket(o, k)
           i == Found(chain, k)
           G == Subtree(chain[i].lpValue)
<1>1. CASE /\ FreeCells > 0 /\ i = 0
           /\ values' = SetBucket(o, k, Append(chain, [key |-> k, lpValue |-> v]))
           /\ cells' = Plus(values[o].lpSystem, 1)
           /\ owned' = owned \ {v} /\ Ok /\ UNCHANGED <<heap, misfreed>>
  <2> DEFINE x == WithBucket(values[o], hash[k], Append(chain, [key |-> k, lpValue |-> v]))
  <2>1. Exchanges(o, NULL, v, 1, x, {})
    BY <1>1, MemberAdded
  <2> HIDE DEF x
  <2> QED
    BY <2>1, ExchangeKeeps
<1>2. CASE /\ FreeCells > 0 /\ i # 0
           /\ values' = Without(SetBucket(o, k, [chain EXCEPT ![i].lpValue = v]), G)
           /\ heap' = Replaced(G) /\ cells' = CellsWithout(G)
           /\ misfreed' = misfreed \cup Misfreed(G)
           /\ owned' = owned \ {v} /\ Ok
  <2> DEFINE u == chain[i].lpValue
             x == WithBucket(values[o], hash[k], [chain EXCEPT ![i].lpValue = v])
  <2>1. Exchanges(o, u, v, 0, x, G)
    BY <1>2, MemberReplaced
  <2> HIDE DEF x, u, G
  <2> QED
    BY <2>1, ExchangeKeeps
<1>3. CASE Refuse("OutOfMemory")
  BY <1>3, StutterKeeps DEF Refuse
<1> QED
  BY <1>1, <1>2, <1>3 DEF cjsonObject_Set

(* An empty store, at the start and when the process has ended. *)
LEMMA NothingSound ==
  ASSUME NEW hs
  PROVE  Sound(<<>>, <<>>, NoCells, {}, hs)
<1>1. DOMAIN <<>> = {}
  BY EmptySeq
<1> DEFINE e == <<>>
<1>2. DOMAIN e = {}
  BY <1>1
<1> HIDE DEF e
<1>3. DOMAIN Kids(e) = {} /\ Beneath({}, Kids(e)) = {}
  BY <1>2 DEF Kids, Beneath
<1>4. Forest(DOMAIN e, Kids(e), {})
  <2>1. ASSUME NEW T \in SUBSET {}, T # {} PROVE FALSE
    BY <2>1
  <2> QED
    BY <1>2, <1>3, <2>1 DEF Forest
<1>5. Counted(e, NoCells)
  <2> SUFFICES ASSUME NEW s \in System PROVE NoCells[s] = Total(Counts(e), OfSystem(e, s))
    BY DEF Counted
  <2>1. OfSystem(e, s) = {} /\ IsFiniteSet({})
    BY <1>2, FS_EmptySet DEF OfSystem
  <2>2. \A y \in {} : Counts(e)[y] \in Nat
    OBVIOUS
  <2>3. Total(Counts(e), {}) = 0
    BY <2>1, <2>2, TotalStep
  <2> QED
    BY <2>1, <2>3 DEF NoCells
<1>6. Sound(e, e, NoCells, {}, hs)
  BY <1>2, <1>4, <1>5 DEF Sound
<1> QED
  BY <1>6 DEF e

(* cjsonObject_Set without an object. *)
LEMMA SetNullKeeps ==
  ASSUME IInv, NEW o \in Objects, NEW k \in Key, cjsonObject_SetNull(o, k)
  PROVE  IInv'
<1>1. CASE UNCHANGED vars
  BY <1>1, StutterKeeps
<1>2. CASE /\ heap' = <<>> /\ values' = <<>> /\ cells' = NoCells
           /\ owned' = {} /\ misfreed' = {}
           /\ ended' = TRUE /\ UNCHANGED hash
  <2>1. Sound(values', heap', cells', owned', hash')
    BY <1>2, NothingSound
  <2>2. cells' \in [System -> 0 .. MaxCells]
    BY <1>2, ValuesAssumption DEF NoCells
  <2> QED
    BY <1>2, <2>1, <2>2 DEF IInv
<1> QED
  BY <1>1, <1>2 DEF cjsonObject_SetNull

(* The invariant holds at the start. *)
LEMMA InitKeeps == Init => IInv
<1> SUFFICES ASSUME Init PROVE IInv
  OBVIOUS
<1>1. Sound(values, heap, cells, owned, hash)
  BY NothingSound DEF Init
<1>2. cells \in [System -> 0 .. MaxCells]
  BY ValuesAssumption DEF Init, NoCells
<1> QED
  BY <1>1, <1>2 DEF Init, IInv

(* A new value. *)
LEMMA CreateKeeps ==
  ASSUME IInv, NEW x, NEW t \in System, CellSound(x, t, hash), KidsOf(x) = {}, CountOf(x) = 0,
         Create(x, t)
  PROVE  IInv'
<1>1. CASE Refuse("OutOfMemory")
  BY <1>1, StutterKeeps DEF Refuse
<1>2. ASSUME NEW b \in Free, heap' = With(heap, b, t), values' = With(values, b, x),
             owned' = owned \cup {b}, Ok, UNCHANGED <<cells, misfreed>>
      PROVE  IInv'
  <2> DEFINE W == values'
             J == heap'
  <2>1. Sound(values, heap, cells, owned, hash)
    BY DEF IInv
  <2>2. DOMAIN heap = DOMAIN values /\ b \in Block /\ b \notin DOMAIN values
    BY <2>1 DEF Sound, Free
  <2>3. DOMAIN W = DOMAIN values \cup {b} /\ W[b] = x /\ \A d \in DOMAIN values : W[d] = values[d]
    BY <1>2, <2>2 DEF With
  <2>4. DOMAIN J = DOMAIN W /\ J[b] = t /\ \A d \in DOMAIN values : J[d] = heap[d]
    BY <1>2, <2>2, <2>3 DEF With
  <2> HIDE DEF W, J
  <2>5. Sound(W, J, cells, owned \cup {b}, hash)
    BY <2>1, <2>2, <2>3, <2>4, Added
  <2>6. Sound(values', heap', cells', owned', hash')
    BY <1>2, <2>5 DEF W, J, Ok
  <2> QED
    BY <1>2, <2>6 DEF IInv, Ok
<1> QED
  BY <1>1, <1>2 DEF Create

(* What the Create functions return is a sound cell. *)
LEMMA NewValueIs ==
  ASSUME NEW t \in Scalar \cup {"Object", "Array"}, NEW s \in System, NEW hs
  PROVE  CellSound(NewValue(t, s), s, hs) /\ KidsOf(NewValue(t, s)) = {} /\ CountOf(NewValue(t, s)) = 0
<1>1. CASE t = "Object"
  <2>1. NewValue(t, s) = NewObject(s)
    BY <1>1 DEF NewValue
  <2> QED
    BY <2>1, NewObjectIs DEF CellSound
<1>2. CASE t = "Array"
  <2>1. NewValue(t, s) = NewArray
    BY <1>2 DEF NewValue
  <2> QED
    BY <2>1, NewArrayIs DEF CellSound
<1>3. CASE t \in Scalar
  <2>1. NewValue(t, s) = NewScalar(t, s) /\ t \notin {"Object", "Array"}
    BY <1>3 DEF NewValue, Scalar, Constant, Numeric
  <2>2. CellOK(NewScalar(t, s)) /\ NewScalar(t, s).type = t /\ NewScalar(t, s).lpSystem = s
    BY <1>3, NewScalarIs
  <2> DEFINE x == NewScalar(t, s)
  <2> HIDE DEF x
  <2>3. CellOK(x) /\ x.type \notin {"Object", "Array"} /\ x.lpSystem = s
    BY <2>1, <2>2 DEF x
  <2>4. KidsOf(x) = {} /\ CountOf(x) = 0 /\ Single(HoldsOf(x)) /\ Keyed(x, hs)
    BY <2>3, ScalarIs
  <2> QED
    BY <2>1, <2>3, <2>4 DEF CellSound, x
<1> QED
  BY <1>1, <1>2, <1>3

(* The Create functions. *)
LEMMA BuildKeeps == IInv /\ Build => IInv'
<1> SUFFICES ASSUME IInv, Build PROVE IInv'
  OBVIOUS
<1>1. PICK c \in Created : Create(NewValue(c[1], c[2]), c[2])
  BY DEF Build
<1>2. c[1] \in Scalar \cup {"Object", "Array"} /\ c[2] \in System
  BY ValuesAssumption
<1> QED
  BY <1>1, <1>2, NewValueIs, CreateKeeps

(* cjsonReleaseValue. *)
LEMMA ReleaseKeeps == IInv /\ Release => IInv'
<1> SUFFICES ASSUME IInv, NEW v \in owned, cjsonReleaseValue(v) PROVE IInv'
  BY DEF Release
<1> DEFINE G == Subtree(v)
           W == values'
           J == heap'
           B == cells'
<1>1. Sound(values, heap, cells, owned, hash) /\ cells \in [System -> 0 .. MaxCells]
  BY DEF IInv
<1>2. G = Reach(DOMAIN values, Kids(values), v) /\ G \subseteq DOMAIN values
  <2>1. /\ DOMAIN values \subseteq Block /\ ClosedUnder(Kids(values), DOMAIN values)
        /\ v \in DOMAIN values
    BY <1>1, SoundFacts
  <2>2. G = Reach(DOMAIN values, Kids(values), v)
    BY <2>1, SubtreeIs
  <2> QED
    BY <2>2 DEF Reach
<1> HIDE DEF G
<1>3. /\ values' = Without(values, G) /\ heap' = Without(heap, G) /\ cells' = CellsWithout(G)
      /\ owned' = owned \ {v} /\ misfreed' = misfreed \cup Misfreed(G) /\ hash' = hash /\ ended' = ended
  BY DEF cjsonReleaseValue, Ok, G
<1>4. DOMAIN heap = DOMAIN values
  BY <1>1 DEF Sound
<1>5. DOMAIN W = DOMAIN values \ G /\ \A d \in DOMAIN W : W[d] = values[d]
  BY <1>3 DEF Without
<1>6. DOMAIN J = DOMAIN W /\ \A d \in DOMAIN W : J[d] = heap[d]
  BY <1>3, <1>4 DEF Without
<1>7. /\ \A s \in System : B[s] = cells[s] - Total(Counts(values), PartOf(values, G, s))
      /\ B = [s \in System |-> B[s]]
  BY <1>1, <1>2, <1>3, CellsLeft
<1> HIDE DEF W, J, B
<1>14. Removal(values, heap, cells, G, W, J, B)
  BY <1>5, <1>6, <1>7 DEF Removal
<1>15. SoundLeft(values, G, W, J, B, owned \ {v}, hash)
  BY <1>1, <1>2, <1>14, Dropped
<1>8. Sound(W, J, B, owned \ {v}, hash)
  BY <1>15 DEF SoundLeft
<1>9. \A s \in System : B[s] \in Nat
  BY <1>15 DEF SoundLeft
<1>10. ASSUME NEW s \in System PROVE B[s] \in 0 .. MaxCells
  <2> DEFINE a == Total(Counts(values), PartOf(values, G, s))
  <2>1. a \in Nat
    <3>1. SplitCount(values, cells, G, s)
      BY <1>1, <1>2, CountedWithout
    <3> QED
      BY <3>1 DEF SplitCount
  <2>2. B[s] = cells[s] - a /\ cells[s] \in 0 .. MaxCells /\ MaxCells \in Nat /\ B[s] \in Nat
    BY <1>1, <1>7, <1>9, ValuesAssumption
  <2> HIDE DEF a
  <2> QED
    BY <2>1, <2>2
<1>11. B \in [System -> 0 .. MaxCells]
  BY <1>7, <1>10
<1>12. Misfreed(G) \subseteq {"Array"}
  BY <1>1, <1>2, MisfreedIs
<1>13. Sound(values', heap', cells', owned', hash')
  BY <1>3, <1>8 DEF W, J, B
<1> QED
  BY <1>3, <1>11, <1>12, <1>13 DEF IInv, B

-----------------------------------------------------------------------------
(* The calls on arrays and scalars. *)

(* The walk of Get and Set ends at the page where the index lies. *)
WalksTo(a, idx, off) ==
  LET at == Walk(a, idx)
      j  == idx - at.base + 1
  IN /\ at.page \in 1 .. Len(values[a].pages) /\ j \in 1 .. Len(values[a].pages[at.page])
     /\ At(idx + 1, off, at.page, j)

(* cjsonArray_Get and cjsonArray_Set find element idx at the end of that *)
(* walk.                                                                 *)
LEMMA WalkIs ==
  ASSUME NEW a, values[a].pages \in Seq(Seq(Slot)), NEW off, Offsets(off, values[a].pages),
         NEW idx \in 0 .. Length(a) - 1
  PROVE  WalksTo(a, idx, off)
<1> DEFINE ss   == values[a].pages
           n    == Len(ss)
           E(g) == g = [p \in 1 .. n |-> IF p = 1 THEN 0 ELSE g[p - 1] + Used(a, p - 1)]
           f    == CHOOSE g : E(g)
           P(p) == idx < f[p] + Used(a, p) /\ \A q \in 1 .. p - 1 : idx >= f[q] + Used(a, q)
           page == CHOOSE p \in DOMAIN f : P(p)
<1>1. n \in Nat /\ \A p \in 1 .. n : Len(ss[p]) \in Nat /\ Used(a, p) = Len(ss[p])
  BY RowsAre DEF Used
<1>2. /\ off[0] = 0 /\ \A p \in 0 .. n : off[p] \in Nat
      /\ \A p \in 1 .. n : off[p] = off[p - 1] + Len(ss[p])
  BY RowsAre DEF Offsets, Ends
<1>3. Length(a) = off[n]
  BY FlattenLaid DEF Length, Slots, Laid
<1>4. E(f)
  <2> DEFINE g == [p \in 1 .. n |-> off[p - 1]]
  <2>1. ASSUME NEW p \in 1 .. n
        PROVE  g[p] = IF p = 1 THEN 0 ELSE g[p - 1] + Used(a, p - 1)
    <3>1. CASE p = 1
      BY <1>1, <1>2, <3>1
    <3>2. CASE p # 1
      <4>1. p - 1 \in 1 .. n /\ p \in 1 .. n
        BY <1>1, <3>2
      <4>2. off[p - 1] = off[p - 1 - 1] + Len(ss[p - 1])
        BY <1>2, <4>1
      <4> QED
        BY <1>1, <3>2, <4>1, <4>2
    <3> QED
      BY <3>1, <3>2
  <2>2. E(g)
    BY <2>1
  <2> HIDE DEF g, E
  <2> QED
    BY <2>2
<1>5. /\ DOMAIN f = 1 .. n
      /\ \A p \in 1 .. n : f[p] = IF p = 1 THEN 0 ELSE f[p - 1] + Used(a, p - 1)
  <2> HIDE DEF f
  <2> QED
    BY <1>4
<1>6. Walk(a, idx) = [page |-> page, base |-> f[page]]
  BY DEF Walk
<1> HIDE DEF f, ss, n
<1>7. \A p \in 1 .. n : f[p] = off[p - 1]
  <2> DEFINE T == {k \in Nat : k + 1 <= n => f[k + 1] = off[k]}
  <2>1. 0 \in T
    BY <1>1, <1>2, <1>5
  <2>2. ASSUME NEW k \in T PROVE k + 1 \in T
    <3>1. k \in Nat /\ k + 1 \in Nat
      OBVIOUS
    <3> SUFFICES ASSUME k + 1 + 1 <= n PROVE f[k + 1 + 1] = off[k + 1]
      BY <3>1
    <3>2. k + 1 \in 1 .. n /\ k + 1 + 1 \in 1 .. n /\ k + 1 + 1 # 1 /\ k + 1 + 1 - 1 = k + 1 /\ k + 1 - 1 = k
      BY <1>1, <3>1
    <3>3. f[k + 1 + 1] = f[k + 1] + Used(a, k + 1)
      BY <1>5, <3>2
    <3>4. f[k + 1] = off[k]
      BY <3>1, <3>2
    <3>5. off[k + 1] = off[k] + Len(ss[k + 1])
      BY <1>2, <3>2
    <3> QED
      BY <1>1, <3>2, <3>3, <3>4, <3>5
  <2> HIDE DEF T
  <2>3. T = Nat
    <3>1. T \subseteq Nat
      BY DEF T
    <3> QED
      BY <2>1, <2>2, <3>1, SetInduction
  <2> SUFFICES ASSUME NEW p \in 1 .. n PROVE f[p] = off[p - 1]
    OBVIOUS
  <2>4. p - 1 \in T /\ p - 1 + 1 = p /\ p <= n
    BY <1>1, <2>3
  <2> QED
    BY <2>4 DEF T
<1>8. ASSUME NEW p \in 1 .. n PROVE f[p] + Used(a, p) = off[p]
  BY <1>1, <1>2, <1>7
<1>9. idx \in Nat /\ idx + 1 \in 1 .. off[n]
  <2>1. off[n] \in Nat
    BY <1>1, <1>2
  <2> QED
    BY <1>3, <2>1
<1>10. \E p \in DOMAIN f : P(p)
  <2>0. ss \in Seq(Seq(Slot)) /\ Offsets(off, ss) /\ idx + 1 \in 1 .. off[Len(ss)]
    BY <1>9 DEF ss, n
  <2>1. PICK p \in 1 .. Len(ss) : \E j \in 1 .. Len(ss[p]) : idx + 1 = off[p - 1] + j
    <3> DEFINE k == idx + 1
    <3>1. k \in 1 .. off[Len(ss)]
      BY <2>0
    <3> HIDE DEF k
    <3>2. \E i \in 1 .. Len(ss) : \E j \in 1 .. Len(ss[i]) : k = off[i - 1] + j
      <4>1. Placed(off, Lens(ss), Len(ss), k)
        <5>1. Ends(off, Lens(ss), Len(ss)) /\ Len(ss) \in Nat
          BY <1>1, <2>0 DEF Offsets, n
        <5> QED
          BY <3>1, <5>1, PlacedAll
      <4>2. \A i \in 1 .. Len(ss) : Lens(ss)[i] = Len(ss[i])
        BY <2>0, RowsAre
      <4> QED
        BY <4>1, <4>2 DEF Placed
    <3> QED
      BY <3>2 DEF k
  <2>2. PICK j \in 1 .. Len(ss[p]) : idx + 1 = off[p - 1] + j
    BY <2>1
  <2>3. p \in 1 .. n
    BY <2>1 DEF n
  <2>4. off[p - 1] \in Nat /\ off[p] = off[p - 1] + Len(ss[p]) /\ Len(ss[p]) \in Nat
    BY <1>1, <1>2, <2>3
  <2>5. idx < off[p] /\ off[p - 1] <= idx
    <3> DEFINE x == off[p - 1]
               y == off[p]
               l == Len(ss[p])
    <3>1. x \in Nat /\ y = x + l /\ l \in Nat /\ j \in 1 .. l /\ idx + 1 = x + j
      BY <2>2, <2>4
    <3> HIDE DEF x, y, l
    <3>2. idx < y /\ x <= idx
      BY <1>9, <3>1
    <3> QED
      BY <3>2 DEF x, y
  <2>6. ASSUME NEW q \in 1 .. p - 1 PROVE idx >= f[q] + Used(a, q)
    <3>1. q \in 1 .. n /\ q \in 0 .. p - 1 /\ p - 1 \in 0 .. n
      BY <1>1, <2>3
    <3>2. off[q] <= off[p - 1]
      <4>1. Ends(off, Lens(ss), n) /\ n \in Nat
        BY <1>1, <2>0 DEF Offsets, n
      <4> QED
        BY <3>1, <4>1, EndsGrow
    <3>3. f[q] + Used(a, q) = off[q] /\ off[q] \in Nat
      BY <1>2, <1>8, <3>1
    <3> DEFINE x == off[p - 1]
               y == off[q]
    <3>4. x \in Nat /\ y \in Nat /\ y <= x /\ x <= idx
      BY <2>4, <2>5, <3>2, <3>3
    <3> HIDE DEF x, y
    <3>5. idx >= y
      BY <1>9, <3>4
    <3> QED
      BY <3>3, <3>5 DEF y
  <2>7. idx < f[p] + Used(a, p)
    BY <1>8, <2>3, <2>5
  <2> QED
    BY <1>5, <2>3, <2>6, <2>7
<1>11. page \in DOMAIN f /\ P(page)
  <2> HIDE DEF P
  <2> QED
    BY <1>10
<1> HIDE DEF page
<1>12. page \in 1 .. n /\ f[page] = off[page - 1] /\ off[page - 1] \in Nat /\ Len(ss[page]) \in Nat
  <2>1. page \in 1 .. n
    BY <1>5, <1>11
  <2>2. page - 1 \in 0 .. n
    BY <1>1, <2>1
  <2> QED
    BY <1>1, <1>2, <1>7, <2>1, <2>2
<1>13. idx < off[page - 1] + Len(ss[page])
  BY <1>1, <1>11, <1>12
<1>14. idx >= off[page - 1]
  <2>1. CASE page = 1
    BY <1>2, <1>9, <2>1
  <2>2. CASE page # 1
    <3>1. page - 1 \in 1 .. n /\ page - 1 \in 1 .. page - 1
      BY <1>1, <1>12, <2>2
    <3>2. idx >= f[page - 1] + Used(a, page - 1)
      BY <1>11, <3>1
    <3> QED
      BY <1>8, <3>1, <3>2
  <2> QED
    BY <2>1, <2>2
<1> DEFINE x == off[page - 1]
           l == Len(ss[page])
<1>15. x \in Nat /\ l \in Nat /\ idx < x + l /\ idx >= x
  BY <1>12, <1>13, <1>14
<1>16. Walk(a, idx).page = page /\ Walk(a, idx).base = x
  BY <1>6, <1>12
<1> HIDE DEF x, l
<1>17. idx - x + 1 \in 1 .. l /\ idx + 1 = x + (idx - x + 1)
  BY <1>9, <1>15
<1> QED
  BY <1>12, <1>16, <1>17 DEF WalksTo, At, x, l, ss, n

(* What is known of an array of the store. *)
LEMMA ArrayIs ==
  ASSUME IInv, NEW a \in Arrays
  PROVE  /\ a \in DOMAIN values /\ CellOK(values[a]) /\ values[a].type = "Array"
         /\ Single(HoldsOf(values[a])) /\ values[a].pages \in Seq(Seq(Slot))
         /\ NULL \notin KidsOf(values[a])
<1>1. a \in DOMAIN values /\ values[a].type = "Array"
  BY DEF Arrays, Containers
<1>2. CellOK(values[a]) /\ Single(HoldsOf(values[a]))
  BY <1>1 DEF IInv, Sound, CellSound
<1>3. values[a].pages \in Seq(Seq(Slot))
  BY <1>1, <1>2, ArrayFacts
<1>4. NULL \notin KidsOf(values[a])
  BY <1>2, KidsHeld, ValuesAssumption
<1> QED
  BY <1>1, <1>2, <1>3, <1>4

(* cjsonArray_Push where a page has room, or with a new page. *)
LEMMA LongerIs ==
  ASSUME IInv, NEW a \in Arrays, NEW v \in Storable(a), NEW n \in {0, 1}, n = 1 => FreeCells > 0,
         NEW x, Longer(x, values[a], v, n, hash), values' = [values EXCEPT ![a] = x],
         (n = 0 /\ cells' = cells) \/ (n = 1 /\ cells' = Plus(values[a].lpSystem, 1)),
         owned' = owned \ {v}, Ok, UNCHANGED <<heap, misfreed>>
  PROVE  Exchanges(a, NULL, v, n, x, {})
<1> DEFINE w == values[a]
<1>1. a \in DOMAIN values /\ CellOK(w) /\ w.type = "Array" /\ NULL \notin KidsOf(w)
  BY ArrayIs
<1>2. /\ CellOK(x) /\ x.type = "Array" /\ x.lpSystem = w.lpSystem
      /\ CountOf(x) = CountOf(w) + n /\ KidsOf(x) = KidsOf(w) \cup {v}
      /\ Single(HoldsOf(x)) /\ Keyed(x, hash)
  BY DEF Longer
<1>3. v # NULL
  BY <1>1, StorableBlock
<1> HIDE DEF w
<1>4. Fits(x, w, n, hash)
  BY <1>1, <1>2 DEF Fits
<1>5. n \in Nat /\ (n = 0 \/ (n = 1 /\ FreeCells > 0))
  OBVIOUS
<1>6. Subtree(NULL) = {}
  BY SubtreeOfNothing
<1>7. KidsOf(x) = (KidsOf(w) \ {NULL}) \cup ({v} \ {NULL})
  BY <1>1, <1>2, <1>3
<1>8. Exchangeable(a, NULL, v, n, x, {})
  BY <1>4, <1>5, <1>6, <1>7 DEF Exchangeable, w
<1>9. x.lpSystem \in System
  BY <1>2, CountNat
<1>10. (n = 0 /\ cells' = cells) \/ cells' = Plus(x.lpSystem, n)
  BY <1>2 DEF w
<1>11. heap' = heap
  OBVIOUS
<1>12. /\ Change(values, heap, cells, a, {}, n, x, values', heap', cells')
       /\ cells' = [s \in System |-> cells'[s]]
  BY <1>1, <1>5, <1>9, <1>10, <1>11, ChangeInPlace
<1>13. Exchanged(a, NULL, v, n, x, {})
  BY <1>12 DEF Exchanged, Ok
<1> QED
  BY <1>1, <1>5, <1>8, <1>13 DEF Exchanges

(* The last page. *)
LEMMA LastIs ==
  ASSUME NEW ss \in Seq(Seq(Slot)), ss # <<>>
  PROVE  Last(ss) = ss[Len(ss)] /\ Len(Last(ss)) \in Nat
<1>1. Len(ss) \in Nat /\ Len(ss) # 0
  BY EmptySeq, LenProperties
<1>2. Len(ss) \in 1 .. Len(ss)
  BY <1>1
<1>3. Last(ss) = ss[Len(ss)]
  BY DEF Last
<1> QED
  BY <1>2, <1>3, RowsAre

(* cjsonArray_Push with room in the last page. *)
LEMMA PushFills ==
  ASSUME IInv, NEW a \in Arrays, NEW v \in Storable(a), ~PageFull(a),
         values' = [values EXCEPT ![a].pages = [values[a].pages EXCEPT ![Len(values[a].pages)] = Append(@, v)]],
         owned' = owned \ {v}, Ok, UNCHANGED <<heap, misfreed, cells>>,
         NEW x, x = WithPages(values[a], LastPushed(values[a].pages, v))
  PROVE  Exchanges(a, NULL, v, 0, x, {}) /\ Longer(x, values[a], v, 0, hash)
<1> DEFINE w  == values[a]
           ss == w.pages
<1>1. /\ a \in DOMAIN values /\ CellOK(w) /\ w.type = "Array" /\ Single(HoldsOf(w))
      /\ ss \in Seq(Seq(Slot))
  BY ArrayIs
<1>2. v \in Block /\ v \notin KidsOf(w)
  BY <1>1, StorableBlock
<1>3. ss = w.pages
  OBVIOUS
<1>4. ss # <<>> /\ Len(Last(ss)) < PageSize
  <2>1. ss # <<>>
    BY ValuesAssumption DEF PageFull, LastUsed
  <2>2. LastUsed(a) = Len(Last(ss)) /\ Len(Last(ss)) \in Nat
    BY <1>1, <2>1, LastIs DEF LastUsed
  <2>3. ~(LastUsed(a) >= PageSize)
    BY DEF PageFull
  <2> QED
    BY <2>1, <2>2, <2>3, ValuesAssumption
<1>5. x = WithPages(w, LastPushed(ss, v))
  OBVIOUS
<1>6. values' = [values EXCEPT ![a] = x]
  BY DEF WithPages, LastPushed
<1>7. Longer(x, w, v, 0, hash)
  <2> HIDE DEF w, ss
  <2> QED
    BY <1>1, <1>2, <1>3, <1>4, <1>5, SlotFilled
<1>8. 0 \in {0, 1} /\ (0 = 1 => FreeCells > 0) /\ cells' = cells
  OBVIOUS
<1> QED
  BY <1>6, <1>7, <1>8, LongerIs

(* cjsonArray_Push with a new page. *)
LEMMA PushExtends ==
  ASSUME IInv, NEW a \in Arrays, NEW v \in Storable(a), PageFull(a), FreeCells > 0,
         values' = [values EXCEPT ![a].pages = Append(@, <<v>>)],
         owned' = owned \ {v}, Ok, UNCHANGED <<heap, misfreed>>,
         cells' = Plus(values[a].lpSystem, 1),
         NEW x, x = WithPages(values[a], Append(values[a].pages, <<v>>))
  PROVE  Exchanges(a, NULL, v, 1, x, {}) /\ Longer(x, values[a], v, 1, hash)
<1> DEFINE w  == values[a]
           ss == w.pages
<1>1. /\ a \in DOMAIN values /\ CellOK(w) /\ w.type = "Array" /\ Single(HoldsOf(w))
      /\ ss \in Seq(Seq(Slot))
  BY ArrayIs
<1>2. v \in Block /\ v \notin KidsOf(w)
  BY <1>1, StorableBlock
<1>3. ss = w.pages
  OBVIOUS
<1>4. ss = <<>> \/ Len(Last(ss)) >= PageSize
  BY DEF PageFull, LastUsed
<1>5. x = WithPages(w, Append(ss, <<v>>))
  OBVIOUS
<1>6. values' = [values EXCEPT ![a] = x]
  BY DEF WithPages
<1>7. Longer(x, w, v, 1, hash)
  <2> HIDE DEF w, ss
  <2> QED
    BY <1>1, <1>2, <1>3, <1>4, <1>5, PageAdded
<1>8. 1 \in {0, 1} /\ (1 = 1 => FreeCells > 0) /\ cells' = Plus(values[a].lpSystem, 1)
  OBVIOUS
<1> QED
  BY <1>6, <1>7, <1>8, LongerIs

(* One of the three ways in which the call ends. *)
LEMMA PushIs ==
  ASSUME IInv, NEW a \in Arrays, NEW v \in Storable(a), cjsonArray_Push(a, v)
  PROVE  \/ UNCHANGED vars
         \/ \E n, x : Exchanges(a, NULL, v, n, x, {}) /\ Longer(x, values[a], v, n, hash)
<1> DEFINE ss == values[a].pages
<1>1. CASE /\ ~PageFull(a)
           /\ values' = [values EXCEPT ![a].pages = [ss EXCEPT ![Len(ss)] = Append(@, v)]]
           /\ owned' = owned \ {v} /\ Ok /\ UNCHANGED <<heap, misfreed>> /\ UNCHANGED cells
  <2> DEFINE x == WithPages(values[a], LastPushed(ss, v))
  <2>1. Exchanges(a, NULL, v, 0, x, {}) /\ Longer(x, values[a], v, 0, hash)
    BY <1>1, PushFills
  <2> HIDE DEF x
  <2> QED
    BY <2>1
<1>2. CASE /\ PageFull(a) /\ FreeCells > 0
           /\ values' = [values EXCEPT ![a].pages = Append(ss, <<v>>)]
           /\ owned' = owned \ {v} /\ Ok /\ UNCHANGED <<heap, misfreed>>
           /\ cells' = Plus(values[a].lpSystem, 1)
  <2> DEFINE x == WithPages(values[a], Append(ss, <<v>>))
  <2>1. Exchanges(a, NULL, v, 1, x, {}) /\ Longer(x, values[a], v, 1, hash)
    BY <1>2, PushExtends
  <2> HIDE DEF x
  <2> QED
    BY <2>1
<1>3. CASE Refuse("OutOfMemory")
  BY <1>3 DEF Refuse
<1> QED
  BY <1>1, <1>2, <1>3 DEF cjsonArray_Push

(* cjsonArray_Push. *)
LEMMA PushKeeps ==
  ASSUME IInv, NEW a \in Arrays, NEW v \in Storable(a), cjsonArray_Push(a, v)
  PROVE  IInv'
BY PushIs, StutterKeeps, ExchangeKeeps

(* What cjsonArray_Set finds at the index, and leaves there. *)
SlotSwap(a, idx, u, v, x) ==
  /\ Fits(x, values[a], 0, hash) /\ idx + 1 \in 1 .. Len(Slots(a))
  /\ KidsOf(x) = (KidsOf(values[a]) \ {u}) \cup ({v} \ {NULL})
  /\ u \in KidsOf(values[a]) \cup {NULL}
  /\ Slots(a)[idx + 1] = u /\ SlotsOf(x) = [Slots(a) EXCEPT ![idx + 1] = v]
(* The slot where the walk ends is the element at the index. *)
LEMMA SlotAt ==
  ASSUME IInv, NEW a \in Arrays, NEW idx \in 0 .. Length(a) - 1,
         NEW p, p = Walk(a, idx).page, NEW j, j = idx - Walk(a, idx).base + 1,
         NEW v, v = NULL \/ v \in Storable(a),
         NEW x, x = WithPages(values[a], PutAt(values[a].pages, p, j, v)),
         NEW u, u = values[a].pages[p][j]
  PROVE  SlotSwap(a, idx, u, v, x)
<1> DEFINE w  == values[a]
           ss == w.pages
           rs == PutAt(ss, p, j, v)
           i  == idx + 1
<1>1. /\ a \in DOMAIN values /\ CellOK(w) /\ w.type = "Array" /\ Single(HoldsOf(w))
      /\ ss \in Seq(Seq(Slot))
  BY ArrayIs
<1>2. v \in Slot /\ v \notin KidsOf(w)
  BY <1>1, StorableIs DEF Slot
<1>3. PICK off : Offsets(off, ss)
  BY <1>1, OffsetsExist
<1>4. p \in 1 .. Len(ss) /\ j \in 1 .. Len(ss[p]) /\ At(i, off, p, j)
  BY <1>1, <1>3, WalkIs DEF WalksTo
<1>5. Slots(a) = SlotsOf(w)
  BY DEF Slots, SlotsOf
<1>6. ss = w.pages /\ rs = PutAt(ss, p, j, v) /\ x = WithPages(w, rs)
  OBVIOUS
<1> HIDE DEF w, ss, rs, i
<1>7. /\ CellOK(x) /\ x.type = "Array" /\ x.lpSystem = w.lpSystem
      /\ CountOf(x) = CountOf(w)
      /\ KidsOf(x) = (KidsOf(w) \ {ss[p][j]}) \cup ({v} \ {NULL})
      /\ Single(HoldsOf(x)) /\ Keyed(x, hash)
      /\ i \in 1 .. Len(SlotsOf(w)) /\ SlotsOf(w)[i] = ss[p][j]
      /\ SlotsOf(x) = [SlotsOf(w) EXCEPT ![i] = v]
  <2>1. SlotSet(x, w, ss[p][j], v, i, hash)
    BY <1>1, <1>2, <1>3, <1>4, <1>6, SlotReplaced
  <2> QED
    BY <2>1 DEF SlotSet
<1>8. ss[p][j] \in KidsOf(w) \cup {NULL}
  <2>1. KidsOf(w) = HeldBy(SlotsOf(w)) /\ DOMAIN SlotsOf(w) = 1 .. Len(SlotsOf(w))
    BY <1>1, ArrayFacts
  <2>2. SlotsOf(w)[i] \in HeldBy(SlotsOf(w)) \cup {NULL}
    BY <1>7, <2>1 DEF HeldBy
  <2> QED
    BY <1>7, <2>1, <2>2
<1>9. CountOf(w) \in Nat
  BY <1>1, CountNat
<1>10. Fits(x, w, 0, hash)
  BY <1>1, <1>7, <1>9 DEF Fits
<1> QED
  BY <1>5, <1>6, <1>7, <1>8, <1>10 DEF w, i, ss, SlotSwap

(* cjsonArray_Set ends with an error, or swaps the element. *)
LEMMA ArraySetIs ==
  ASSUME IInv, NEW a \in Arrays, NEW idx \in Nat, NEW v \in Storable(a) \cup {NULL},
         cjsonArray_Set(a, idx, v)
  PROVE  \/ UNCHANGED vars
         \/ \E u, x, G : Exchanges(a, u, v, 0, x, G) /\ SlotSwap(a, idx, u, v, x)
<1>1. CASE Refuse("IndexOutOfBounds")
  BY <1>1 DEF Refuse
<1> DEFINE w == values[a]
           p == Walk(a, idx).page
           j == idx - Walk(a, idx).base + 1
           u == w.pages[p][j]
           G == Subtree(u)
           x == WithPages(w, PutAt(w.pages, p, j, v))
<1>2. CASE /\ idx < Length(a)
           /\ values' = Without([values EXCEPT ![a].pages[p][j] = v], G)
           /\ heap' = Without(heap, G) /\ cells' = CellsWithout(G)
           /\ misfreed' = misfreed \cup Misfreed(G)
           /\ owned' = owned \ {v} /\ Ok
  <2>1. a \in DOMAIN values /\ NULL \notin KidsOf(w)
    BY ArrayIs
  <2>2. idx \in 0 .. Length(a) - 1
    <3>1. Length(a) \in Nat
      <4>1. Slots(a) = SlotsOf(w)
        BY DEF Slots, SlotsOf
      <4>2. CellOK(w) /\ w.type = "Array"
        BY ArrayIs
      <4>3. Len(SlotsOf(w)) \in Nat
        BY <4>2, ArrayFacts
      <4> QED
        BY <4>1, <4>3 DEF Length
    <3>2. idx < Length(a)
      BY <1>2
    <3> DEFINE l == Length(a)
    <3>3. l \in Nat /\ idx < l
      BY <3>1, <3>2
    <3> HIDE DEF l
    <3>4. idx \in 0 .. l - 1
      BY <3>3
    <3> QED
      BY <3>4 DEF l
  <2>3. v = NULL \/ v \in Storable(a)
    OBVIOUS
  <2>4. x = WithPages(values[a], PutAt(values[a].pages, p, j, v))
    OBVIOUS
  <2>5. values' = Without([values EXCEPT ![a] = x], G)
    <3>1. [values EXCEPT ![a].pages[p][j] = v] = [values EXCEPT ![a] = x]
      BY DEF WithPages, PutAt
    <3> QED
      BY <1>2, <3>1
  <2>6. G = Subtree(u)
    OBVIOUS
  <2> HIDE DEF x, p, j
  <2>13. p = Walk(a, idx).page /\ j = idx - Walk(a, idx).base + 1
    BY DEF p, j
  <2>14. u = values[a].pages[p][j]
    OBVIOUS
  <2> HIDE DEF u
  <2>15. SlotSwap(a, idx, u, v, x)
    BY <2>2, <2>3, <2>4, <2>13, <2>14, SlotAt
  <2>7. /\ Fits(x, w, 0, hash) /\ KidsOf(x) = (KidsOf(w) \ {u}) \cup ({v} \ {NULL})
        /\ u \in KidsOf(w) \cup {NULL}
    BY <2>15 DEF SlotSwap
  <2> HIDE DEF w, u, G
  <2>8. Exchangeable(a, u, v, 0, x, G)
    BY <2>3, <2>6, <2>7 DEF Exchangeable, w
  <2>9. G \subseteq DOMAIN values /\ a \notin G
    BY <2>1, <2>6, <2>7, GoneBelow DEF w
  <2>10. heap' = Without(heap, G) /\ cells' = CellsWithout(G)
    BY <1>2
  <2>11. /\ Change(values, heap, cells, a, G, 0, x, values', heap', cells')
         /\ cells' = [s \in System |-> cells'[s]]
    BY <2>1, <2>5, <2>9, <2>10, ChangeAndRelease
  <2>12. Exchanged(a, u, v, 0, x, G)
    BY <1>2, <2>11 DEF Exchanged, Ok
  <2>16. Exchanges(a, u, v, 0, x, G)
    BY <2>1, <2>8, <2>12 DEF Exchanges
  <2> QED
    BY <2>15, <2>16
<1> QED
  BY <1>1, <1>2 DEF cjsonArray_Set

(* cjsonArray_Set. *)
LEMMA ArraySetKeeps ==
  ASSUME IInv, NEW a \in Arrays, NEW idx \in Nat, NEW v \in Storable(a) \cup {NULL},
         cjsonArray_Set(a, idx, v)
  PROVE  IInv'
BY ArraySetIs, StutterKeeps, ExchangeKeeps

(* cjsonBoolean_Set and cjsonNumber_Set*: the type changes in place. *)
LEMMA RetypedKeeps ==
  ASSUME IInv, NEW b \in DOMAIN values, NEW t \in Scalar,
         values[b].type \in Scalar, t \in Numeric => values[b].type \in Numeric,
         values' = [values EXCEPT ![b].type = t], Ok, UNCHANGED <<heap, cells, owned, misfreed>>
  PROVE  IInv'
<1> DEFINE w == values[b]
           x == [w EXCEPT !.type = t]
<1>1. CellOK(w) /\ w.type \notin {"Object", "Array"}
  BY DEF IInv, Sound, CellSound, Scalar, Constant, Numeric
<1>2. w \in ScalarCell /\ KidsOf(w) = {} /\ CountOf(w) = 0
  BY <1>1, ScalarIs
<1>3. w.type \in Numeric => w.room = "number"
  BY <1>1 DEF CellOK
<1>4. x \in ScalarCell /\ x.type = t /\ x.lpSystem = w.lpSystem /\ x.room = w.room
  BY <1>2 DEF ScalarCell
<1>5. values' = [values EXCEPT ![b] = x]
  OBVIOUS
<1>6. t \notin {"Object", "Array"} /\ (t \in Numeric => w.type \in Numeric)
  BY DEF Scalar, Constant, Numeric
<1> HIDE DEF w, x
<1>7. CellOK(x)
  BY <1>3, <1>4, <1>6 DEF CellOK
<1>8. KidsOf(x) = {} /\ CountOf(x) = 0 /\ Single(HoldsOf(x)) /\ Keyed(x, hash)
  BY <1>4, <1>6, <1>7, ScalarIs
<1>9. Fits(x, w, 0, hash)
  BY <1>1, <1>2, <1>4, <1>6, <1>7, <1>8 DEF Fits
<1>10. Subtree(NULL) = {}
  BY SubtreeOfNothing
<1>11. Exchangeable(b, NULL, NULL, 0, x, {})
  BY <1>2, <1>8, <1>9, <1>10 DEF Exchangeable, w
<1>12. x.lpSystem \in System
  BY <1>7, CountNat
<1>13. heap' = heap /\ cells' = cells
  OBVIOUS
<1>14. /\ Change(values, heap, cells, b, {}, 0, x, values', heap', cells')
       /\ cells' = [s \in System |-> cells'[s]]
  BY <1>5, <1>12, <1>13, ChangeInPlace
<1>15. owned' = owned \ {NULL}
  BY SoundFacts DEF IInv
<1>16. Exchanged(b, NULL, NULL, 0, x, {})
  BY <1>14, <1>15 DEF Exchanged, Ok
<1> QED
  BY <1>11, <1>16, ExchangeKeeps DEF Exchanges

(* The calls on scalars. *)
LEMMA UseScalarKeeps == IInv /\ UseScalar => IInv'
<1> SUFFICES ASSUME IInv, UseScalar PROVE IInv'
  OBVIOUS
<1>1. ASSUME NEW b \in DOMAIN values, NEW t \in {"True", "False"}, cjsonBoolean_Set(b, t) PROVE IInv'
  <2>1. CASE values[b].type \in {"True", "False"}
    <3>1. /\ values' = [values EXCEPT ![b].type = t] /\ Ok /\ UNCHANGED <<heap, cells, owned, misfreed>>
      BY <1>1, <2>1 DEF cjsonBoolean_Set
    <3>2. t \in Scalar /\ values[b].type \in Scalar /\ t \notin Numeric
      BY <2>1 DEF Scalar, Constant, Numeric
    <3> QED
      BY <3>1, <3>2, RetypedKeeps
  <2>2. CASE values[b].type \notin {"True", "False"}
    BY <1>1, <2>2, StutterKeeps DEF cjsonBoolean_Set, Refuse
  <2> QED
    BY <2>1, <2>2
<1>2. ASSUME NEW b \in DOMAIN values, NEW t \in Numeric, cjsonNumber_Set(b, t) PROVE IInv'
  <2>1. CASE values[b].type \in Numeric
    <3>1. /\ values' = [values EXCEPT ![b].type = t] /\ Ok /\ UNCHANGED <<heap, cells, owned, misfreed>>
      BY <1>2, <2>1 DEF cjsonNumber_Set, IsNumeric
    <3>2. t \in Scalar /\ values[b].type \in Scalar
      BY <2>1 DEF Scalar
    <3> QED
      BY <2>1, <3>1, <3>2, RetypedKeeps
  <2>2. CASE values[b].type \notin Numeric
    BY <1>2, <2>2, StutterKeeps DEF cjsonNumber_Set, IsNumeric, Refuse
  <2> QED
    BY <2>1, <2>2
<1> QED
  BY <1>1, <1>2 DEF UseScalar

(* The calls on objects. *)
LEMMA UseObjectKeeps == IInv /\ UseObject => IInv'
BY ObjectSetKeeps, SetNullKeeps DEF UseObject

(* The calls on arrays. *)
LEMMA UseArrayKeeps == IInv /\ UseArray => IInv'
<1> SUFFICES ASSUME IInv, NEW a \in Arrays,
                    \/ \E v \in Storable(a) : cjsonArray_Push(a, v)
                    \/ \E idx \in 0 .. Length(a), v \in Storable(a) \cup {NULL} : cjsonArray_Set(a, idx, v)
             PROVE  IInv'
  BY DEF UseArray
<1>1. CASE \E v \in Storable(a) : cjsonArray_Push(a, v)
  BY <1>1, PushKeeps
<1>2. CASE \E idx \in 0 .. Length(a), v \in Storable(a) \cup {NULL} : cjsonArray_Set(a, idx, v)
  <2>1. PICK idx \in 0 .. Length(a) : \E v \in Storable(a) \cup {NULL} : cjsonArray_Set(a, idx, v)
    BY <1>2
  <2>2. PICK v \in Storable(a) \cup {NULL} : cjsonArray_Set(a, idx, v)
    BY <2>1
  <2>3. idx \in Nat
    BY <2>1
  <2> QED
    BY <2>2, <2>3, ArraySetKeeps
<1> QED
  BY <1>1, <1>2

(* Every step. *)
LEMMA NextKeeps == IInv /\ [Next]_vars => IInv'
BY StutterKeeps, BuildKeeps, UseObjectKeeps, UseArrayKeeps, UseScalarKeeps, ReleaseKeeps DEF Next

(* IInv holds in every state: whatever the client creates, stores, changes and *)
(* releases, the cells are well-formed, their keys hash to the chain they are  *)
(* in, the values are a forest whose roots are what the client owns, and the   *)
(* counters of the allocators are the entries and pages of the live values     *)
(* (cjsonObject.c, cjsonArray.c and cjsonReleaseValue of cjson.c).             *)
THEOREM ValuesSound == Spec => []IInv
BY InitKeeps, NextKeeps, PTL DEF Spec

-----------------------------------------------------------------------------
(* What follows from the invariant. *)

(* The type invariant. *)
LEMMA InvType == IInv => TypeOK
<1> SUFFICES ASSUME IInv PROVE TypeOK
  OBVIOUS
<1>1. Sound(values, heap, cells, owned, hash)
  BY DEF IInv
<1>2. \A c \in DOMAIN values : CellOK(values[c]) /\ heap[c] \in System
  BY <1>1 DEF Sound, CellSound
<1>3. DOMAIN heap = DOMAIN values /\ DOMAIN values \subseteq Block
  BY <1>1 DEF Sound
<1>4. owned \subseteq DOMAIN values
  BY <1>1, SoundFacts
<1> QED
  BY <1>2, <1>3, <1>4 DEF IInv, TypeOK

(* Where the entries of an object stand when the chains are walked in order. *)
Chained(w, off) ==
  /\ \A k \in 1 .. Len(ChainsOf(w)) :
       \E h \in 0 .. BucketCount - 1 : \E j \in 1 .. Len(w.buckets[h]) : k = off[h] + j
  /\ \A h \in 0 .. BucketCount - 1 : \A j \in 1 .. Len(w.buckets[h]) :
       off[h] + j \in 1 .. Len(ChainsOf(w)) /\ ChainsOf(w)[off[h] + j] = w.buckets[h][j]

(* The place of an entry in that walk. *)
LEMMA ChainedBy ==
  ASSUME NEW w \in ObjectCell
  PROVE  \E off : Chained(w, off)
<1> DEFINE ss == RowsOf(w)
<1>1. /\ ss \in Seq(Seq(Entry)) /\ Len(ss) = BucketCount
      /\ \A i \in 1 .. BucketCount : ss[i] = w.buckets[i - 1]
  BY RowsOfObject
<1>2. ChainsOf(w) = FlattenSeq(ss)
  BY DEF ChainsOf
<1>3. BucketCount \in Nat
  BY ValuesAssumption
<1> HIDE DEF ss
<1>4. PICK off : Offsets(off, ss)
  BY <1>1, OffsetsExist
<1>5. ASSUME NEW k \in 1 .. Len(ChainsOf(w))
      PROVE  \E h \in 0 .. BucketCount - 1 : \E j \in 1 .. Len(w.buckets[h]) : k = off[h] + j
  <2>1. k \in 1 .. Len(FlattenSeq(ss))
    BY <1>2
  <2>2. PICK i \in 1 .. Len(ss) : \E j \in 1 .. Len(ss[i]) : k = off[i - 1] + j /\ FlattenSeq(ss)[k] = ss[i][j]
    BY <1>1, <1>4, <2>1, FlattenBack
  <2>3. i - 1 \in 0 .. BucketCount - 1 /\ ss[i] = w.buckets[i - 1]
    BY <1>1, <1>3
  <2> QED
    BY <2>2, <2>3
<1>6. ASSUME NEW h \in 0 .. BucketCount - 1, NEW j \in 1 .. Len(w.buckets[h])
      PROVE  off[h] + j \in 1 .. Len(ChainsOf(w)) /\ ChainsOf(w)[off[h] + j] = w.buckets[h][j]
  <2>1. h + 1 \in 1 .. Len(ss) /\ h + 1 - 1 = h /\ h + 1 \in 1 .. BucketCount
    BY <1>1, <1>3
  <2>2. ss[h + 1] = w.buckets[h]
    BY <1>1, <2>1
  <2>3. j \in 1 .. Len(ss[h + 1])
    BY <2>2
  <2>4. off[h + 1 - 1] + j \in 1 .. Len(FlattenSeq(ss)) /\ FlattenSeq(ss)[off[h + 1 - 1] + j] = ss[h + 1][j]
    BY <1>1, <1>4, <2>1, <2>3, FlattenPlace
  <2> QED
    BY <1>2, <2>1, <2>2, <2>4
<1> QED
  BY <1>5, <1>6 DEF Chained

(* What is known of an object of the store. *)
LEMMA ObjectIs ==
  ASSUME IInv, NEW o \in Objects
  PROVE  /\ o \in DOMAIN values /\ values[o] \in ObjectCell /\ values[o].type = "Object"
         /\ Single(HoldsOf(values[o])) /\ Keyed(values[o], hash)
<1>1. o \in DOMAIN values /\ values[o].type = "Object"
  BY DEF Objects, Containers
<1>2. CellOK(values[o]) /\ Single(HoldsOf(values[o])) /\ Keyed(values[o], hash)
  BY <1>1 DEF IInv, Sound, CellSound
<1> QED
  BY <1>1, <1>2 DEF CellOK

(* No block is held twice by one container. *)
LEMMA HeldOnce == ASSUME IInv, NEW c \in DOMAIN values PROVE IsInjective(Held(c))
<1> DEFINE w == values[c]
           f == Held(c)
<1>1. CASE w.type = "Object"
  <2>1. c \in Objects
    BY <1>1 DEF Objects, Containers
  <2>2. w \in ObjectCell /\ Single(HoldsOf(w))
    BY <2>1, ObjectIs
  <2>3. f = [i \in DOMAIN ChainsOf(w) |-> ChainsOf(w)[i].lpValue]
    BY <2>1, ViewedByRecord DEF Held
  <2>4. DOMAIN ChainsOf(w) = 1 .. Len(ChainsOf(w))
    BY <2>2, ChainsOfObject, LenProperties
  <2> HIDE DEF f, w
  <2>5. PICK off : Chained(w, off)
    BY <2>2, ChainedBy
  <2>6. ASSUME NEW a \in DOMAIN f, NEW b \in DOMAIN f, f[a] = f[b] PROVE a = b
    <3>1. a \in 1 .. Len(ChainsOf(w)) /\ b \in 1 .. Len(ChainsOf(w))
      BY <2>3, <2>4
    <3>2. PICK h \in 0 .. BucketCount - 1 : \E j \in 1 .. Len(w.buckets[h]) : a = off[h] + j
      BY <2>5, <3>1 DEF Chained
    <3>3. PICK j \in 1 .. Len(w.buckets[h]) : a = off[h] + j
      BY <3>2
    <3>4. PICK g \in 0 .. BucketCount - 1 : \E i \in 1 .. Len(w.buckets[g]) : b = off[g] + i
      BY <2>5, <3>1 DEF Chained
    <3>5. PICK i \in 1 .. Len(w.buckets[g]) : b = off[g] + i
      BY <3>4
    <3>6. f[a] = w.buckets[h][j].lpValue /\ f[b] = w.buckets[g][i].lpValue
      <4>1. ChainsOf(w)[a] = w.buckets[h][j]
        BY <2>5, <3>3 DEF Chained
      <4>2. ChainsOf(w)[b] = w.buckets[g][i]
        BY <2>5, <3>5 DEF Chained
      <4> QED
        BY <2>3, <2>4, <3>1, <4>1, <4>2
    <3>7. /\ <<h, j>> \in PlacesOf(w) /\ HoldsOf(w)[<<h, j>>] = w.buckets[h][j].lpValue
          /\ w.buckets[h][j].lpValue \in Block
      BY <2>2, EntryFacts
    <3>8. <<g, i>> \in PlacesOf(w) /\ HoldsOf(w)[<<g, i>>] = w.buckets[g][i].lpValue
      BY <2>2, EntryFacts
    <3>9. DOMAIN HoldsOf(w) = PlacesOf(w)
      BY <1>1 DEF HoldsOf, w
    <3>10. <<h, j>> = <<g, i>>
      BY <2>2, <2>6, <3>6, <3>7, <3>8, <3>9, ValuesAssumption DEF Single
    <3> QED
      BY <3>3, <3>5, <3>10
  <2>7. IsInjective(f)
    BY <2>6 DEF IsInjective
  <2> QED
    BY <2>7 DEF f
<1>2. CASE w.type = "Array"
  <2>1. c \in Arrays /\ c \notin Objects
    BY <1>2 DEF Arrays, Objects, Containers
  <2>2. CellOK(w) /\ Single(HoldsOf(w))
    BY <2>1, ArrayIs
  <2>3. HoldsOf(w) = SlotsOf(w)
    BY <1>2 DEF HoldsOf
  <2> DEFINE s == SlotsOf(w)
  <2>4. f = [i \in {j \in DOMAIN s : s[j] # NULL} |-> s[i]]
    BY <2>1, ViewedByRecord DEF Held
  <2>5. Single(s)
    BY <2>2, <2>3
  <2> HIDE DEF f, s
  <2>6. IsInjective(f)
    BY <2>4, <2>5 DEF IsInjective, Single
  <2> QED
    BY <2>6 DEF f
<1>3. CASE w.type \notin {"Object", "Array"}
  <2>1. c \notin Objects /\ c \notin Arrays
    BY <1>3 DEF Arrays, Objects, Containers
  <2>2. f = <<>>
    BY <2>1 DEF Held
  <2>3. DOMAIN f = {}
    BY <2>2, EmptySeq
  <2> HIDE DEF f
  <2>4. IsInjective(f)
    BY <2>3 DEF IsInjective
  <2> QED
    BY <2>4 DEF f
<1> QED
  BY <1>1, <1>2, <1>3

(* Ownership is the forest of the invariant. *)
LEMMA InvOwnership == IInv => Ownership
<1> SUFFICES ASSUME IInv PROVE Ownership
  OBVIOUS
<1> DEFINE D == DOMAIN values
           k == Kids(values)
<1>1. /\ Sound(values, heap, cells, owned, hash) /\ DOMAIN heap = D /\ Forest(D, k, owned)
      /\ DOMAIN cells = System
  BY DEF IInv, Sound
<1>2. \A c \in D : Children(c) = k[c]
  BY ViewedByRecord DEF Kids
<1>3. UNION {Children(c) : c \in D} = Beneath(D, k)
  BY <1>2 DEF Beneath
<1>4. D = owned \cup UNION {Children(c) : c \in D}
  BY <1>1, <1>3 DEF Forest
<1>5. \A c \in D : Children(c) \cap owned = {} /\ \A d \in D \ {c} : Children(c) \cap Children(d) = {}
  BY <1>1, <1>2 DEF Forest
<1>6. \A c \in D : IsInjective(Held(c))
  BY HeldOnce
<1>7. cells = [s \in DOMAIN cells |-> MapThenSumSet(CellsOf, {c \in D : values[c].lpSystem = s})]
  <2>1. ASSUME NEW s \in System
        PROVE  cells[s] = MapThenSumSet(CellsOf, {c \in D : values[c].lpSystem = s})
    <3> DEFINE S == OfSystem(values, s)
    <3>1. {c \in D : values[c].lpSystem = s} = S /\ S \subseteq D
      BY DEF OfSystem
    <3>2. cells[s] = Total(Counts(values), S)
      BY <1>1 DEF Sound, Counted
    <3> HIDE DEF S
    <3>3. IsFiniteSet(S)
      BY <1>1, <3>1, SoundFacts, FS_Subset
    <3>4. MapThenSumSet(CellsOf, S) = Total(Counts(values), S)
      BY <3>1, <3>3, SumIs
    <3> QED
      BY <3>1, <3>2, <3>4
  <2> DEFINE m(s) == MapThenSumSet(CellsOf, {c \in D : values[c].lpSystem = s})
  <2>2. \A s \in System : cells[s] = m(s)
    BY <2>1
  <2>3. cells = [s \in System |-> cells[s]]
    BY DEF IInv
  <2> HIDE DEF m
  <2>4. cells = [s \in System |-> m(s)]
    BY <2>2, <2>3
  <2> QED
    BY <1>1, <2>4 DEF m
<1> QED
  BY <1>1, <1>4, <1>5, <1>6, <1>7 DEF Ownership

(* The calls that read a container agree, because an entry is met where its *)
(* key hashes to.                                                           *)
LEMMA InvReads == IInv => ReadsAgree
<1> SUFFICES ASSUME IInv PROVE ReadsAgree
  OBVIOUS
<1>1. ASSUME NEW o \in Objects, NEW k \in Key
      PROVE  LET met == {i \in DOMAIN cjsonObject_Iterate(o) : cjsonObject_Iterate(o)[i].key = k}
             IN IF cjsonObject_Get(o, k) = NULL THEN met = {}
                ELSE \E i \in met : met = {i} /\ cjsonObject_Iterate(o)[i].lpValue = cjsonObject_Get(o, k)
  <2> DEFINE w   == values[o]
             h   == hash[k]
             s   == ChainsOf(w)
             b   == w.buckets[h]
             n   == Found(b, k)
             met == {i \in DOMAIN s : s[i].key = k}
  <2>1. /\ w \in ObjectCell /\ Keyed(w, hash) /\ h \in 0 .. BucketCount - 1
        /\ Bucket(o, k) = b /\ b \in Seq(Entry) /\ w.type = "Object"
    BY BucketIs
  <2>2. cjsonObject_Iterate(o) = s
    BY ViewedByRecord DEF cjsonObject_Iterate
  <2>3. cjsonObject_Get(o, k) = IF n = 0 THEN NULL ELSE b[n].lpValue
    BY <2>1 DEF cjsonObject_Get
  <2>4. DOMAIN s = 1 .. Len(s)
    BY <2>1, ChainsOfObject, LenProperties
  <2> HIDE DEF w, s, n
  <2>5. PICK off : Chained(w, off)
    BY <2>1, ChainedBy
  <2>6. ASSUME NEW i \in met PROVE \E j \in 1 .. Len(b) : i = off[h] + j /\ b[j].key = k
    <3>1. i \in 1 .. Len(s) /\ s[i].key = k
      BY <2>4
    <3>2. PICK g \in 0 .. BucketCount - 1 : \E j \in 1 .. Len(w.buckets[g]) : i = off[g] + j
      BY <2>5, <3>1 DEF Chained, s
    <3>3. PICK j \in 1 .. Len(w.buckets[g]) : i = off[g] + j
      BY <3>2
    <3>4. s[i] = w.buckets[g][j]
      BY <2>5, <3>3 DEF Chained, s
    <3>5. g = h
      BY <2>1, <3>1, <3>4 DEF Keyed
    <3> QED
      BY <3>1, <3>3, <3>4, <3>5
  <2>7. CASE n = 0
    <3>1. \A j \in 1 .. Len(b) : b[j].key # k
      BY <2>1, <2>7, FoundIs DEF n
    <3>2. met = {}
      BY <2>6, <3>1
    <3>3. cjsonObject_Get(o, k) = NULL
      BY <2>3, <2>7
    <3> QED
      BY <2>2, <3>2, <3>3
  <2>8. CASE n # 0
    <3>1. n \in 1 .. Len(b) /\ b[n].key = k
      BY <2>1, <2>8, FoundIs DEF n
    <3>2. b[n].lpValue \in Block
      BY <2>1, <3>1, EntryFacts
    <3>3. cjsonObject_Get(o, k) = b[n].lpValue /\ cjsonObject_Get(o, k) # NULL
      BY <2>3, <2>8, <3>2, ValuesAssumption
    <3> DEFINE i == off[h] + n
    <3>4. i \in DOMAIN s /\ s[i] = b[n]
      BY <2>1, <2>4, <2>5, <3>1 DEF Chained, s
    <3>5. i \in met
      BY <3>1, <3>4
    <3>6. ASSUME NEW l \in met PROVE l = i
      <4>1. PICK j \in 1 .. Len(b) : l = off[h] + j /\ b[j].key = k
        BY <2>6
      <4>2. j = n
        BY <2>1, <3>1, <4>1 DEF Keyed
      <4> QED
        BY <4>1, <4>2
    <3>7. met = {i}
      BY <3>5, <3>6
    <3>8. s[i].lpValue = cjsonObject_Get(o, k)
      BY <3>3, <3>4
    <3> HIDE DEF i
    <3> QED
      BY <2>2, <3>3, <3>5, <3>7, <3>8
  <2> QED
    BY <2>7, <2>8
<1>2. ASSUME NEW a \in Arrays, NEW idx \in 0 .. Length(a) - 1
      PROVE  cjsonArray_Get(a, idx) = cjsonArray_Iterate(a)[idx + 1]
  <2> DEFINE ss == values[a].pages
             p  == Walk(a, idx).page
             j  == idx - Walk(a, idx).base + 1
  <2>1. ss \in Seq(Seq(Slot))
    BY ArrayIs
  <2>2. PICK off : Offsets(off, ss)
    BY <2>1, OffsetsExist
  <2>3. WalksTo(a, idx, off)
    BY <2>1, <2>2, WalkIs
  <2>4. p \in 1 .. Len(ss) /\ j \in 1 .. Len(ss[p]) /\ idx + 1 = off[p - 1] + j
    BY <2>3 DEF WalksTo, At
  <2>5. cjsonArray_Get(a, idx) = ss[p][j] /\ cjsonArray_Iterate(a) = FlattenSeq(ss)
    BY DEF cjsonArray_Get, cjsonArray_Iterate, Slots
  <2> HIDE DEF ss, p, j
  <2>6. FlattenSeq(ss)[off[p - 1] + j] = ss[p][j]
    <3>1. p \in 1 .. Len(ss) /\ j \in 1 .. Len(ss[p])
      BY <2>4
    <3>2. \A i \in 1 .. Len(ss) : \A l \in 1 .. Len(ss[i]) :
            FlattenSeq(ss)[off[i - 1] + l] = ss[i][l]
      BY <2>1, <2>2, FlattenPlace
    <3> QED
      BY <3>1, <3>2
  <2> QED
    BY <2>4, <2>5, <2>6
<1> QED
  BY <1>1, <1>2 DEF ReadsAgree

(* Every variable stays in its type: no call makes a cell the library could *)
(* not read, and no allocator counts less than nothing.                     *)
THEOREM ValuesTyped == Spec => []TypeOK
BY ValuesSound, InvType, PTL

(* Every value has exactly one owner, the client or one container: storing hands *)
(* it over, replacing an element or a member releases the old one with all below *)
(* it, and cjsonReleaseValue visits each value of its tree once                  *)
(* (cjsonObject_Set, cjsonArray_Set, cjsonReleaseValue).                         *)
THEOREM EveryValueOwnedOnce == Spec => []Ownership
BY ValuesSound, InvOwnership, PTL

(* cjsonObject_Get, cjsonObject_HasKey and cjsonObject_Iterate see the same       *)
(* members, and cjsonArray_Get and cjsonArray_Iterate the same elements: an entry *)
(* is in the chain its key hashes to, and no key is there twice.                  *)
THEOREM ReadingCallsAgree == Spec => []ReadsAgree
BY ValuesSound, InvReads, PTL

(* Every block goes back to the allocator it came from, but those of arrays, *)
(* whose lpSystem cjsonArray_Create leaves NULL.                             *)
THEOREM BlocksGoHome == Spec => []AllocatorsMatchButArrays
<1>1. IInv => AllocatorsMatchButArrays
  BY DEF IInv, AllocatorsMatchButArrays
<1> QED
  BY <1>1, ValuesSound, PTL
=============================================================================
