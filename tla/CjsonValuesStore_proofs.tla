---------------------- MODULE CjsonValuesStore_proofs -----------------------
(***************************************************************************)
(* Objects and arrays implement the abstract store: what a client sees of  *)
(* the chains and pages is the maps and sequences of ValueStore.  Every call *)
(* that changes a container is a step of the store, with the release of the *)
(* old value and of all below it; every other call changes nothing it shows. *)
(***************************************************************************)
EXTENDS CjsonValues_proofs

-----------------------------------------------------------------------------
(* What the abstract store sees. *)

(* What the abstract store sees of one record, and of all. *)
MembersOf(w) ==
  [k \in {e.key : e \in ToSet(ChainsOf(w))} |->
     (CHOOSE e \in ToSet(ChainsOf(w)) : e.key = k).lpValue]
ItemsOf(w) == IF w.type = "Object" THEN MembersOf(w) ELSE SlotsOf(w)
View(w)    == [kind |-> w.type, items |-> ItemsOf(w)]
Boxes(V)   == {c \in DOMAIN V : V[c].type \in {"Object", "Array"}}
ViewOf(V)  == [c \in Boxes(V) |-> View(V[c])]

(* Content is what the abstract store sees of the values, *)
LEMMA ContentIs == Content = ViewOf(values)
<1>1. Objects \cup Arrays = Boxes(values)
  BY DEF Objects, Arrays, Containers, Boxes
<1>2. ASSUME NEW c \in Boxes(values)
      PROVE  (IF c \in Objects THEN Members(c) ELSE Slots(c)) = ItemsOf(values[c])
  <2>1. c \in Objects <=> values[c].type = "Object"
    BY DEF Objects, Containers, Boxes
  <2>2. Members(c) = MembersOf(values[c]) /\ Slots(c) = SlotsOf(values[c])
    BY DEF Members, MembersOf, Chains, ChainsOf, RowsOf, Slots, SlotsOf
  <2> QED
    BY <2>1, <2>2 DEF ItemsOf
<1> QED
  BY <1>1, <1>2 DEF Content, ViewOf, View

(* in the next state too. *)
LEMMA NextContent == Content' = ViewOf(values')
<1>1. (Objects \cup Arrays)' = Boxes(values')
  BY DEF Objects, Arrays, Containers, Boxes
<1>2. ASSUME NEW c \in Boxes(values')
      PROVE  (IF c \in Objects' THEN Members(c)' ELSE Slots(c)') = ItemsOf(values'[c])
  <2>1. c \in Objects' <=> values'[c].type = "Object"
    BY DEF Objects, Containers, Boxes
  <2>2. Members(c)' = MembersOf(values'[c]) /\ Slots(c)' = SlotsOf(values'[c])
    BY DEF Members, MembersOf, Chains, ChainsOf, RowsOf, Slots, SlotsOf
  <2> QED
    BY <2>1, <2>2 DEF ItemsOf
<1> QED
  BY <1>1, <1>2 DEF Content, ViewOf, View

(* It sees nothing of no values. *)
LEMMA EmptyView == ViewOf(<<>>) = <<>>
<1>1. DOMAIN <<>> = {}
  OBVIOUS
<1>2. Boxes(<<>>) = {}
  BY <1>1 DEF Boxes
<1> QED
  BY <1>2 DEF ViewOf

(* The initial states map to initial states. *)
LEMMA StoreStart == Init => Store!Init
BY ContentIs, EmptyView DEF Init, Store!Init

(* The members of an object are the entries of its chains. *)
LEMMA MembersAre ==
  ASSUME NEW w \in ObjectCell, NEW hs, Keyed(w, hs)
  PROVE  /\ \A k : k \in DOMAIN MembersOf(w) <=>
               \E h \in 0 .. BucketCount - 1 : \E j \in 1 .. Len(w.buckets[h]) : k = w.buckets[h][j].key
         /\ \A h \in 0 .. BucketCount - 1 : \A j \in 1 .. Len(w.buckets[h]) :
               MembersOf(w)[w.buckets[h][j].key] = w.buckets[h][j].lpValue
<1> DEFINE S == ToSet(ChainsOf(w))
<1>1. \A e : e \in S <=>
         \E h \in 0 .. BucketCount - 1 : \E j \in 1 .. Len(w.buckets[h]) : e = w.buckets[h][j]
  BY ChainsOfObject
<1>2. MembersOf(w) = [k \in {e.key : e \in S} |-> (CHOOSE e \in S : e.key = k).lpValue]
  BY DEF MembersOf
<1>3. w.type = "Object"
  BY DEF ObjectCell
<1> HIDE DEF S
<1>4. \A k : k \in DOMAIN MembersOf(w) <=>
         \E h \in 0 .. BucketCount - 1 : \E j \in 1 .. Len(w.buckets[h]) : k = w.buckets[h][j].key
  <2>1. DOMAIN MembersOf(w) = {e.key : e \in S}
    BY <1>2
  <2>2. ASSUME NEW k \in {e.key : e \in S}
        PROVE  \E h \in 0 .. BucketCount - 1 : \E j \in 1 .. Len(w.buckets[h]) : k = w.buckets[h][j].key
    BY <1>1
  <2>3. ASSUME NEW h \in 0 .. BucketCount - 1, NEW j \in 1 .. Len(w.buckets[h])
        PROVE  w.buckets[h][j].key \in {e.key : e \in S}
    BY <1>1
  <2> QED
    BY <2>1, <2>2, <2>3
<1>5. ASSUME NEW h \in 0 .. BucketCount - 1, NEW j \in 1 .. Len(w.buckets[h])
      PROVE  MembersOf(w)[w.buckets[h][j].key] = w.buckets[h][j].lpValue
  <2> DEFINE a == w.buckets[h][j]
             b == CHOOSE e \in S : e.key = a.key
  <2>1. a \in S
    BY <1>1
  <2>2. b \in S /\ b.key = a.key
    BY <2>1
  <2> HIDE DEF b
  <2>3. PICK g \in 0 .. BucketCount - 1 : \E i \in 1 .. Len(w.buckets[g]) : b = w.buckets[g][i]
    BY <1>1, <2>2
  <2>4. PICK i \in 1 .. Len(w.buckets[g]) : b = w.buckets[g][i]
    BY <2>3
  <2>5. g = h
    BY <1>3, <2>2, <2>4 DEF Keyed
  <2>6. i = j
    BY <1>3, <2>2, <2>4, <2>5 DEF Keyed
  <2>7. b = a
    BY <2>4, <2>5, <2>6
  <2>8. MembersOf(w)[a.key] = b.lpValue
    BY <1>2, <2>1 DEF b
  <2> QED
    BY <2>7, <2>8
<1> QED
  BY <1>4, <1>5

(* The items the abstract store sees are the children. *)
LEMMA ItemsAre ==
  ASSUME NEW w, CellOK(w), w.type \in {"Object", "Array"}, NEW hs, Keyed(w, hs)
  PROVE  {ItemsOf(w)[i] : i \in DOMAIN ItemsOf(w)} \ {NULL} = KidsOf(w)
<1>1. CASE w.type = "Object"
  <2>1. w \in ObjectCell
    BY <1>1 DEF CellOK
  <2>2. ItemsOf(w) = MembersOf(w)
    BY <1>1 DEF ItemsOf
  <2>3. KidsOf(w) = {e.lpValue : e \in ToSet(ChainsOf(w))}
    BY <1>1 DEF KidsOf
  <2>4. NULL \notin KidsOf(w)
    BY KidsHeld, ValuesAssumption
  <2>5. ASSUME NEW k \in DOMAIN MembersOf(w) PROVE MembersOf(w)[k] \in KidsOf(w)
    <3>1. PICK h \in 0 .. BucketCount - 1 : \E j \in 1 .. Len(w.buckets[h]) : k = w.buckets[h][j].key
      BY <2>1, MembersAre
    <3>2. PICK j \in 1 .. Len(w.buckets[h]) : k = w.buckets[h][j].key
      BY <3>1
    <3>3. MembersOf(w)[k] = w.buckets[h][j].lpValue
      BY <2>1, <3>2, MembersAre
    <3> QED
      BY <2>1, <3>3, EntryFacts
  <2>6. ASSUME NEW u \in KidsOf(w) PROVE \E k \in DOMAIN MembersOf(w) : u = MembersOf(w)[k]
    <3>1. PICK e \in ToSet(ChainsOf(w)) : u = e.lpValue
      BY <2>3
    <3>2. PICK h \in 0 .. BucketCount - 1 : \E j \in 1 .. Len(w.buckets[h]) : e = w.buckets[h][j]
      BY <2>1, <3>1, ChainsOfObject
    <3>3. PICK j \in 1 .. Len(w.buckets[h]) : e = w.buckets[h][j]
      BY <3>2
    <3>4. w.buckets[h][j].key \in DOMAIN MembersOf(w)
      BY <2>1, MembersAre
    <3>5. MembersOf(w)[w.buckets[h][j].key] = w.buckets[h][j].lpValue
      BY <2>1, MembersAre
    <3> QED
      BY <3>1, <3>3, <3>4, <3>5
  <2> QED
    BY <2>2, <2>4, <2>5, <2>6
<1>2. CASE w.type = "Array"
  <2>1. ItemsOf(w) = SlotsOf(w)
    BY <1>2 DEF ItemsOf
  <2>2. KidsOf(w) = HeldBy(SlotsOf(w))
    BY <1>2, ArrayFacts
  <2> QED
    BY <2>1, <2>2 DEF HeldBy
<1> QED
  BY <1>1, <1>2

(* What the abstract store calls below a value is what is released with it. *)
LEMMA ViewFacts ==
  ASSUME NEW V, NEW H, NEW C, NEW R, NEW hs, Sound(V, H, C, R, hs)
  PROVE  /\ DOMAIN ViewOf(V) = Boxes(V) /\ Boxes(V) \subseteq DOMAIN V /\ NULL \notin Boxes(V)
         /\ \A c \in Boxes(V) : Store!Range(ViewOf(V)[c].items) \cap Boxes(V) = Kids(V)[c] \cap Boxes(V)
         /\ \A c \in DOMAIN V \ Boxes(V) : Kids(V)[c] = {}
<1>1. NULL \notin DOMAIN V
  BY SoundFacts
<1>2. DOMAIN ViewOf(V) = Boxes(V) /\ Boxes(V) \subseteq DOMAIN V
  BY DEF ViewOf, Boxes
<1>3. ASSUME NEW c \in Boxes(V)
      PROVE  Store!Range(ViewOf(V)[c].items) \cap Boxes(V) = Kids(V)[c] \cap Boxes(V)
  <2> DEFINE w == V[c]
  <2>1. CellOK(w) /\ Keyed(w, hs) /\ w.type \in {"Object", "Array"}
    BY DEF Sound, CellSound, Boxes
  <2>2. ViewOf(V)[c].items = ItemsOf(w)
    BY DEF ViewOf, View
  <2>3. Kids(V)[c] = KidsOf(w)
    BY <1>2 DEF Kids
  <2> HIDE DEF w
  <2>4. {ItemsOf(w)[i] : i \in DOMAIN ItemsOf(w)} \ {NULL} = KidsOf(w)
    BY <2>1, ItemsAre
  <2>5. Store!Range(ViewOf(V)[c].items) = {ItemsOf(w)[i] : i \in DOMAIN ItemsOf(w)}
    BY <2>2 DEF Store!Range
  <2>6. NULL \notin Boxes(V)
    BY <1>1, <1>2
  <2> QED
    BY <2>3, <2>4, <2>5, <2>6
<1>4. ASSUME NEW c \in DOMAIN V \ Boxes(V) PROVE Kids(V)[c] = {}
  <2>1. V[c].type \notin {"Object", "Array"}
    BY DEF Boxes
  <2>2. KidsOf(V[c]) = {}
    BY <2>1 DEF KidsOf
  <2> QED
    BY <2>2 DEF Kids
<1> QED
  BY <1>1, <1>2, <1>3, <1>4

(* Below, the least closed set of the abstract store, is what can be reached. *)
LEMMA BelowIs ==
  ASSUME NEW V, NEW H, NEW C, NEW R, NEW hs, Sound(V, H, C, R, hs), NEW v, v = NULL \/ v \in DOMAIN V
  PROVE  Store!Below(ViewOf(V), v) = GoneOf(V, v) \cap Boxes(V)
<1> DEFINE D == DOMAIN V
           k == Kids(V)
           s == ViewOf(V)
           B == Boxes(V)
<1>1. /\ DOMAIN s = B /\ B \subseteq D /\ NULL \notin B
      /\ \A c \in B : Store!Range(s[c].items) \cap B = k[c] \cap B
      /\ \A c \in D \ B : k[c] = {}
  BY ViewFacts
<1>2. ClosedUnder(k, D)
  BY SoundFacts
<1>3. Store!Below(s, v) = {c \in B : \A T \in SUBSET B : Store!Closed(s, v, T) => c \in T}
  BY <1>1 DEF Store!Below
<1>4. GoneOf(V, v) = IF v = NULL THEN {} ELSE Reach(D, k, v)
  BY DEF GoneOf, Taken
<1> HIDE DEF D, k, s, B
<1>5. ASSUME NEW T \in SUBSET B
      PROVE  Store!Closed(s, v, T) <=> /\ v \in B => v \in T
                                       /\ \A c \in T : k[c] \cap B \subseteq T
  BY <1>1 DEF Store!Closed
<1>6. CASE v = NULL
  <2>1. Store!Closed(s, v, {})
    BY <1>1, <1>5, <1>6
  <2> QED
    BY <1>3, <1>4, <1>6, <2>1 DEF s, B
<1>7. CASE v # NULL
  <2> DEFINE G == Reach(D, k, v)
  <2>1. v \in D
    BY <1>7 DEF D
  <2>2. G \subseteq D /\ v \in G /\ ClosedUnder(k, G)
    BY <1>2, <2>1, ReachIs DEF Within
  <2>3. ASSUME NEW c \in Store!Below(s, v) PROVE c \in G /\ c \in B
    <3>1. Store!Closed(s, v, G \cap B)
      BY <1>5, <2>2 DEF ClosedUnder
    <3> QED
      BY <1>3, <2>3, <3>1
  <2>4. ASSUME NEW c \in G \cap B PROVE c \in Store!Below(s, v)
    <3>1. ASSUME NEW T \in SUBSET B, Store!Closed(s, v, T) PROVE c \in T
      <4> DEFINE U == T \cup (D \ B)
      <4>1. (v \in B => v \in T) /\ \A x \in T : k[x] \cap B \subseteq T
        BY <1>5, <3>1
      <4>2. U \subseteq D /\ v \in U
        BY <1>1, <2>1, <4>1
      <4>3. ClosedUnder(k, U)
        <5>1. ASSUME NEW x \in T PROVE k[x] \subseteq U
          BY <1>1, <1>2, <4>1 DEF ClosedUnder
        <5> QED
          BY <1>1, <5>1 DEF ClosedUnder
      <4>4. G \subseteq U
        BY <4>2, <4>3, ReachLeast DEF Within
      <4> QED
        BY <4>4
    <3> QED
      BY <1>3, <3>1
  <2>5. Store!Below(s, v) = G \cap B
    BY <2>3, <2>4
  <2> QED
    BY <1>4, <1>7, <2>5 DEF s, B
<1> QED
  BY <1>6, <1>7

-----------------------------------------------------------------------------
(* cjsonObject_Set, as the abstract store sees it. *)

(* The object x is w with v at k: only the entry at place i of bucket h differs. *)
EntryPut(x, w, h, i, k, v) ==
  /\ h \in 0 .. BucketCount - 1 /\ i \in 1 .. Len(x.buckets[h])
  /\ x.buckets[h][i].key = k /\ x.buckets[h][i].lpValue = v
  /\ \A g \in 0 .. BucketCount - 1 :
       /\ \A j \in 1 .. Len(x.buckets[g]) :
            \/ g = h /\ j = i
            \/ j \in 1 .. Len(w.buckets[g]) /\ x.buckets[g][j] = w.buckets[g][j]
       /\ \A j \in 1 .. Len(w.buckets[g]) :
            w.buckets[g][j].key # k =>
              j \in 1 .. Len(x.buckets[g]) /\ x.buckets[g][j] = w.buckets[g][j]

MembersWith(f, k, v) == [j \in DOMAIN f \cup {k} |-> IF j = k THEN v ELSE f[j]]

(* Then the member k is v, and the others are what they were. *)
LEMMA MembersPut ==
  ASSUME NEW w \in ObjectCell, NEW x \in ObjectCell, NEW hs, Keyed(w, hs), Keyed(x, hs),
         NEW h, NEW i, NEW k, NEW v, EntryPut(x, w, h, i, k, v)
  PROVE  MembersOf(x) = MembersWith(MembersOf(w), k, v)
<1> DEFINE f == MembersOf(w)
           m == MembersOf(x)
<1>1. /\ \A l : l \in DOMAIN f <=>
               \E g \in 0 .. BucketCount - 1 : \E j \in 1 .. Len(w.buckets[g]) : l = w.buckets[g][j].key
      /\ \A g \in 0 .. BucketCount - 1 : \A j \in 1 .. Len(w.buckets[g]) :
               f[w.buckets[g][j].key] = w.buckets[g][j].lpValue
  BY MembersAre
<1>2. /\ \A l : l \in DOMAIN m <=>
               \E g \in 0 .. BucketCount - 1 : \E j \in 1 .. Len(x.buckets[g]) : l = x.buckets[g][j].key
      /\ \A g \in 0 .. BucketCount - 1 : \A j \in 1 .. Len(x.buckets[g]) :
               m[x.buckets[g][j].key] = x.buckets[g][j].lpValue
  BY MembersAre
<1>3. m = [l \in DOMAIN m |-> m[l]]
  BY DEF MembersOf
<1> HIDE DEF f, m
<1>4. ASSUME NEW l \in DOMAIN m PROVE l \in DOMAIN f \cup {k}
  <2>1. PICK g \in 0 .. BucketCount - 1 : \E j \in 1 .. Len(x.buckets[g]) : l = x.buckets[g][j].key
    BY <1>2
  <2>2. PICK j \in 1 .. Len(x.buckets[g]) : l = x.buckets[g][j].key
    BY <2>1
  <2>3. (g = h /\ j = i) \/ (j \in 1 .. Len(w.buckets[g]) /\ x.buckets[g][j] = w.buckets[g][j])
    BY DEF EntryPut
  <2> QED
    BY <1>1, <2>2, <2>3 DEF EntryPut
<1>5. k \in DOMAIN m /\ m[k] = v
  <2>1. h \in 0 .. BucketCount - 1 /\ i \in 1 .. Len(x.buckets[h])
    BY DEF EntryPut
  <2>2. x.buckets[h][i].key = k /\ x.buckets[h][i].lpValue = v
    BY DEF EntryPut
  <2> QED
    BY <1>2, <2>1, <2>2
<1>6. ASSUME NEW l \in DOMAIN f, l # k PROVE l \in DOMAIN m /\ m[l] = f[l]
  <2>1. PICK g \in 0 .. BucketCount - 1 : \E j \in 1 .. Len(w.buckets[g]) : l = w.buckets[g][j].key
    BY <1>1
  <2>2. PICK j \in 1 .. Len(w.buckets[g]) : l = w.buckets[g][j].key
    BY <2>1
  <2>3. j \in 1 .. Len(x.buckets[g]) /\ x.buckets[g][j] = w.buckets[g][j]
    BY <1>6, <2>2 DEF EntryPut
  <2>4. m[l] = x.buckets[g][j].lpValue /\ f[l] = w.buckets[g][j].lpValue /\ l = x.buckets[g][j].key
    BY <1>1, <1>2, <2>2, <2>3
  <2> QED
    BY <1>2, <2>3, <2>4
<1>7. DOMAIN m = DOMAIN f \cup {k}
  BY <1>4, <1>5, <1>6
<1>8. \A j \in DOMAIN f \cup {k} : m[j] = IF j = k THEN v ELSE f[j]
  BY <1>5, <1>6
<1>9. m = [j \in DOMAIN f \cup {k} |-> IF j = k THEN v ELSE f[j]]
  BY <1>3, <1>7, <1>8
<1>10. m = MembersWith(f, k, v)
  BY <1>9 DEF MembersWith
<1> QED
  BY <1>10 DEF f, m

(* cjsonObject_Set at a new key puts an entry. *)
LEMMA AppendPuts ==
  ASSUME NEW w \in ObjectCell, NEW h \in 0 .. BucketCount - 1, NEW k \in Key, NEW v \in Block,
         NEW x, x = WithBucket(w, h, Append(w.buckets[h], [key |-> k, lpValue |-> v]))
  PROVE  x \in ObjectCell /\ EntryPut(x, w, h, Len(w.buckets[h]) + 1, k, v)
<1> DEFINE e     == [key |-> k, lpValue |-> v]
           old   == w.buckets[h]
           chain == Append(old, e)
           n     == Len(old)
<1>1. e \in Entry /\ e.key = k /\ e.lpValue = v
  BY DEF Entry
<1>2. old \in Seq(Entry)
  BY DEF ObjectCell
<1>3. x = WithBucket(w, h, chain)
  OBVIOUS
<1>6. old = w.buckets[h]
  OBVIOUS
<1> HIDE DEF e, old
<1>4. /\ chain \in Seq(Entry) /\ Len(chain) = n + 1 /\ n \in Nat
      /\ chain[n + 1] = e /\ \A j \in 1 .. n : chain[j] = old[j]
  BY <1>1, <1>2, AppendProperties, LenProperties
<1> HIDE DEF chain
<1>5. /\ x \in ObjectCell
      /\ \A g \in 0 .. BucketCount - 1 : x.buckets[g] = IF g = h THEN chain ELSE w.buckets[g]
  BY <1>3, <1>4, NewBucket
<1> HIDE DEF n
<1>7. /\ n + 1 \in 1 .. Len(x.buckets[h]) /\ x.buckets[h][n + 1].key = k
      /\ x.buckets[h][n + 1].lpValue = v
  BY <1>1, <1>4, <1>5
<1>8. ASSUME NEW g \in 0 .. BucketCount - 1
      PROVE  /\ \A j \in 1 .. Len(x.buckets[g]) :
                  \/ g = h /\ j = n + 1
                  \/ j \in 1 .. Len(w.buckets[g]) /\ x.buckets[g][j] = w.buckets[g][j]
             /\ \A j \in 1 .. Len(w.buckets[g]) :
                  j \in 1 .. Len(x.buckets[g]) /\ x.buckets[g][j] = w.buckets[g][j]
  <2>1. CASE g = h
    <3>1. x.buckets[g] = chain /\ w.buckets[g] = old /\ Len(old) = n
      BY <1>5, <1>6, <2>1 DEF n
    <3>2. \A j \in 1 .. Len(chain) : j = n + 1 \/ (j \in 1 .. n /\ chain[j] = old[j])
      BY <1>4
    <3>3. \A j \in 1 .. n : j \in 1 .. Len(chain) /\ chain[j] = old[j]
      BY <1>4
    <3> QED
      BY <2>1, <3>1, <3>2, <3>3
  <2>2. CASE g # h
    <3>1. x.buckets[g] = w.buckets[g]
      BY <1>5, <2>2
    <3> QED
      BY <3>1
  <2> QED
    BY <2>1, <2>2
<1>9. EntryPut(x, w, h, n + 1, k, v)
  BY <1>7, <1>8 DEF EntryPut
<1> QED
  BY <1>5, <1>6, <1>9 DEF n

(* cjsonObject_Set at a key the object has puts an entry. *)
LEMMA ReplacePuts ==
  ASSUME NEW w \in ObjectCell, NEW h \in 0 .. BucketCount - 1, NEW i \in 1 .. Len(w.buckets[h]),
         NEW k, k = w.buckets[h][i].key, NEW v \in Block,
         NEW x, x = WithBucket(w, h, [w.buckets[h] EXCEPT ![i].lpValue = v])
  PROVE  x \in ObjectCell /\ EntryPut(x, w, h, i, k, v)
<1> DEFINE old   == w.buckets[h]
           e     == [old[i] EXCEPT !.lpValue = v]
           chain == [old EXCEPT ![i] = e]
           n     == Len(old)
<1>1. e \in Entry /\ e.key = k /\ e.lpValue = v
  <2>1. old[i] \in Entry
    BY EntryFacts
  <2>2. old[i].key = k
    OBVIOUS
  <2> HIDE DEF old
  <2> QED
    BY <2>1, <2>2 DEF Entry
<1>2. old \in Seq(Entry) /\ i \in 1 .. Len(old)
  BY DEF ObjectCell
<1>3. x = WithBucket(w, h, chain)
  OBVIOUS
<1>6. old = w.buckets[h]
  OBVIOUS
<1> HIDE DEF e, old
<1>4. /\ chain \in Seq(Entry) /\ Len(chain) = n
      /\ \A j \in 1 .. n : chain[j] = IF j = i THEN e ELSE old[j]
  BY <1>1, <1>2, ExceptSeq
<1> HIDE DEF chain
<1>5. /\ x \in ObjectCell
      /\ \A g \in 0 .. BucketCount - 1 : x.buckets[g] = IF g = h THEN chain ELSE w.buckets[g]
  <2>1. chain \in Seq(Entry)
    BY <1>4
  <2>2. WithBucket(w, h, chain) \in ObjectCell
    BY <2>1, NewBucket
  <2>3. \A g \in 0 .. BucketCount - 1 :
          WithBucket(w, h, chain).buckets[g] = IF g = h THEN chain ELSE w.buckets[g]
    BY <2>1, NewBucket
  <2> QED
    BY <1>3, <2>2, <2>3
<1>7. i \in 1 .. Len(x.buckets[h]) /\ x.buckets[h][i].key = k /\ x.buckets[h][i].lpValue = v
  BY <1>1, <1>2, <1>4, <1>5
<1> HIDE DEF n
<1>8. ASSUME NEW g \in 0 .. BucketCount - 1
      PROVE  /\ \A j \in 1 .. Len(x.buckets[g]) :
                  \/ g = h /\ j = i
                  \/ j \in 1 .. Len(w.buckets[g]) /\ x.buckets[g][j] = w.buckets[g][j]
             /\ \A j \in 1 .. Len(w.buckets[g]) :
                  w.buckets[g][j].key # k =>
                    j \in 1 .. Len(x.buckets[g]) /\ x.buckets[g][j] = w.buckets[g][j]
  <2>1. CASE g = h
    <3>1. x.buckets[g] = chain /\ w.buckets[g] = old /\ Len(old) = n /\ old[i].key = k
      BY <1>5, <1>6, <2>1 DEF n
    <3> QED
      BY <1>4, <2>1, <3>1
  <2>2. CASE g # h
    <3>1. x.buckets[g] = w.buckets[g]
      BY <1>5, <2>2
    <3> QED
      BY <3>1
  <2> QED
    BY <2>1, <2>2
<1>9. EntryPut(x, w, h, i, k, v)
  BY <1>7, <1>8 DEF EntryPut
<1> QED
  BY <1>5, <1>9

(* A change of one container, as the abstract store sees it. *)
LEMMA StoreChange ==
  ASSUME IInv, NEW c, NEW u, NEW v, NEW n, NEW x, NEW G, Exchanges(c, u, v, n, x, G),
         x.type = values[c].type, x.type \in {"Object", "Array"}
  PROVE  Store!Change(Content, Content', c, ItemsOf(x), u)
<1> DEFINE V == values
           W == values'
           s == ViewOf(V)
           t == ViewOf(W)
<1>1. /\ Content = s /\ Content' = t
  BY ContentIs, NextContent
<1>2. c \in DOMAIN V /\ (u = NULL \/ u \in KidsOf(V[c])) /\ G = Subtree(u)
  BY DEF Exchanges, Exchangeable
<1>3. /\ DOMAIN W = DOMAIN V \ G /\ W[c] = x
      /\ \A d \in DOMAIN W \ {c} : W[d] = V[d]
  BY DEF Exchanges, Exchanged, Change
<1>4. Sound(V, heap, cells, owned, hash)
  BY DEF IInv
<1>5. u = NULL \/ u \in DOMAIN V
  <2>1. KidsOf(V[c]) \subseteq DOMAIN V
    BY <1>2, <1>4, SoundFacts DEF ClosedUnder
  <2> QED
    BY <1>2, <2>1
<1>6. G = GoneOf(V, u)
  BY <1>2, <1>4, <1>5, GoneIs
<1>7. c \notin G
  BY <1>2, GoneBelow
<1>8. Store!Below(s, u) = G \cap Boxes(V)
  BY <1>4, <1>5, <1>6, BelowIs
<1>9. V[c].type = x.type
  OBVIOUS
<1> HIDE DEF V, W
<1>10. Boxes(W) = Boxes(V) \ G /\ c \in Boxes(W) /\ c \in Boxes(V)
  BY <1>2, <1>3, <1>7, <1>9 DEF Boxes
<1>11. DOMAIN s = Boxes(V) /\ DOMAIN t = Boxes(W)
  BY DEF ViewOf
<1>12. s[c] = View(V[c]) /\ t[c] = View(x)
  BY <1>3, <1>10 DEF ViewOf
<1>13. t[c] = [s[c] EXCEPT !.items = ItemsOf(x)]
  BY <1>9, <1>12 DEF View
<1>14. \A d \in DOMAIN t \ {c} : t[d] = s[d]
  <2>1. ASSUME NEW d \in Boxes(W) \ {c} PROVE t[d] = s[d]
    <3>1. d \in Boxes(V) /\ W[d] = V[d]
      BY <1>3, <1>10 DEF Boxes
    <3> QED
      BY <3>1 DEF ViewOf
  <2> QED
    BY <1>11, <2>1
<1>15. DOMAIN t = DOMAIN s \ Store!Below(s, u)
  BY <1>8, <1>10, <1>11
<1>16. c \in DOMAIN t
  BY <1>10, <1>11
<1> HIDE DEF s, t
<1>17. Store!Change(s, t, c, ItemsOf(x), u)
  BY <1>13, <1>14, <1>15, <1>16 DEF Store!Change
<1> QED
  BY <1>1, <1>17

-----------------------------------------------------------------------------
(* Every call, as the abstract store sees it. *)

(* What the abstract store sees of one container. *)
LEMMA ViewAt ==
  ASSUME NEW c \in Objects \cup Arrays
  PROVE  /\ c \in DOMAIN Content /\ Content[c].kind = values[c].type
         /\ Content[c].items = ItemsOf(values[c])
<1>1. c \in Boxes(values)
  BY DEF Objects, Arrays, Containers, Boxes
<1>2. Content = ViewOf(values)
  BY ContentIs
<1> QED
  BY <1>1, <1>2 DEF ViewOf, View

(* A step that changes nothing. *)
LEMMA StoreStutter == UNCHANGED vars => Content' = Content
BY DEF vars, Content, Objects, Arrays, Containers, Members, Chains, Slots

(* cjsonArray_Push is the Push of the abstract store. *)
LEMMA PushStores ==
  ASSUME IInv, NEW a \in Arrays, NEW v \in Storable(a), cjsonArray_Push(a, v)
  PROVE  Store!Next \/ Content' = Content
<1>1. CASE UNCHANGED vars
  BY <1>1, StoreStutter
<1>2. ASSUME NEW n, NEW x, Exchanges(a, NULL, v, n, x, {}), Longer(x, values[a], v, n, hash)
      PROVE  Store!Next
  <2> DEFINE s == Content
             t == Content'
             w == values[a]
  <2>1. w.type = "Array" /\ a \in Objects \cup Arrays
    BY ArrayIs
  <2>2. a \in DOMAIN s /\ s[a].kind = "Array" /\ s[a].items = SlotsOf(w)
    BY <2>1, ViewAt DEF ItemsOf
  <2>3. x.type = w.type /\ x.type \in {"Object", "Array"} /\ ItemsOf(x) = Append(SlotsOf(w), v)
    BY <1>2, <2>1 DEF Longer, ItemsOf
  <2>4. Store!Change(s, t, a, ItemsOf(x), NULL)
    BY <1>2, <2>3, StoreChange
  <2>5. v \in Block
    BY ArrayIs, StorableBlock
  <2> HIDE DEF s, t, w
  <2>6. Store!Push(s, t, a, v)
    BY <2>2, <2>3, <2>4 DEF Store!Push
  <2>7. Store!Step(s, t)
    BY <2>2, <2>5, <2>6 DEF Store!Step
  <2> QED
    BY <2>7 DEF Store!Next, s, t
<1> QED
  BY <1>1, <1>2, PushIs

(* cjsonArray_Set is its Replace. *)
LEMMA ArraySetStores ==
  ASSUME IInv, NEW a \in Arrays, NEW idx \in Nat, NEW v \in Storable(a) \cup {NULL},
         cjsonArray_Set(a, idx, v)
  PROVE  Store!Next \/ Content' = Content
<1>1. CASE UNCHANGED vars
  BY <1>1, StoreStutter
<1>2. ASSUME NEW u, NEW x, NEW G, Exchanges(a, u, v, 0, x, G), SlotSwap(a, idx, u, v, x)
      PROVE  Store!Next
  <2> DEFINE s == Content
             t == Content'
             w == values[a]
  <2>1. w.type = "Array" /\ a \in Objects \cup Arrays /\ CellOK(w) /\ a \in DOMAIN values
    BY ArrayIs
  <2>2. a \in DOMAIN s /\ s[a].kind = "Array" /\ s[a].items = SlotsOf(w)
    BY <2>1, ViewAt DEF ItemsOf
  <2>3. x.type = w.type /\ x.type \in {"Object", "Array"}
    <3>1. x.type = "Array"
      BY <1>2, <2>1 DEF SlotSwap, Fits
    <3> QED
      BY <2>1, <3>1
  <2>4. Store!Change(s, t, a, ItemsOf(x), u)
    BY <1>2, <2>3, StoreChange
  <2>5. v \in Block \cup {NULL}
    BY <2>1, StorableBlock
  <2>6. Slots(a) = SlotsOf(w) /\ DOMAIN SlotsOf(w) = 1 .. Len(SlotsOf(w))
    BY <2>1, ViewedByRecord, ArrayFacts
  <2>7. /\ idx + 1 \in DOMAIN s[a].items /\ s[a].items[idx + 1] = u
        /\ ItemsOf(x) = [s[a].items EXCEPT ![idx + 1] = v]
    BY <1>2, <2>1, <2>2, <2>3, <2>6 DEF SlotSwap, ItemsOf
  <2> HIDE DEF s, t, w
  <2>8. Store!Replace(s, t, a, idx + 1, v)
    BY <2>2, <2>4, <2>7 DEF Store!Replace
  <2>9. Store!Step(s, t)
    BY <2>2, <2>5, <2>7, <2>8 DEF Store!Step
  <2> QED
    BY <2>9 DEF Store!Next, s, t
<1> QED
  BY <1>1, <1>2, ArraySetIs

(* A member of the abstract store is set. *)
LEMMA PutStores ==
  ASSUME IInv, NEW o \in Objects, NEW k \in Key, NEW v \in Block, NEW u, NEW n, NEW x, NEW G,
         Exchanges(o, u, v, n, x, G), x \in ObjectCell, NEW h, NEW i,
         EntryPut(x, values[o], h, i, k, v),
         u = IF k \in DOMAIN MembersOf(values[o]) THEN MembersOf(values[o])[k] ELSE NULL
  PROVE  Store!Next
<1> DEFINE s == Content
           t == Content'
           w == values[o]
<1>1. /\ w.type = "Object" /\ o \in Objects \cup Arrays /\ w \in ObjectCell
      /\ Keyed(w, hash)
  BY ObjectIs
<1>2. o \in DOMAIN s /\ s[o].kind = "Object" /\ s[o].items = MembersOf(w)
  BY <1>1, ViewAt DEF ItemsOf
<1>3. x.type = w.type /\ x.type \in {"Object", "Array"} /\ ItemsOf(x) = MembersOf(x)
  BY <1>1 DEF ObjectCell, ItemsOf
<1>4. Store!Change(s, t, o, ItemsOf(x), u)
  BY <1>3, StoreChange
<1>5. Keyed(x, hash)
  BY DEF Exchanges, Exchangeable, Fits
<1>6. MembersOf(x) = MembersWith(MembersOf(w), k, v)
  <2>1. EntryPut(x, w, h, i, k, v) /\ w \in ObjectCell /\ Keyed(w, hash)
    BY <1>1
  <2> HIDE DEF w
  <2> QED
    BY <2>1, <1>5, MembersPut
<1>7. u = IF k \in DOMAIN s[o].items THEN s[o].items[k] ELSE NULL
  BY <1>2
<1>8. ItemsOf(x) = [j \in DOMAIN s[o].items \cup {k} |-> IF j = k THEN v ELSE s[o].items[j]]
  <2>1. ItemsOf(x) = MembersWith(s[o].items, k, v)
    BY <1>2, <1>3, <1>6
  <2> QED
    BY <2>1 DEF MembersWith
<1> HIDE DEF s, t, w
<1>9. Store!Put(s, t, o, k, v)
  BY <1>2, <1>4, <1>7, <1>8 DEF Store!Put
<1>10. Store!Step(s, t)
  BY <1>2, <1>9 DEF Store!Step
<1> QED
  BY <1>10 DEF Store!Next, s, t

(* cjsonObject_Set is its Put. *)
LEMMA ObjectSetStores ==
  ASSUME IInv, NEW o \in Objects, NEW k \in Key, NEW v \in Storable(o), cjsonObject_Set(o, k, v)
  PROVE  Store!Next \/ Content' = Content
<1> DEFINE chain == Bucket(o, k)
           i == Found(chain, k)
           G == Subtree(chain[i].lpValue)
           w == values[o]
           h == hash[k]
<1>0. /\ o \in DOMAIN values /\ w \in ObjectCell /\ w.type = "Object"
      /\ h \in 0 .. BucketCount - 1 /\ Bucket(o, k) = w.buckets[h]
      /\ Bucket(o, k) \in Seq(Entry) /\ Keyed(w, hash) /\ v \in Block
  BY BucketIs, StorableBlock
<1>1. CASE /\ FreeCells > 0 /\ i = 0
           /\ values' = SetBucket(o, k, Append(chain, [key |-> k, lpValue |-> v]))
           /\ cells' = Plus(values[o].lpSystem, 1)
           /\ owned' = owned \ {v} /\ Ok /\ UNCHANGED <<heap, misfreed>>
  <2> DEFINE x == WithBucket(values[o], hash[k], Append(chain, [key |-> k, lpValue |-> v]))
  <2>1. Exchanges(o, NULL, v, 1, x, {})
    BY <1>1, MemberAdded
  <2>2. x = WithBucket(w, h, Append(w.buckets[h], [key |-> k, lpValue |-> v]))
    BY <1>0
  <2>3. \A j \in 1 .. Len(w.buckets[h]) : w.buckets[h][j].key # k
    BY <1>0, <1>1, FoundIs
  <2>6. h = hash[k]
    OBVIOUS
  <2> HIDE DEF x, h
  <2>4. x \in ObjectCell /\ EntryPut(x, w, h, Len(w.buckets[h]) + 1, k, v)
    BY <1>0, <2>2, AppendPuts
  <2>5. k \notin DOMAIN MembersOf(w)
    <3> SUFFICES ASSUME k \in DOMAIN MembersOf(w) PROVE FALSE
      OBVIOUS
    <3>1. PICK g \in 0 .. BucketCount - 1 : \E j \in 1 .. Len(w.buckets[g]) : k = w.buckets[g][j].key
      BY <1>0, MembersAre
    <3>2. PICK j \in 1 .. Len(w.buckets[g]) : k = w.buckets[g][j].key
      BY <3>1
    <3>3. g = h
      BY <1>0, <2>6, <3>2 DEF Keyed
    <3> QED
      BY <2>3, <3>2, <3>3
  <2> QED
    BY <1>0, <2>1, <2>4, <2>5, PutStores
<1>2. CASE /\ FreeCells > 0 /\ i # 0
           /\ values' = Without(SetBucket(o, k, [chain EXCEPT ![i].lpValue = v]), G)
           /\ heap' = Replaced(G) /\ cells' = CellsWithout(G)
           /\ misfreed' = misfreed \cup Misfreed(G)
           /\ owned' = owned \ {v} /\ Ok
  <2> DEFINE u == chain[i].lpValue
             x == WithBucket(values[o], hash[k], [chain EXCEPT ![i].lpValue = v])
  <2>1. Exchanges(o, u, v, 0, x, G)
    BY <1>2, MemberReplaced
  <2>2. x = WithBucket(w, h, [w.buckets[h] EXCEPT ![i].lpValue = v])
    BY <1>0
  <2>3. i \in 1 .. Len(w.buckets[h]) /\ k = w.buckets[h][i].key
    BY <1>0, <1>2, FoundIs
  <2>6. u = w.buckets[h][i].lpValue
    BY <1>0
  <2> HIDE DEF x, h, i, u, G
  <2>4. x \in ObjectCell /\ EntryPut(x, w, h, i, k, v)
    BY <1>0, <2>2, <2>3, ReplacePuts
  <2>5. k \in DOMAIN MembersOf(w) /\ MembersOf(w)[k] = u
    BY <1>0, <2>3, <2>6, MembersAre
  <2> QED
    BY <1>0, <2>1, <2>4, <2>5, PutStores
<1>3. CASE Refuse("OutOfMemory")
  BY <1>3, StoreStutter DEF Refuse
<1> QED
  BY <1>1, <1>2, <1>3 DEF cjsonObject_Set

(* cjsonObject_Set without an object ends the process. *)
LEMMA SetNullStores ==
  ASSUME NEW o, NEW k, cjsonObject_SetNull(o, k)
  PROVE  Store!Next \/ Content' = Content
<1>1. CASE UNCHANGED vars
  BY <1>1, StoreStutter
<1>2. CASE values' = <<>>
  <2>1. Content' = <<>>
    BY <1>2, NextContent, EmptyView
  <2> DEFINE s == Content
             t == Content'
  <2>2. t = <<>>
    BY <2>1
  <2> HIDE DEF s, t
  <2>3. Store!Step(s, t)
    BY <2>2 DEF Store!Step
  <2> QED
    BY <2>3 DEF Store!Next, s, t
<1> QED
  BY <1>1, <1>2 DEF cjsonObject_SetNull

(* Values that differ in their scalars only look the same. *)
LEMMA SameView ==
  ASSUME NEW V, NEW W, Boxes(W) = Boxes(V), \A c \in Boxes(V) : W[c] = V[c]
  PROVE  ViewOf(W) = ViewOf(V)
BY DEF ViewOf

(* A new container is empty. *)
LEMMA NewItems ==
  ASSUME NEW s \in System
  PROVE  /\ MembersOf(NewObject(s)) = <<>> /\ SlotsOf(NewArray) = <<>>
         /\ NewObject(s).type = "Object" /\ NewArray.type = "Array"
<1> DEFINE w == NewObject(s)
<1>1. CellOK(w) /\ KidsOf(w) = {} /\ w.type = "Object"
  BY NewObjectIs
<1> HIDE DEF w
<1>2. KidsOf(w) = {e.lpValue : e \in ToSet(ChainsOf(w))}
  BY <1>1 DEF KidsOf
<1>3. ToSet(ChainsOf(w)) = {}
  <2>1. SUFFICES ASSUME NEW e \in ToSet(ChainsOf(w)) PROVE FALSE
    OBVIOUS
  <2>2. e.lpValue \in KidsOf(w)
    BY <1>2, <2>1
  <2> QED
    BY <1>1, <2>2
<1>4. {e.key : e \in ToSet(ChainsOf(w))} = {}
  BY <1>3
<1>5. MembersOf(w) = <<>>
  <2> DEFINE f == MembersOf(w)
  <2>1. DOMAIN f = {} /\ f = [k \in DOMAIN f |-> f[k]]
    BY <1>4 DEF MembersOf
  <2> HIDE DEF f
  <2>2. <<>> = [k \in DOMAIN <<>> |-> <<>>[k]] /\ DOMAIN <<>> = {}
    BY SMT
  <2>3. f = <<>>
    BY <2>1, <2>2
  <2> QED
    BY <2>3 DEF f
<1>6. SlotsOf(NewArray) = <<>> /\ NewArray.type = "Array"
  BY NewArrayIs
<1> QED
  BY <1>1, <1>5, <1>6 DEF w

(* The Create functions are its New, or do not concern it. *)
LEMMA BuildStores ==
  ASSUME IInv, Build
  PROVE  Store!Next \/ Content' = Content
<1>1. PICK c \in Created : Create(NewValue(c[1], c[2]), c[2])
  BY DEF Build
<1>2. c[1] \in Scalar \cup {"Object", "Array"} /\ c[2] \in System
  BY ValuesAssumption
<1> DEFINE x == NewValue(c[1], c[2])
<1>3. CASE Refuse("OutOfMemory")
  BY <1>3, StoreStutter DEF Refuse
<1>4. ASSUME NEW b \in Free, values' = With(values, b, x)
      PROVE  Store!Next \/ Content' = Content
  <2> DEFINE V == values
             W == values'
             s == Content
             t == Content'
  <2>1. b \in Block /\ b \notin DOMAIN V
    BY DEF IInv, Sound, Free
  <2>2. DOMAIN W = DOMAIN V \cup {b} /\ W[b] = x /\ \A d \in DOMAIN V : W[d] = V[d]
    BY <1>4, <2>1 DEF With
  <2>3. s = ViewOf(V) /\ t = ViewOf(W)
    BY ContentIs, NextContent
  <2>4. x.type = c[1] /\ (x.type \in {"Object", "Array"} => ItemsOf(x) = <<>>)
    <3>1. CASE c[1] = "Object"
      <4>1. x = NewObject(c[2])
        BY <3>1 DEF NewValue
      <4> QED
        BY <1>2, <3>1, <4>1, NewItems DEF ItemsOf
    <3>2. CASE c[1] = "Array"
      <4>1. x = NewArray
        BY <3>2 DEF NewValue
      <4>2. SlotsOf(NewArray) = <<>> /\ NewArray.type = "Array"
        BY NewArrayIs
      <4> QED
        BY <3>2, <4>1, <4>2 DEF ItemsOf
    <3>3. CASE c[1] \notin {"Object", "Array"}
      <4>1. x = NewScalar(c[1], c[2])
        BY <3>3 DEF NewValue
      <4>2. x.type = c[1]
        BY <4>1 DEF NewScalar
      <4> QED
        BY <3>3, <4>2
    <3> QED
      BY <3>1, <3>2, <3>3
  <2> HIDE DEF V, W, s, t, x
  <2>5. Boxes(W) = IF x.type \in {"Object", "Array"} THEN Boxes(V) \cup {b} ELSE Boxes(V)
    BY <2>1, <2>2 DEF Boxes
  <2>6. \A d \in Boxes(V) : W[d] = V[d] /\ d # b
    BY <2>1, <2>2 DEF Boxes
  <2>7. CASE x.type \in {"Object", "Array"}
    <3>1. DOMAIN t = DOMAIN s \cup {b} /\ b \notin DOMAIN s
      BY <2>3, <2>5, <2>6, <2>7 DEF ViewOf
    <3>2. t[b] = [kind |-> x.type, items |-> <<>>]
      BY <2>2, <2>3, <2>4, <2>5, <2>7 DEF ViewOf, View
    <3>3. \A d \in DOMAIN s : t[d] = s[d]
      BY <2>3, <2>5, <2>6, <2>7 DEF ViewOf
    <3>4. Store!New(s, t, b, x.type)
      BY <3>1, <3>2, <3>3 DEF Store!New
    <3>5. Store!Step(s, t)
      BY <2>1, <2>7, <3>1, <3>4 DEF Store!Step
    <3> QED
      BY <3>5 DEF Store!Next, s, t
  <2>8. CASE x.type \notin {"Object", "Array"}
    <3>1. Boxes(W) = Boxes(V) /\ \A d \in Boxes(V) : W[d] = V[d]
      BY <2>5, <2>6, <2>8
    <3>2. t = s
      BY <2>3, <3>1, SameView
    <3> QED
      BY <3>2 DEF s, t
  <2> QED
    BY <2>7, <2>8
<1> QED
  BY <1>1, <1>3, <1>4 DEF Create

(* cjsonReleaseValue is its Drop. *)
LEMMA ReleaseStores ==
  ASSUME IInv, Release
  PROVE  Store!Next
<1>1. PICK v \in owned : cjsonReleaseValue(v)
  BY DEF Release
<1> DEFINE V == values
           W == values'
           s == Content
           t == Content'
           G == Subtree(v)
<1>2. Sound(V, heap, cells, owned, hash)
  BY DEF IInv
<1>3. v \in DOMAIN V /\ DOMAIN V \subseteq Block
  BY <1>2, SoundFacts
<1>4. G = GoneOf(V, v)
  BY <1>2, <1>3, GoneIs
<1>5. s = ViewOf(V) /\ t = ViewOf(W)
  BY ContentIs, NextContent
<1>6. Store!Below(s, v) = G \cap Boxes(V)
  BY <1>2, <1>3, <1>4, <1>5, BelowIs
<1>7. DOMAIN W = DOMAIN V \ G /\ \A d \in DOMAIN W : W[d] = V[d]
  BY <1>1 DEF cjsonReleaseValue, Without
<1> HIDE DEF V, W, s, t, G
<1>8. Boxes(W) = Boxes(V) \ G
  BY <1>7 DEF Boxes
<1>9. DOMAIN t = DOMAIN s \ Store!Below(s, v)
  BY <1>5, <1>6, <1>8 DEF ViewOf
<1>10. \A d \in DOMAIN t : t[d] = s[d]
  <2>1. ASSUME NEW d \in Boxes(W) PROVE ViewOf(W)[d] = ViewOf(V)[d]
    <3>1. d \in Boxes(V) /\ W[d] = V[d]
      BY <1>7, <1>8 DEF Boxes
    <3> QED
      BY <3>1 DEF ViewOf
  <2>2. DOMAIN t = Boxes(W)
    BY <1>5 DEF ViewOf
  <2> QED
    BY <1>5, <2>1, <2>2
<1>11. Store!Drop(s, t, v)
  BY <1>9, <1>10 DEF Store!Drop
<1>12. Store!Step(s, t)
  BY <1>3, <1>11 DEF Store!Step
<1> QED
  BY <1>12 DEF Store!Next, s, t

(* A scalar that changes its type is not seen. *)
LEMMA RetypeStores ==
  ASSUME NEW b \in DOMAIN values, NEW t \in Scalar, values[b].type \in Scalar,
         values' = [values EXCEPT ![b].type = t], \A c \in DOMAIN values : CellOK(values[c])
  PROVE  Content' = Content
<1> DEFINE V == values
           W == values'
           x == [V[b] EXCEPT !.type = t]
<1>0. V[b] \in ScalarCell
  BY DEF CellOK, Scalar, Constant, Numeric
<1>1. x.type = t /\ t \notin {"Object", "Array"} /\ V[b].type \notin {"Object", "Array"}
  BY <1>0 DEF Scalar, Constant, Numeric, ScalarCell
<1>2. DOMAIN W = DOMAIN V /\ W[b] = x /\ \A d \in DOMAIN V \ {b} : W[d] = V[d]
  OBVIOUS
<1>3. Content = ViewOf(V) /\ Content' = ViewOf(W)
  BY ContentIs, NextContent
<1> HIDE DEF V, W, x
<1>4. Boxes(W) = Boxes(V) /\ \A d \in Boxes(V) : W[d] = V[d]
  BY <1>1, <1>2 DEF Boxes
<1> QED
  BY <1>3, <1>4, SameView

(* Nor is any other call on a scalar. *)
LEMMA UseScalarStores == IInv /\ UseScalar => Content' = Content
<1> SUFFICES ASSUME IInv, UseScalar PROVE Content' = Content
  OBVIOUS
<1>0. \A c \in DOMAIN values : CellOK(values[c])
  BY DEF IInv, Sound, CellSound
<1>1. ASSUME NEW b \in DOMAIN values, NEW t \in {"True", "False"}, cjsonBoolean_Set(b, t)
      PROVE  Content' = Content
  <2>1. CASE values[b].type \in {"True", "False"}
    <3>1. values' = [values EXCEPT ![b].type = t]
      BY <1>1, <2>1 DEF cjsonBoolean_Set
    <3>2. t \in Scalar /\ values[b].type \in Scalar
      BY <2>1 DEF Scalar, Constant
    <3> QED
      BY <1>0, <3>1, <3>2, RetypeStores
  <2>2. CASE values[b].type \notin {"True", "False"}
    BY <1>1, <2>2, StoreStutter DEF cjsonBoolean_Set, Refuse
  <2> QED
    BY <2>1, <2>2
<1>2. ASSUME NEW b \in DOMAIN values, NEW t \in Numeric, cjsonNumber_Set(b, t)
      PROVE  Content' = Content
  <2>1. CASE values[b].type \in Numeric
    <3>1. values' = [values EXCEPT ![b].type = t]
      BY <1>2, <2>1 DEF cjsonNumber_Set, IsNumeric
    <3>2. t \in Scalar /\ values[b].type \in Scalar
      BY <2>1 DEF Scalar
    <3> QED
      BY <1>0, <3>1, <3>2, RetypeStores
  <2>2. CASE values[b].type \notin Numeric
    BY <1>2, <2>2, StoreStutter DEF cjsonNumber_Set, IsNumeric, Refuse
  <2> QED
    BY <2>1, <2>2
<1> QED
  BY <1>1, <1>2 DEF UseScalar

(* A call on an array is a step of the abstract store, or none. *)
LEMMA UseArrayStores == IInv /\ UseArray => Store!Next \/ Content' = Content
<1> SUFFICES ASSUME IInv, NEW a \in Arrays,
                    \/ \E v \in Storable(a) : cjsonArray_Push(a, v)
                    \/ \E idx \in 0 .. Length(a), v \in Storable(a) \cup {NULL} : cjsonArray_Set(a, idx, v)
             PROVE  Store!Next \/ Content' = Content
  BY DEF UseArray
<1>1. CASE \E v \in Storable(a) : cjsonArray_Push(a, v)
  BY <1>1, PushStores
<1>2. CASE \E idx \in 0 .. Length(a), v \in Storable(a) \cup {NULL} : cjsonArray_Set(a, idx, v)
  <2>1. PICK idx \in 0 .. Length(a) : \E v \in Storable(a) \cup {NULL} : cjsonArray_Set(a, idx, v)
    BY <1>2
  <2>2. PICK v \in Storable(a) \cup {NULL} : cjsonArray_Set(a, idx, v)
    BY <2>1
  <2>3. idx \in Nat
    BY <2>1
  <2> QED
    BY <2>2, <2>3, ArraySetStores
<1> QED
  BY <1>1, <1>2

(* So is a call on an object. *)
LEMMA UseObjectStores == IInv /\ UseObject => Store!Next \/ Content' = Content
BY ObjectSetStores, SetNullStores DEF UseObject

(* Every step is a step of the abstract store, or none. *)
LEMMA StepStores == IInv /\ [Next]_vars => [Store!Next]_Content
<1> SUFFICES ASSUME IInv, [Next]_vars PROVE Store!Next \/ Content' = Content
  OBVIOUS
<1> QED
  BY StoreStutter, BuildStores, UseObjectStores, UseArrayStores, UseScalarStores, ReleaseStores DEF Next

(* The buckets and pages of cjsonObject.c and cjsonArray.c implement the abstract *)
(* store of ValueStore: every call is one step on maps and sequences, or changes  *)
(* nothing that they show.                                                        *)
THEOREM ContainersImplementStore == Spec => Implements
<1>1. Init => Store!Init
  BY StoreStart
<1>2. IInv /\ [Next]_vars => [Store!Next]_Content
  BY StepStores
<1> QED
  BY <1>1, <1>2, ValuesSound, PTL DEF Spec, Implements, Store!Spec
=============================================================================
