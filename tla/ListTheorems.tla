---------------------------- MODULE ListTheorems ----------------------------
(***************************************************************************)
(* What the operators on sequences that model the lists of mdepx do, for   *)
(* the proofs of all components: which entries a list has after list_init, *)
(* list_append, list_insert and list_remove, and after its first entry is  *)
(* taken, and whether an entry is on it twice.                             *)
(***************************************************************************)
EXTENDS Integers, FiniteSets, SequencesExt, SequenceTheorems,
        FiniteSetTheorems, WellFoundedInduction, TLAPS

\* Entry e is on list s; no entry is on it twice.
On(s, e) == \E i \in 1 .. Len(s) : s[i] = e
Once(s) == \A i, j \in 1 .. Len(s) : s[i] = s[j] => i = j

\* A set of numbers that is not empty has a least one.
LEMMA LeastNat ==
  ASSUME NEW T \in SUBSET Nat, T # {}
  PROVE  \E x \in T : \A y \in T : x <= y
<1> DEFINE R == {ss \in Nat \X Nat : ss[1] < ss[2]}
<1>1. IsWellFoundedOn(R, Nat)
  BY NatLessThanWellFounded, Zenon DEF OpToRel
<1>2. \E x \in T : \A y \in T : ~ (<<y, x>> \in R)
  <2> HIDE DEF R
  <2> QED  BY <1>1, WFMin
<1>3. \A x, y \in Nat : y < x => <<y, x>> \in R
  OBVIOUS
<1> HIDE DEF R
<1>4. PICK x \in T : \A y \in T : ~ (<<y, x>> \in R)
  BY <1>2
<1>5. ASSUME NEW y \in T
      PROVE  x <= y
  <2>1. ~ (y < x)  BY <1>3, <1>4
  <2> QED  BY <2>1
<1> QED  BY <1>5

\* The elements of a concatenation.
LEMMA ConcatElements ==
  ASSUME NEW S, NEW a \in Seq(S), NEW b \in Seq(S), NEW r, r = a \o b
  PROVE  /\ r \in Seq(S)
         /\ Len(r) = Len(a) + Len(b)
         /\ \A j \in 1 .. Len(a) : r[j] = a[j]
         /\ \A j \in Len(a) + 1 .. Len(a) + Len(b) : r[j] = b[j - Len(a)]
BY ConcatProperties, LenProperties

\* The elements of a sequence after RemoveAt (list_remove).
LEMMA RemoveAtElements ==
  ASSUME NEW S, NEW s \in Seq(S), NEW i \in 1 .. Len(s)
  PROVE  /\ RemoveAt(s, i) \in Seq(S)
         /\ Len(RemoveAt(s, i)) = Len(s) - 1
         /\ \A j \in 1 .. i - 1 : RemoveAt(s, i)[j] = s[j]
         /\ \A j \in i .. Len(s) - 1 : RemoveAt(s, i)[j] = s[j + 1]
<1> DEFINE a == SubSeq(s, 1, i - 1)
           b == SubSeq(s, i + 1, Len(s))
           r == RemoveAt(s, i)
<1>0. Len(s) \in Nat /\ r = a \o b
  BY LenProperties DEF RemoveAt
<1>1. a \in Seq(S) /\ Len(a) = i - 1 /\ \A j \in 1 .. i - 1 : a[j] = s[j]
  OBVIOUS
<1>2. /\ b \in Seq(S)
      /\ Len(b) = Len(s) - i
      /\ \A j \in 1 .. Len(s) - i : b[j] = s[i + j]
  OBVIOUS
<1> HIDE DEF a, b, r
<1>3. /\ r \in Seq(S)
      /\ Len(r) = Len(a) + Len(b)
      /\ \A j \in 1 .. Len(a) : r[j] = a[j]
      /\ \A j \in Len(a) + 1 .. Len(a) + Len(b) : r[j] = b[j - Len(a)]
  <2>1. a \in Seq(S) /\ b \in Seq(S) /\ r = a \o b  BY <1>0, <1>1, <1>2
  <2> QED  BY <2>1, ConcatElements, SMTT(30)
<1>4. \A j \in i .. Len(s) - 1 : r[j] = s[j + 1]
  <2> TAKE j \in i .. Len(s) - 1
  <2>1. r[j] = b[j - i + 1]  BY <1>0, <1>1, <1>2, <1>3
  <2> QED  BY <1>0, <1>2, <2>1
<1>5. \A j \in 1 .. i - 1 : r[j] = s[j]
  BY <1>1, <1>3
<1>6. r \in Seq(S) /\ Len(r) = Len(s) - 1
  BY <1>0, <1>1, <1>2, <1>3
<1> QED  BY <1>4, <1>5, <1>6 DEF r

\* The elements of a sequence after InsertAt (list_insert).
LEMMA InsertAtElements ==
  ASSUME NEW S, NEW s \in Seq(S), NEW i \in 1 .. Len(s) + 1, NEW e \in S
  PROVE  /\ InsertAt(s, i, e) \in Seq(S)
         /\ Len(InsertAt(s, i, e)) = Len(s) + 1
         /\ \A j \in 1 .. i - 1 : InsertAt(s, i, e)[j] = s[j]
         /\ InsertAt(s, i, e)[i] = e
         /\ \A j \in i + 1 .. Len(s) + 1 : InsertAt(s, i, e)[j] = s[j - 1]
<1> DEFINE a == SubSeq(s, 1, i - 1)
           b == SubSeq(s, i, Len(s))
           d == a \o <<e>>
           r == InsertAt(s, i, e)
<1>0. Len(s) \in Nat /\ r = d \o b
  BY LenProperties DEF InsertAt
<1>1. a \in Seq(S) /\ Len(a) = i - 1 /\ \A j \in 1 .. i - 1 : a[j] = s[j]
  OBVIOUS
<1>2. /\ b \in Seq(S)
      /\ Len(b) = Len(s) - i + 1
      /\ \A j \in 1 .. Len(s) - i + 1 : b[j] = s[i + j - 1]
  OBVIOUS
<1> HIDE DEF a, b, r
<1>3. /\ d \in Seq(S)
      /\ Len(d) = i
      /\ \A j \in 1 .. i - 1 : d[j] = s[j]
      /\ d[i] = e
  BY <1>1
<1> HIDE DEF d
<1>4. /\ r \in Seq(S)
      /\ Len(r) = Len(d) + Len(b)
      /\ \A j \in 1 .. Len(d) : r[j] = d[j]
      /\ \A j \in Len(d) + 1 .. Len(d) + Len(b) : r[j] = b[j - Len(d)]
  BY <1>0, <1>2, <1>3, ConcatElements
<1>5. \A j \in i + 1 .. Len(s) + 1 : r[j] = s[j - 1]
  <2> TAKE j \in i + 1 .. Len(s) + 1
  <2>1. r[j] = b[j - i]  BY <1>0, <1>2, <1>3, <1>4
  <2> QED  BY <1>0, <1>2, <2>1
<1>6. r[i] = e /\ \A j \in 1 .. i - 1 : r[j] = s[j]
  <2>1. \A j \in 1 .. i : r[j] = d[j]  BY <1>3, <1>4
  <2> QED  BY <1>3, <2>1
<1>7. r \in Seq(S) /\ Len(r) = Len(s) + 1
  BY <1>0, <1>2, <1>3, <1>4
<1> QED  BY <1>5, <1>6, <1>7 DEF r

\* RemoveFirst removes one occurrence of an element that is there.
LEMMA RemoveFirstAt ==
  ASSUME NEW S, NEW s \in Seq(S), NEW e, On(s, e)
  PROVE  \E i \in 1 .. Len(s) : s[i] = e /\ RemoveFirst(s, e) = RemoveAt(s, i)
<1> DEFINE I == {i \in 1 .. Len(s) : s[i] = e}
<1>1. I \in SUBSET Nat /\ I # {}
  BY DEF On
<1>2. Min(I) \in I
  <2>1. \E x \in I : \A y \in I : x <= y  BY <1>1, LeastNat
  <2> QED  BY <2>1 DEF Min
<1>3. RemoveFirst(s, e) = RemoveAt(s, Min(I))
  BY <1>1 DEF RemoveFirst, SelectInSeq
<1> QED  BY <1>2, <1>3

\* Nothing is on the empty list.
LEMMA EmptyList ==
  /\ \A e : ~On(<<>>, e)
  /\ Once(<<>>)
BY DEF On, Once

\* The list after list_append.
LEMMA AppendList ==
  ASSUME NEW S, NEW s \in Seq(S), NEW e \in S
  PROVE  /\ Append(s, e) \in Seq(S)
         /\ Append(s, e) # <<>>
         /\ \A x : On(Append(s, e), x) <=> On(s, x) \/ x = e
         /\ Once(s) /\ ~On(s, e) => Once(Append(s, e))
<1> DEFINE a == Append(s, e)
<1>1. /\ a \in Seq(S) /\ Len(s) \in Nat /\ Len(a) = Len(s) + 1
      /\ \A i \in 1 .. Len(s) : a[i] = s[i]
      /\ a[Len(s) + 1] = e
  OBVIOUS
<1> HIDE DEF a
<1>2. a # <<>>
  BY <1>1
<1>3. \A x : On(a, x) <=> On(s, x) \/ x = e
  BY <1>1 DEF On
<1>4. Once(s) /\ ~On(s, e) => Once(a)
  <2> SUFFICES ASSUME Once(s), ~On(s, e),
                      NEW i \in 1 .. Len(a), NEW j \in 1 .. Len(a), a[i] = a[j]
               PROVE  i = j
    BY DEF Once
  <2>1. CASE i \in 1 .. Len(s) /\ j \in 1 .. Len(s)
    BY <1>1, <2>1 DEF Once
  <2>2. CASE i = Len(s) + 1 /\ j \in 1 .. Len(s)
    BY <1>1, <2>2 DEF On
  <2>3. CASE j = Len(s) + 1 /\ i \in 1 .. Len(s)
    BY <1>1, <2>3 DEF On
  <2> QED  BY <1>1, <2>1, <2>2, <2>3
<1> QED  BY <1>1, <1>2, <1>3, <1>4 DEF a

\* The first entry of a list, and the list without it.
LEMMA HeadTailList ==
  ASSUME NEW S, NEW s \in Seq(S), s # <<>>
  PROVE  /\ Head(s) \in S /\ On(s, Head(s))
         /\ Tail(s) \in Seq(S)
         /\ \A x : On(Tail(s), x) => On(s, x)
         /\ \A x : On(s, x) /\ x # Head(s) => On(Tail(s), x)
         /\ Once(s) => Once(Tail(s)) /\ ~On(Tail(s), Head(s))
<1> DEFINE h == Head(s)
           r == Tail(s)
<1>1. /\ Len(s) \in Nat /\ Len(s) > 0
      /\ h \in S /\ h = s[1]
      /\ r \in Seq(S) /\ Len(r) = Len(s) - 1
      /\ \A i \in 1 .. Len(r) : r[i] = s[i + 1]
  OBVIOUS
<1> HIDE DEF h, r
<1>2. On(s, h)
  BY <1>1 DEF On
<1>3. \A x : On(r, x) => On(s, x)
  BY <1>1 DEF On
<1>4. ASSUME NEW x, On(s, x), x # h
      PROVE  On(r, x)
  <2>1. PICK i \in 1 .. Len(s) : s[i] = x  BY <1>4 DEF On
  <2>2. i - 1 \in 1 .. Len(r) /\ r[i - 1] = x  BY <1>1, <1>4, <2>1
  <2> QED  BY <2>2 DEF On
<1>5. Once(s) => Once(r)
  <2> SUFFICES ASSUME Once(s), NEW i \in 1 .. Len(r), NEW j \in 1 .. Len(r),
                      r[i] = r[j]
               PROVE  i = j
    BY DEF Once
  <2>1. i + 1 \in 1 .. Len(s) /\ j + 1 \in 1 .. Len(s) /\ s[i + 1] = s[j + 1]
    BY <1>1
  <2> QED  BY <1>1, <2>1 DEF Once
<1>6. Once(s) => ~On(r, h)
  <2> SUFFICES ASSUME Once(s), NEW i \in 1 .. Len(r), r[i] = h
               PROVE  FALSE
    BY DEF On
  <2>1. i + 1 \in 1 .. Len(s) /\ s[i + 1] = s[1]  BY <1>1
  <2> QED  BY <1>1, <2>1 DEF Once
<1> QED  BY <1>1, <1>2, <1>3, <1>4, <1>5, <1>6 DEF h, r

\* The list after list_remove.
LEMMA RemoveFirstList ==
  ASSUME NEW S, NEW s \in Seq(S), NEW e
  PROVE  /\ RemoveFirst(s, e) \in Seq(S)
         /\ \A x : On(RemoveFirst(s, e), x) => On(s, x)
         /\ \A x : On(s, x) /\ x # e => On(RemoveFirst(s, e), x)
         /\ Once(s) => /\ Once(RemoveFirst(s, e))
                       /\ ~On(RemoveFirst(s, e), e)
<1> DEFINE r == RemoveFirst(s, e)
<1>1. CASE ~On(s, e)
  <2>1. r = s  BY <1>1 DEF On, RemoveFirst, SelectInSeq
  <2> QED  BY <1>1, <2>1
<1>2. CASE On(s, e)
  <2>1. PICK k \in 1 .. Len(s) : s[k] = e /\ r = RemoveAt(s, k)
    BY <1>2, RemoveFirstAt
  <2> HIDE DEF r
  <2>2. /\ Len(s) \in Nat
        /\ r \in Seq(S) /\ Len(r) = Len(s) - 1
        /\ \A j \in 1 .. k - 1 : r[j] = s[j]
        /\ \A j \in k .. Len(s) - 1 : r[j] = s[j + 1]
    <3>1. Len(s) \in Nat  OBVIOUS
    <3> QED  BY <2>1, <3>1, RemoveAtElements
  <2> DEFINE o(j) == IF j < k THEN j ELSE j + 1
  <2>3. \A j \in 1 .. Len(r) :
          o(j) \in 1 .. Len(s) /\ o(j) # k /\ r[j] = s[o(j)]
    BY <2>2
  <2>4. \A i, j \in 1 .. Len(r) : o(i) = o(j) => i = j
    BY <2>2
  <2>5. \A i \in 1 .. Len(s) : i # k => \E j \in 1 .. Len(r) : o(j) = i
    <3> TAKE i \in 1 .. Len(s)
    <3>1. CASE i < k
      <4>1. i \in 1 .. Len(r) /\ o(i) = i  BY <3>1, <2>2
      <4> QED  BY <4>1
    <3>2. CASE i > k
      <4>1. i - 1 \in 1 .. Len(r) /\ o(i - 1) = i  BY <3>2, <2>2
      <4> QED  BY <4>1
    <3> QED  BY <3>1, <3>2, <2>2
  <2> HIDE DEF o
  <2>6. \A x : On(r, x) => On(s, x)
    BY <2>3 DEF On
  <2>7. \A x : On(s, x) /\ x # e => On(r, x)
    BY <2>1, <2>3, <2>5 DEF On
  <2>8. Once(s) => Once(r)
    BY <2>3, <2>4 DEF Once
  <2>9. Once(s) => ~On(r, e)
    BY <2>1, <2>3 DEF Once, On
  <2> QED  BY <2>2, <2>6, <2>7, <2>8, <2>9 DEF r
<1> QED  BY <1>1, <1>2

\* The elements of a sequence without its first k.
LEMMA DropElements ==
  ASSUME NEW S, NEW s \in Seq(S), NEW k \in Nat, k <= Len(s),
         NEW r, r = SubSeq(s, k + 1, Len(s))
  PROVE  /\ r \in Seq(S)
         /\ Len(r) = Len(s) - k
         /\ \A i \in 1 .. Len(s) - k : r[i] = s[i + k]
<1>1. Len(s) \in Nat
  OBVIOUS
<1>2. Len(r) = Len(s) - k
  BY <1>1
<1>3. r \in Seq(S)
  BY <1>1
<1>4. ASSUME NEW i \in 1 .. Len(s) - k
      PROVE  r[i] = s[i + k]
  BY <1>1
<1> QED  BY <1>2, <1>3, <1>4

\* Counting the places of an entry on a list.
LEMMA PlacesOnce ==
  ASSUME NEW S, NEW s \in Seq(S), Once(s), NEW e
  PROVE  Cardinality({i \in DOMAIN s : s[i] = e}) = IF On(s, e) THEN 1 ELSE 0
<1> DEFINE I == {i \in DOMAIN s : s[i] = e}
<1>0. DOMAIN s = 1 .. Len(s)
  OBVIOUS
<1>1. CASE On(s, e)
  <2>1. PICK k \in 1 .. Len(s) : s[k] = e  BY <1>1 DEF On
  <2>2. I = {k}  BY <1>0, <2>1 DEF Once
  <2> QED  BY <1>1, <2>2, FS_Singleton
<1>2. CASE ~On(s, e)
  <2>1. I = {}  BY <1>0, <1>2 DEF On
  <2> QED  BY <1>2, <2>1, FS_EmptySet
<1> QED  BY <1>1, <1>2
=============================================================================
