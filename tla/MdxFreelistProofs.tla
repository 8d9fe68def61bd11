------------------------- MODULE MdxFreelistProofs --------------------------
(***************************************************************************)
(* Proofs about MdxFreelist: the boundary tags tile the regions, the lists *)
(* hold the free blocks, a request gets the best fit, and malloc, free and *)
(* realloc implement MallocSpec, for every choice of the regions, the      *)
(* sizes asked for, the alignment and the number of lists.                 *)
(*                                                                         *)
(* What malloc, free and realloc do is made of four steps: a block is      *)
(* carved up, merged with the next one, linked, unlinked.  The lemmas say  *)
(* what each does to the tags (Sound) and to the lists (Lists); fl_free    *)
(* goes through heaps that are Loose, where one free block is on no list.  *)
(***************************************************************************)
EXTENDS MdxFreelist, ListTheorems

\* The headers of a heap m, and the sentinels of its regions R.
NodeType == [size : Nat, prev : Nat, alloc : BOOLEAN]
FirstOf(R) == {r.base : r \in R}
LastOf(R) == {r.base + r.size - NODE_S : r \in R}

\* Every block has room for a header and is inside a region.
Within(m, r, a) == r.base <= a /\ a + m[a].size <= r.base + r.size
Inside(m, R) ==
  \A a \in DOMAIN m : m[a].size >= NODE_S /\ \E r \in R : Within(m, r, a)

\* Blocks do not overlap.
Apart(m) == \A a, b \in DOMAIN m : a < b => a + m[a].size <= b

\* The sentinels are there and stay allocated.
Ends(m, R) ==
  \A a \in FirstOf(R) \cup LastOf(R) : a \in DOMAIN m /\ m[a].alloc

\* The boundary tags lead from block to block.
Forward(m, R) ==
  \A a \in DOMAIN m \ LastOf(R) :
    Succ(m, a) \in DOMAIN m /\ m[Succ(m, a)].prev = m[a].size
Backward(m, R) ==
  \A a \in DOMAIN m \ FirstOf(R) :
    Pred(m, a) \in DOMAIN m /\ Succ(m, Pred(m, a)) = a

\* The boundary tags of heap m tile the regions R.
Sound(m, R) ==
  /\ R \subseteq Regions
  /\ DOMAIN m \subseteq Nat /\ m \in [DOMAIN m -> NodeType]
  /\ Inside(m, R) /\ Apart(m) /\ Ends(m, R) /\ Forward(m, R) /\ Backward(m, R)

\* The free blocks, and those that are neither free nor sentinels.
FreeOf(m) == {a \in DOMAIN m : Free(m, a)}
UsedOf(m, R) == DOMAIN m \ (FreeOf(m) \cup FirstOf(R) \cup LastOf(R))

\* No two free blocks are neighbours.
Coalesced(m) == \A a \in FreeOf(m) : ~Free(m, Succ(m, a))

\* A list is in order of size.
Sorted(m, s) ==
  \A j, k \in 1 .. Len(s) : j < k => m[s[j]].size <= m[s[k]].size

\* The lists hold the nodes of F, each once and in the list of its size.
Lists(m, l, F) ==
  /\ l \in [0 .. NLists - 1 -> Seq(F)]
  /\ F \subseteq DOMAIN m
  /\ \A i \in 0 .. NLists - 1 :
       /\ Once(l[i]) /\ Sorted(m, l[i])
       /\ \A a \in F : On(l[i], a) <=> size2i(m[a].size) = i

\* A heap with its lists.
Good(m, l, R) == Sound(m, R) /\ Coalesced(m) /\ Lists(m, l, FreeOf(m))

\* The history: every block in use has room for what was asked for.
Asked(m, R, h) ==
  /\ DOMAIN h = {a + NODE_S : a \in UsedOf(m, R)}
  /\ \A p \in DOMAIN h : h[p] \in Requests
  /\ \A a \in UsedOf(m, R) : NODE_S + h[a + NODE_S] <= m[a].size

\* The inductive invariant.
HeapInv == Good(mem, nodelist, regions) /\ Asked(mem, regions, asked)
-----------------------------------------------------------------------------
(***************************************************************************)
(* The boundary tags.                                                      *)
(***************************************************************************)

\* The constants.
LEMMA Sizes ==
  /\ NODE_S \in Nat /\ NODE_S > 0 /\ ALIGN \in Nat \ {0} /\ NLists \in Nat /\ NLists > 0
  /\ \A r \in Regions : /\ r.base \in Nat /\ r.size \in Nat /\ r.size >= 3 * NODE_S
                        /\ r.size \div ALIGN < 2 ^ NLists
  /\ \A n \in Requests : n \in Nat /\ n > 0
  /\ NULL \notin Nat
BY FreelistAssumption

\* The fields of a header.
LEMMA Fields ==
  ASSUME NEW m, NEW R, Sound(m, R), NEW a \in DOMAIN m
  PROVE  /\ a \in Nat /\ m[a].size \in Nat /\ m[a].prev \in Nat
         /\ m[a].alloc \in BOOLEAN /\ m[a].size >= NODE_S /\ m[a].size > 0
         /\ m[a] = Node(m[a].size, m[a].prev, m[a].alloc)
<1>1. m[a] \in NodeType /\ a \in Nat
  BY DEF Sound
<1>2. m[a].size >= NODE_S
  BY DEF Sound, Inside
<1> QED  BY <1>1, <1>2, Sizes DEF NodeType, Node

\* A block that is not the last of its region ends before the last one.
LEMMA BeforeLast ==
  ASSUME NEW m, NEW R, Sound(m, R), NEW a \in DOMAIN m \ LastOf(R),
         NEW r \in R, Within(m, r, a)
  PROVE  a + m[a].size <= r.base + r.size - NODE_S
<1> DEFINE z == r.base + r.size - NODE_S
<1>1. r.base \in Nat /\ r.size \in Nat /\ NODE_S \in Nat /\ NODE_S > 0
      /\ r.size >= 3 * NODE_S
  BY Sizes DEF Sound
<1>2. z \in LastOf(R) /\ z \in DOMAIN m
  BY DEF Sound, Ends, LastOf
<1>3. /\ a \in Nat /\ m[a].size \in Nat /\ m[a].size > 0
      /\ z \in Nat /\ m[z].size \in Nat /\ m[z].size >= NODE_S
  BY <1>2, Fields
<1>4. a # z
  BY <1>2
<1>5. ~(z < a)
  <2> SUFFICES ASSUME z < a  PROVE FALSE
    OBVIOUS
  <2>1. z + m[z].size <= a
    BY <1>2 DEF Sound, Apart
  <2> QED  BY <1>1, <1>3, <2>1 DEF Within
<1>6. a < z
  BY <1>1, <1>3, <1>4, <1>5
<1> QED  BY <1>2, <1>6 DEF Sound, Apart

\* The next block is behind, in the same region, and no other block leads to it.
LEMMA NextBlock ==
  ASSUME NEW m, NEW R, Sound(m, R), NEW a \in DOMAIN m \ LastOf(R)
  PROVE  /\ Succ(m, a) \in DOMAIN m /\ Succ(m, a) > a
         /\ m[Succ(m, a)].prev = m[a].size
         /\ \A r \in R : Within(m, r, a) => Within(m, r, Succ(m, a))
         /\ \A b \in DOMAIN m : Succ(m, b) = Succ(m, a) => b = a
<1> DEFINE c == Succ(m, a)
<1>1. c \in DOMAIN m /\ m[c].prev = m[a].size /\ c = a + m[a].size
  BY DEF Sound, Forward, Succ
<1>2. /\ a \in Nat /\ m[a].size \in Nat /\ m[a].size > 0
      /\ c \in Nat /\ m[c].size \in Nat /\ m[c].size > 0
  BY <1>1, Fields
<1> HIDE DEF c
<1>3. ASSUME NEW b \in DOMAIN m, Succ(m, b) = c
      PROVE  b = a
  <2>1. b \in Nat /\ m[b].size \in Nat /\ m[b].size > 0 /\ b + m[b].size = c
    BY <1>3, Fields DEF Succ
  <2>2. b < a => b + m[b].size <= a
    BY DEF Sound, Apart
  <2>3. a < b => a + m[a].size <= b
    BY DEF Sound, Apart
  <2> QED  BY <1>1, <1>2, <2>1, <2>2, <2>3
<1>4. ASSUME NEW r \in R, Within(m, r, a)
      PROVE  Within(m, r, c)
  <2>1. c <= r.base + r.size - NODE_S
    BY <1>1, <1>4, BeforeLast
  <2>2. PICK s \in R : Within(m, s, c)
    BY <1>1 DEF Sound, Inside
  <2>3. /\ r.base \in Nat /\ r.size \in Nat /\ s.base \in Nat /\ s.size \in Nat
        /\ NODE_S \in Nat /\ NODE_S > 0
        /\ r # s => r.base + r.size <= s.base \/ s.base + s.size <= r.base
    BY Sizes, FreelistAssumption DEF Sound
  <2>4. r = s
    BY <1>1, <1>2, <1>4, <2>1, <2>2, <2>3 DEF Within
  <2> QED  BY <2>2, <2>4
<1> QED  BY <1>1, <1>2, <1>3, <1>4 DEF c

\* The previous block.
LEMMA PrevBlock ==
  ASSUME NEW m, NEW R, Sound(m, R), NEW a \in DOMAIN m \ FirstOf(R)
  PROVE  /\ Pred(m, a) \in DOMAIN m /\ Pred(m, a) < a
         /\ Succ(m, Pred(m, a)) = a
         /\ m[a].prev = m[Pred(m, a)].size
<1> DEFINE p == Pred(m, a)
<1>1. p \in DOMAIN m /\ Succ(m, p) = a /\ p = a - m[a].prev
  BY DEF Sound, Backward, Pred
<1>2. p \in Nat /\ m[p].size \in Nat /\ m[p].size > 0 /\ a \in Nat /\ m[a].prev \in Nat
  BY <1>1, Fields
<1> HIDE DEF p
<1>3. p + m[p].size = a
  BY <1>1 DEF Succ
<1> QED  BY <1>1, <1>2, <1>3 DEF p

\* The first and the last block of a region are not in another one.
LEMMA Sentinels ==
  ASSUME NEW m, NEW R, Sound(m, R), NEW a \in DOMAIN m
  PROVE  /\ a \in FreeOf(m) => a \notin FirstOf(R) /\ a \notin LastOf(R)
         /\ a \in UsedOf(m, R) => a \notin FirstOf(R) /\ a \notin LastOf(R) /\ m[a].alloc
         /\ m[a].alloc /\ a \notin FirstOf(R) /\ a \notin LastOf(R) => a \in UsedOf(m, R)
         /\ a \notin LastOf(R) => Succ(m, a) \notin FirstOf(R)
         /\ a \notin FirstOf(R) => Pred(m, a) \notin LastOf(R)
<1>1. a \in FreeOf(m) => a \notin FirstOf(R) /\ a \notin LastOf(R)
  BY DEF Sound, Ends, FreeOf, Free
<1>2. /\ a \in UsedOf(m, R) => a \notin FirstOf(R) /\ a \notin LastOf(R) /\ m[a].alloc
      /\ m[a].alloc /\ a \notin FirstOf(R) /\ a \notin LastOf(R) => a \in UsedOf(m, R)
  BY DEF UsedOf, FreeOf, Free
<1>3. ASSUME NEW b \in DOMAIN m \ LastOf(R)
      PROVE  Succ(m, b) \notin FirstOf(R)
  <2> SUFFICES ASSUME NEW s \in R, s.base = Succ(m, b)
               PROVE  FALSE
    BY DEF FirstOf
  <2>1. PICK r \in R : Within(m, r, b)
    BY DEF Sound, Inside
  <2>2. Succ(m, b) \in DOMAIN m /\ Succ(m, b) > b /\ Within(m, r, Succ(m, b))
    BY <2>1, NextBlock
  <2>3. /\ r.base \in Nat /\ r.size \in Nat /\ s.base \in Nat /\ s.size \in Nat
        /\ NODE_S \in Nat /\ NODE_S > 0 /\ s.size >= 3 * NODE_S
        /\ r # s => r.base + r.size <= s.base \/ s.base + s.size <= r.base
    BY Sizes, FreelistAssumption DEF Sound
  <2>4. /\ b \in Nat /\ Succ(m, b) \in Nat /\ m[Succ(m, b)].size \in Nat
        /\ m[Succ(m, b)].size > 0
    BY <2>2, Fields
  <2> QED  BY <2>1, <2>2, <2>3, <2>4 DEF Within
<1>4. ASSUME a \notin FirstOf(R), Pred(m, a) \in LastOf(R)
      PROVE  FALSE
  <2>1. PICK s \in R : Pred(m, a) = s.base + s.size - NODE_S
    BY <1>4 DEF LastOf
  <2>2. /\ Pred(m, a) \in DOMAIN m /\ Pred(m, a) < a /\ Succ(m, Pred(m, a)) = a
    BY <1>4, PrevBlock
  <2> DEFINE p == Pred(m, a)
  <2>3. PICK r \in R : Within(m, r, p)
    BY <2>2 DEF Sound, Inside
  <2>4. PICK q \in R : Within(m, q, a)
    BY DEF Sound, Inside
  <2>5. /\ p \in Nat /\ m[p].size \in Nat /\ m[p].size >= NODE_S /\ a \in Nat
        /\ m[a].size \in Nat /\ m[a].size > 0 /\ p + m[p].size = a
    BY <2>2, Fields DEF Succ
  <2>6. /\ NODE_S \in Nat /\ NODE_S > 0
        /\ \A x \in R : x.base \in Nat /\ x.size \in Nat /\ x.size >= 3 * NODE_S
        /\ \A x, y \in R : x # y => x.base + x.size <= y.base \/ y.base + y.size <= x.base
    BY Sizes, FreelistAssumption DEF Sound
  <2> HIDE DEF p
  <2>7. r = s /\ p = s.base + s.size - NODE_S
    BY <2>1, <2>3, <2>5, <2>6 DEF Within, p
  <2>8. a = s.base + s.size
    BY <2>3, <2>5, <2>6, <2>7 DEF Within
  <2>9. q # s
    BY <2>4, <2>5, <2>6, <2>8 DEF Within
  <2>10. q.base = a
    BY <2>4, <2>5, <2>6, <2>8, <2>9 DEF Within
  <2> QED  BY <1>4, <2>10 DEF FirstOf
<1> QED  BY <1>1, <1>2, <1>3, <1>4
\* n is m with block a carved up, and m with block a merged with the next.
Carved(m, n, a, size, rest) ==
  LET b == a + size
      c == Succ(m, a)
  IN  /\ b \notin DOMAIN m /\ DOMAIN n = DOMAIN m \cup {b}
      /\ a < b /\ b < c /\ c = b + rest /\ c \in DOMAIN m /\ b \in Nat
      /\ n[a] = Node(size, m[a].prev, m[a].alloc)
      /\ n[b] = Node(rest, size, FALSE)
      /\ n[c] = Node(m[c].size, rest, m[c].alloc)
      /\ \A x \in DOMAIN m : x # a /\ x # c => n[x] = m[x]
Merged(m, n, a) ==
  LET b == Succ(m, a)
      c == Succ(m, b)
      size == m[a].size + m[b].size
  IN  /\ b \in DOMAIN m /\ c \in DOMAIN m /\ a < b /\ b < c /\ c = a + size
      /\ DOMAIN n = DOMAIN m \ {b}
      /\ n[a] = Node(size, m[a].prev, m[a].alloc)
      /\ n[c] = Node(m[c].size, size, m[c].alloc)
      /\ \A x \in DOMAIN m \ {b} : x # a /\ x # c => n[x] = m[x]


\* The headers after Carve, after Merge and after a change of FLAG_ALLOCATED.
LEMMA CarveNodes ==
  ASSUME NEW m, NEW R, Sound(m, R), NEW a \in DOMAIN m \ LastOf(R),
         NEW size \in Nat, NEW rest \in Nat, size >= NODE_S, rest >= NODE_S,
         size + rest = m[a].size
  PROVE  Carved(m, Carve(m, a, size, rest), a, size, rest)
<1>a. PICK n : n = Carve(m, a, size, rest)
  OBVIOUS
<1>b. PICK b : b = a + size
  OBVIOUS
<1>c. PICK c : c = Succ(m, a)
  OBVIOUS
<1> DEFINE m1 == [m EXCEPT ![a].size = size]
           m2 == Put(m1, b, Node(rest, size, FALSE))
<1>1. /\ a \in Nat /\ m[a].size \in Nat /\ NODE_S \in Nat /\ NODE_S > 0
      /\ c = a + m[a].size /\ c \in DOMAIN m
      /\ m[a] = Node(m[a].size, m[a].prev, m[a].alloc)
  BY <1>c, Fields, Sizes, NextBlock DEF Succ
<1>2. m[c] = Node(m[c].size, m[c].prev, m[c].alloc)
  BY <1>1, Fields
<1>3. a < b /\ b < c /\ c = b + rest /\ b \in Nat
  BY <1>1, <1>b
<1>4. b \notin DOMAIN m
  <2> SUFFICES ASSUME b \in DOMAIN m  PROVE FALSE
    OBVIOUS
  <2>1. a + m[a].size <= b
    BY <1>3 DEF Sound, Apart
  <2> QED  BY <1>1, <1>3, <2>1
<1>5. /\ DOMAIN m1 = DOMAIN m /\ m1[a] = Node(size, m[a].prev, m[a].alloc)
      /\ \A x \in DOMAIN m : x # a => m1[x] = m[x]
  <2>1. m1[a] = [m[a] EXCEPT !.size = size]
    OBVIOUS
  <2>2. m1[a] = Node(size, m[a].prev, m[a].alloc)
    BY <1>1, <2>1 DEF Node
  <2> QED  BY <2>2 DEF Sound
<1> HIDE DEF m1
<1>6. /\ DOMAIN m2 = DOMAIN m \cup {b} /\ m2[b] = Node(rest, size, FALSE)
      /\ \A x \in DOMAIN m : x # b => m2[x] = m1[x]
  BY <1>5 DEF Put
<1>7. n = [m2 EXCEPT ![c].prev = rest]
  <2>1. m2[b].size = rest
    BY <1>6 DEF Node
  <2>2. Succ(m2, b) = c
    BY <1>3, <2>1 DEF Succ
  <2> QED  BY <1>a, <1>b, <2>1, <2>2 DEF Carve, Tell, m1
<1> HIDE DEF m2
<1>8. /\ DOMAIN n = DOMAIN m2 /\ n[c] = [m2[c] EXCEPT !.prev = rest]
      /\ \A x \in DOMAIN m2 : x # c => n[x] = m2[x]
  BY <1>1, <1>6, <1>7
<1>9. m2[c] = m[c]
  BY <1>1, <1>3, <1>4, <1>5, <1>6
<1>10. n[c] = Node(m[c].size, rest, m[c].alloc)
  BY <1>2, <1>8, <1>9 DEF Node
<1>11. a # c /\ a # b /\ b # c /\ a \in DOMAIN m
  BY <1>1, <1>3
<1>12. /\ n[a] = Node(size, m[a].prev, m[a].alloc)
       /\ n[b] = Node(rest, size, FALSE)
  BY <1>5, <1>6, <1>8, <1>11
<1>13. /\ \A x \in DOMAIN m : x # a /\ x # c => n[x] = m[x]
       /\ DOMAIN n = DOMAIN m \cup {b}
  BY <1>4, <1>5, <1>6, <1>8
<1> QED  BY <1>a, <1>b, <1>c, <1>1, <1>3, <1>4, <1>10, <1>12, <1>13 DEF Carved

LEMMA MergeNodes ==
  ASSUME NEW m, NEW R, Sound(m, R), NEW a \in DOMAIN m \ LastOf(R),
         Succ(m, a) \notin LastOf(R)
  PROVE  Merged(m, Merge(m, a, Succ(m, a)), a)
<1>a. PICK b : b = Succ(m, a)
  OBVIOUS
<1>b. PICK c : c = Succ(m, b)
  OBVIOUS
<1>c. PICK n : n = Merge(m, a, b)
  OBVIOUS
<1> DEFINE size == m[a].size + m[b].size
           m1 == [m EXCEPT ![a].size = @ + m[b].size]
           m2 == Drop(m1, b)
<1>1. b \in DOMAIN m /\ b > a /\ b = a + m[a].size
  BY <1>a, NextBlock DEF Succ
<1>2. c \in DOMAIN m /\ c > b /\ c = b + m[b].size
  BY <1>a, <1>b, <1>1, NextBlock DEF Succ
<1>3. /\ a \in Nat /\ m[a].size \in Nat /\ m[b].size \in Nat
      /\ m[a] = Node(m[a].size, m[a].prev, m[a].alloc)
      /\ m[c] = Node(m[c].size, m[c].prev, m[c].alloc)
      /\ b \in Nat /\ c \in Nat
  BY <1>1, <1>2, Fields
<1>4. a # b /\ b # c /\ a # c /\ c = a + size
  BY <1>1, <1>2, <1>3
<1>5. /\ DOMAIN m1 = DOMAIN m /\ m1[a] = Node(size, m[a].prev, m[a].alloc)
      /\ \A x \in DOMAIN m : x # a => m1[x] = m[x]
  <2>1. m1[a] = [m[a] EXCEPT !.size = m[a].size + m[b].size]
    OBVIOUS
  <2>2. m1[a] = Node(size, m[a].prev, m[a].alloc)
    BY <1>3, <2>1 DEF Node
  <2> QED  BY <2>2 DEF Sound
<1> HIDE DEF m1
<1>6. DOMAIN m2 = DOMAIN m \ {b} /\ \A x \in DOMAIN m \ {b} : m2[x] = m1[x]
  BY <1>5 DEF Drop
<1>7. n = [m2 EXCEPT ![c].prev = size]
  <2>1. m2[a].size = size
    BY <1>4, <1>5, <1>6 DEF Node
  <2>2. Succ(m2, a) = c
    BY <1>4, <2>1 DEF Succ
  <2> QED  BY <1>c, <2>1, <2>2 DEF Merge, Tell, m1
<1> HIDE DEF m2, size
<1>8. /\ DOMAIN n = DOMAIN m2 /\ n[c] = [m2[c] EXCEPT !.prev = size]
      /\ \A x \in DOMAIN m2 : x # c => n[x] = m2[x]
  BY <1>2, <1>4, <1>6, <1>7
<1>9. m2[c] = m[c]
  BY <1>2, <1>4, <1>5, <1>6
<1>10. n[c] = Node(m[c].size, size, m[c].alloc)
  BY <1>3, <1>8, <1>9 DEF Node
<1>11. /\ n[a] = Node(size, m[a].prev, m[a].alloc)
       /\ \A x \in DOMAIN m \ {b} : x # a /\ x # c => n[x] = m[x]
       /\ DOMAIN n = DOMAIN m \ {b}
  BY <1>1, <1>4, <1>5, <1>6, <1>8
<1> QED  BY <1>a, <1>b, <1>c, <1>1, <1>2, <1>4, <1>10, <1>11 DEF size, Merged

\* m with the FLAG_ALLOCATED of block a set, and without it.
Take(m, a) == [m EXCEPT ![a].alloc = TRUE]
Give(m, a) == [m EXCEPT ![a].alloc = FALSE]

LEMMA AllocNodes ==
  ASSUME NEW m, NEW R, Sound(m, R), NEW a \in DOMAIN m, NEW v \in BOOLEAN
  PROVE  LET n == [m EXCEPT ![a].alloc = v]
         IN  /\ DOMAIN n = DOMAIN m
             /\ n[a] = Node(m[a].size, m[a].prev, v)
             /\ \A x \in DOMAIN m : x # a => n[x] = m[x]
<1> DEFINE n == [m EXCEPT ![a].alloc = v]
<1>1. m[a] = Node(m[a].size, m[a].prev, m[a].alloc)
  BY Fields
<1>2. n[a] = [m[a] EXCEPT !.alloc = v]
  OBVIOUS
<1>3. n[a] = Node(m[a].size, m[a].prev, v)
  BY <1>1, <1>2 DEF Node
<1> QED  BY <1>3 DEF Sound

\* A node is what its fields are.
LEMMA NodeFields ==
  ASSUME NEW s, NEW p, NEW v
  PROVE  /\ Node(s, p, v).size = s /\ Node(s, p, v).prev = p /\ Node(s, p, v).alloc = v
         /\ s \in Nat /\ p \in Nat /\ v \in BOOLEAN => Node(s, p, v) \in NodeType
BY DEF Node, NodeType

\* A block is split in two.
LEMMA CarveSound ==
  ASSUME NEW m, NEW R, Sound(m, R), NEW a \in DOMAIN m \ LastOf(R),
         NEW size \in Nat, NEW rest \in Nat, size >= NODE_S, rest >= NODE_S,
         size + rest = m[a].size
  PROVE  Sound(Carve(m, a, size, rest), R)
<1>a. PICK n : n = Carve(m, a, size, rest)
  OBVIOUS
<1>b. PICK b : b = a + size
  OBVIOUS
<1>c. PICK c : c = Succ(m, a)
  OBVIOUS
<1>0. Carved(m, n, a, size, rest)
  BY <1>a, CarveNodes
<1>1. /\ b \notin DOMAIN m /\ DOMAIN n = DOMAIN m \cup {b}
      /\ a < b /\ b < c /\ c = b + rest /\ c \in DOMAIN m /\ b \in Nat
      /\ n[a] = Node(size, m[a].prev, m[a].alloc)
      /\ n[b] = Node(rest, size, FALSE)
      /\ n[c] = Node(m[c].size, rest, m[c].alloc)
      /\ \A x \in DOMAIN m : x # a /\ x # c => n[x] = m[x]
  BY <1>0, <1>b, <1>c DEF Carved
<1>2. /\ n[a].size = size /\ n[a].prev = m[a].prev /\ n[a].alloc = m[a].alloc
      /\ n[b].size = rest /\ n[b].prev = size
      /\ n[c].size = m[c].size /\ n[c].prev = rest /\ n[c].alloc = m[c].alloc
  BY <1>1 DEF Node, NodeType
<1>3. \A x \in DOMAIN m : /\ x \in Nat /\ m[x].size \in Nat /\ m[x].prev \in Nat
                          /\ m[x].alloc \in BOOLEAN /\ m[x].size > 0
                          /\ m[x].size >= NODE_S
  BY Fields
<1>4. /\ R \subseteq Regions /\ m \in [DOMAIN m -> NodeType] /\ DOMAIN m \subseteq Nat
      /\ Inside(m, R) /\ Apart(m) /\ Ends(m, R) /\ Forward(m, R) /\ Backward(m, R)
  BY DEF Sound
<1>5. b = a + size /\ c = a + m[a].size /\ a \in DOMAIN m /\ a \in Nat /\ m[a].size \in Nat
  BY <1>b, <1>c, <1>3 DEF Succ
<1>6. \A x \in DOMAIN m : Succ(m, x) = c => x = a
  BY <1>c, NextBlock
<1>7. NODE_S \in Nat /\ NODE_S > 0 /\ \A r \in R : r.base \in Nat /\ r.size \in Nat
  BY <1>4, Sizes
<1>8. \A x \in DOMAIN m :
        /\ n[x].size = IF x = a THEN size ELSE m[x].size
        /\ n[x].prev = IF x = c THEN rest ELSE m[x].prev
        /\ n[x].alloc = m[x].alloc
        /\ n[x] \in NodeType
  <2>1. a # c /\ a \in DOMAIN m  BY <1>1, <1>3
  <2>2. n[a] \in NodeType /\ n[c] \in NodeType
    BY <1>1, <1>3, NodeFields
  <2> QED  BY <1>1, <1>2, <1>4, <2>1, <2>2
<1>9. n \in [DOMAIN n -> NodeType] /\ DOMAIN n \subseteq Nat
  <2>1. n[b] \in NodeType
    BY <1>1 DEF Node, NodeType
  <2>2. \A x \in DOMAIN n : n[x] \in NodeType /\ x \in Nat
    BY <1>1, <1>4, <1>8, <2>1
  <2>3. n = [x \in DOMAIN n |-> n[x]]
    BY <1>a DEF Carve, Tell
  <2> QED  BY <2>2, <2>3
<1>10. Inside(n, R)
  <2> SUFFICES ASSUME NEW x \in DOMAIN n
               PROVE  n[x].size >= NODE_S /\ \E r \in R : Within(n, r, x)
    BY DEF Inside
  <2>1. CASE x \in DOMAIN m
    <3>1. PICK r \in R : Within(m, r, x)
      BY <1>4, <2>1 DEF Inside
    <3> QED  BY <1>3, <1>5, <1>7, <1>8, <2>1, <3>1 DEF Within
  <2>2. CASE x = b
    <3>1. PICK r \in R : Within(m, r, a)
      BY <1>4 DEF Inside
    <3>2. r.base <= b /\ c <= r.base + r.size
      BY <1>1, <1>5, <1>7, <3>1 DEF Within
    <3>3. b + n[b].size = c
      BY <1>1, <1>2
    <3> QED  BY <1>2, <2>2, <3>2, <3>3 DEF Within
  <2> QED  BY <1>1, <2>1, <2>2
<1>11. Apart(n)
  <2> SUFFICES ASSUME NEW x \in DOMAIN n, NEW y \in DOMAIN n, x < y
               PROVE  x + n[x].size <= y
    BY DEF Apart
  <2>1. CASE x \in DOMAIN m /\ y \in DOMAIN m
    <3>1. x + m[x].size <= y  BY <1>4, <2>1 DEF Apart
    <3> QED  BY <1>3, <1>5, <1>8, <2>1, <3>1
  <2>2. CASE x = b /\ y \in DOMAIN m
    <3>1. a < y  BY <1>1, <1>3, <2>2
    <3>2. a + m[a].size <= y  BY <1>4, <2>2, <3>1 DEF Apart
    <3> QED  BY <1>1, <1>2, <1>3, <1>5, <2>2, <3>2
  <2>3. CASE x \in DOMAIN m /\ y = b
    <3>1. CASE x = a
      BY <1>2, <1>5, <2>3, <3>1
    <3>2. CASE x # a
      <4>1. ~(a < x)
        <5> SUFFICES ASSUME a < x  PROVE FALSE
          OBVIOUS
        <5>1. c <= x  BY <1>4, <1>5, <2>3 DEF Apart
        <5> QED  BY <1>1, <1>3, <2>3, <5>1
      <4>2. x + m[x].size <= a
        <5>1. x < a  BY <1>3, <2>3, <3>2, <4>1
        <5> QED  BY <1>4, <2>3, <5>1 DEF Apart
      <4> QED  BY <1>1, <1>3, <1>8, <2>3, <3>2, <4>2
    <3> QED  BY <3>1, <3>2
  <2>4. CASE x = b /\ y = b
    BY <1>1, <2>4
  <2> QED  BY <1>1, <2>1, <2>2, <2>3, <2>4
<1>12. Ends(n, R)
  BY <1>1, <1>4, <1>8 DEF Ends
<1>13. Forward(n, R)
  <2> SUFFICES ASSUME NEW x \in DOMAIN n \ LastOf(R)
               PROVE  Succ(n, x) \in DOMAIN n /\ n[Succ(n, x)].prev = n[x].size
    BY DEF Forward
  <2>1. CASE x = a
    BY <1>1, <1>2, <1>5, <2>1 DEF Succ
  <2>2. CASE x = b
    BY <1>1, <1>2, <2>2 DEF Succ
  <2>3. CASE x # a /\ x # b
    <3>1. x \in DOMAIN m /\ Succ(n, x) = Succ(m, x)
      BY <1>1, <1>8, <2>3 DEF Succ
    <3>2. Succ(m, x) \in DOMAIN m /\ m[Succ(m, x)].prev = m[x].size
      BY <1>4, <3>1 DEF Forward
    <3>3. Succ(m, x) # c
      BY <1>6, <2>3, <3>1
    <3> QED  BY <1>1, <1>8, <2>3, <3>1, <3>2, <3>3
  <2> QED  BY <2>1, <2>2, <2>3
<1>14. Backward(n, R)
  <2> SUFFICES ASSUME NEW x \in DOMAIN n \ FirstOf(R)
               PROVE  Pred(n, x) \in DOMAIN n /\ Succ(n, Pred(n, x)) = x
    BY DEF Backward
  <2>1. CASE x = b
    <3>0. Pred(n, b) = b - size
      BY <1>2 DEF Pred
    <3>1. Pred(n, x) = a
      BY <1>5, <2>1, <3>0
    <3> QED  BY <1>1, <1>2, <1>5, <2>1, <3>1 DEF Succ
  <2>2. CASE x = c
    <3>1. Pred(n, x) = b
      BY <1>1, <1>2, <2>2 DEF Pred
    <3> QED  BY <1>1, <1>2, <2>2, <3>1 DEF Succ
  <2>3. CASE x # b /\ x # c
    <3>1. x \in DOMAIN m /\ Pred(n, x) = Pred(m, x)
      BY <1>1, <1>8, <2>3 DEF Pred
    <3>2. Pred(m, x) \in DOMAIN m /\ Succ(m, Pred(m, x)) = x
      BY <1>4, <3>1 DEF Backward
    <3>3. Pred(m, x) # a
      BY <1>5, <2>3, <3>2 DEF Succ
    <3> QED  BY <1>1, <1>8, <3>1, <3>2, <3>3 DEF Succ
  <2> QED  BY <2>1, <2>2, <2>3
<1> QED  BY <1>a, <1>4, <1>9, <1>10, <1>11, <1>12, <1>13, <1>14 DEF Sound

\* Two blocks become one.
LEMMA MergeSound ==
  ASSUME NEW m, NEW R, Sound(m, R), NEW a \in DOMAIN m \ LastOf(R),
         Succ(m, a) \notin LastOf(R)
  PROVE  Sound(Merge(m, a, Succ(m, a)), R)
<1>a. PICK b : b = Succ(m, a)
  OBVIOUS
<1>b. PICK c : c = Succ(m, b)
  OBVIOUS
<1>c. PICK n : n = Merge(m, a, b)
  OBVIOUS
<1>d. PICK size : size = m[a].size + m[b].size
  OBVIOUS
<1>0. Merged(m, n, a)
  BY <1>a, <1>c, MergeNodes
<1>1. /\ b \in DOMAIN m /\ c \in DOMAIN m /\ a < b /\ b < c /\ c = a + size
      /\ DOMAIN n = DOMAIN m \ {b}
      /\ n[a] = Node(size, m[a].prev, m[a].alloc)
      /\ n[c] = Node(m[c].size, size, m[c].alloc)
      /\ \A x \in DOMAIN m \ {b} : x # a /\ x # c => n[x] = m[x]
  BY <1>0, <1>a, <1>b, <1>d DEF Merged
<1>2. /\ n[a].size = size /\ n[a].prev = m[a].prev /\ n[a].alloc = m[a].alloc
      /\ n[c].size = m[c].size /\ n[c].prev = size /\ n[c].alloc = m[c].alloc
  BY <1>1 DEF Node
<1>3. \A x \in DOMAIN m : /\ x \in Nat /\ m[x].size \in Nat /\ m[x].prev \in Nat
                          /\ m[x].alloc \in BOOLEAN /\ m[x].size > 0
                          /\ m[x].size >= NODE_S
  BY Fields
<1>4. /\ R \subseteq Regions /\ m \in [DOMAIN m -> NodeType] /\ DOMAIN m \subseteq Nat
      /\ Inside(m, R) /\ Apart(m) /\ Ends(m, R) /\ Forward(m, R) /\ Backward(m, R)
  BY DEF Sound
<1>5. /\ a \in DOMAIN m /\ a \in Nat /\ b \in Nat /\ c \in Nat /\ m[a].size \in Nat
      /\ m[b].size \in Nat /\ b = a + m[a].size /\ c = b + m[b].size /\ size \in Nat
      /\ size >= m[a].size
  BY <1>a, <1>b, <1>d, <1>1, <1>3 DEF Succ
<1>6. b \notin FirstOf(R) /\ b \notin LastOf(R)
  BY <1>a, <1>1, Sentinels
<1>7. \A x \in DOMAIN m : (Succ(m, x) = b => x = a) /\ (Succ(m, x) = c => x = b)
  BY <1>a, <1>b, <1>1, <1>6, NextBlock
<1>8. NODE_S \in Nat /\ NODE_S > 0 /\ \A r \in R : r.base \in Nat /\ r.size \in Nat
  BY <1>4, Sizes
<1>9. \A x \in DOMAIN n :
        /\ x \in DOMAIN m /\ x # b
        /\ n[x].size = IF x = a THEN size ELSE m[x].size
        /\ n[x].prev = IF x = c THEN size ELSE m[x].prev
        /\ n[x].alloc = m[x].alloc
        /\ n[x] \in NodeType
  <2>1. a # c /\ a # b /\ b # c  BY <1>1, <1>5
  <2>2. n[a] \in NodeType /\ n[c] \in NodeType
    BY <1>1, <1>3, <1>5, NodeFields
  <2> QED  BY <1>1, <1>2, <1>4, <2>1, <2>2
<1>10. n \in [DOMAIN n -> NodeType] /\ DOMAIN n \subseteq Nat
  <2>1. n = [x \in DOMAIN n |-> n[x]]
    BY <1>c DEF Merge, Tell
  <2> QED  BY <1>4, <1>9, <2>1
<1>11. Inside(n, R)
  <2> SUFFICES ASSUME NEW x \in DOMAIN n
               PROVE  n[x].size >= NODE_S /\ \E r \in R : Within(n, r, x)
    BY DEF Inside
  <2>1. CASE x = a
    <3>1. PICK r \in R : Within(m, r, a)
      BY <1>4, <1>5 DEF Inside
    <3>2. Within(m, r, b)
      BY <1>a, <3>1, NextBlock
    <3>3. r.base <= a /\ a + size <= r.base + r.size
      BY <1>1, <1>5, <3>1, <3>2 DEF Within
    <3>4. size >= NODE_S
      BY <1>3, <1>5, <1>8
    <3> QED  BY <1>2, <2>1, <3>3, <3>4 DEF Within
  <2>2. CASE x # a
    <3>1. PICK r \in R : Within(m, r, x) /\ m[x].size >= NODE_S
      BY <1>4, <1>9 DEF Inside
    <3> QED  BY <1>9, <2>2, <3>1 DEF Within
  <2> QED  BY <2>1, <2>2
<1>12. Apart(n)
  <2> SUFFICES ASSUME NEW x \in DOMAIN n, NEW y \in DOMAIN n, x < y
               PROVE  x + n[x].size <= y
    BY DEF Apart
  <2>0. x \in DOMAIN m /\ y \in DOMAIN m /\ y # b /\ x + m[x].size <= y
    BY <1>4, <1>9 DEF Apart
  <2>1. CASE x = a
    <3>1. b < y
      BY <1>3, <1>5, <2>0, <2>1
    <3>2. b + m[b].size <= y
      BY <1>1, <1>4, <2>0, <3>1 DEF Apart
    <3> QED  BY <1>1, <1>2, <1>5, <2>1, <3>2
  <2>2. CASE x # a
    BY <1>9, <2>0, <2>2
  <2> QED  BY <2>1, <2>2
<1>13. Ends(n, R)
  BY <1>1, <1>4, <1>6, <1>9 DEF Ends
<1>14. Forward(n, R)
  <2> SUFFICES ASSUME NEW x \in DOMAIN n \ LastOf(R)
               PROVE  Succ(n, x) \in DOMAIN n /\ n[Succ(n, x)].prev = n[x].size
    BY DEF Forward
  <2>1. CASE x = a
    BY <1>1, <1>2, <1>5, <2>1 DEF Succ
  <2>2. CASE x # a
    <3>1. x \in DOMAIN m /\ x # b /\ Succ(n, x) = Succ(m, x) /\ n[x].size = m[x].size
      BY <1>9, <2>2 DEF Succ
    <3>2. Succ(m, x) \in DOMAIN m /\ m[Succ(m, x)].prev = m[x].size
      BY <1>4, <3>1 DEF Forward
    <3>3. Succ(m, x) # c /\ Succ(m, x) # b
      BY <1>7, <2>2, <3>1
    <3>4. Succ(m, x) \in DOMAIN n
      BY <1>1, <3>2, <3>3
    <3> QED  BY <1>9, <3>1, <3>2, <3>3, <3>4
  <2> QED  BY <2>1, <2>2
<1>15. Backward(n, R)
  <2> SUFFICES ASSUME NEW x \in DOMAIN n \ FirstOf(R)
               PROVE  Pred(n, x) \in DOMAIN n /\ Succ(n, Pred(n, x)) = x
    BY DEF Backward
  <2>1. CASE x = c
    <3>0. Pred(n, c) = c - size
      BY <1>2 DEF Pred
    <3>1. Pred(n, x) = a /\ a \in DOMAIN n
      BY <1>1, <1>5, <2>1, <3>0
    <3> QED  BY <1>1, <1>2, <2>1, <3>1 DEF Succ
  <2>2. CASE x # c
    <3>1. x \in DOMAIN m /\ x # b /\ Pred(n, x) = Pred(m, x)
      BY <1>9, <2>2 DEF Pred
    <3>2. Pred(m, x) \in DOMAIN m /\ Succ(m, Pred(m, x)) = x
      BY <1>4, <3>1 DEF Backward
    <3>3. Pred(m, x) # a /\ Pred(m, x) # b
      BY <1>a, <1>b, <2>2, <3>1, <3>2
    <3>4. Pred(m, x) \in DOMAIN n
      BY <1>1, <3>2, <3>3
    <3> QED  BY <1>9, <3>1, <3>2, <3>3, <3>4 DEF Succ
  <2> QED  BY <2>1, <2>2
<1> QED  BY <1>a, <1>c, <1>4, <1>10, <1>11, <1>12, <1>13, <1>14, <1>15 DEF Sound

\* FLAG_ALLOCATED of a block that is not a sentinel may change.
LEMMA AllocSound ==
  ASSUME NEW m, NEW R, Sound(m, R), NEW v \in BOOLEAN,
         NEW a \in DOMAIN m, a \notin FirstOf(R), a \notin LastOf(R)
  PROVE  Sound([m EXCEPT ![a].alloc = v], R)
<1>a. PICK n : n = [m EXCEPT ![a].alloc = v]
  OBVIOUS
<1>1. /\ DOMAIN n = DOMAIN m /\ n[a] = Node(m[a].size, m[a].prev, v)
      /\ \A x \in DOMAIN m : x # a => n[x] = m[x]
  BY <1>a, AllocNodes
<1>2. /\ R \subseteq Regions /\ m \in [DOMAIN m -> NodeType] /\ DOMAIN m \subseteq Nat
      /\ Inside(m, R) /\ Apart(m) /\ Ends(m, R) /\ Forward(m, R) /\ Backward(m, R)
  BY DEF Sound
<1>3. \A x \in DOMAIN m : /\ n[x].size = m[x].size /\ n[x].prev = m[x].prev
                          /\ x # a => n[x].alloc = m[x].alloc
  BY <1>1 DEF Node
<1>4. n \in [DOMAIN m -> NodeType]
  <2>1. n[a] \in NodeType
    BY <1>1, Fields, NodeFields
  <2>2. n = [x \in DOMAIN n |-> n[x]]
    BY <1>a
  <2> QED  BY <1>1, <1>2, <2>1, <2>2
<1>5. Inside(n, R) /\ Apart(n)
  BY <1>1, <1>2, <1>3 DEF Inside, Within, Apart
<1>6. Ends(n, R)
  BY <1>1, <1>2 DEF Ends
<1>7. \A x \in DOMAIN m : Succ(n, x) = Succ(m, x) /\ Pred(n, x) = Pred(m, x)
  BY <1>3 DEF Succ, Pred
<1>8. Forward(n, R) /\ Backward(n, R)
  BY <1>1, <1>2, <1>3, <1>7 DEF Forward, Backward
<1> QED  BY <1>a, <1>1, <1>2, <1>4, <1>5, <1>6, <1>8 DEF Sound

\* The heap after mdx_fl_add_region.
Extended(m, r) ==
  Put(Put(Put(m, r.base, Node(NODE_S, 0, TRUE)),
          r.base + NODE_S, Node(r.size - 2 * NODE_S, NODE_S, FALSE)),
      r.base + r.size - NODE_S, Node(NODE_S, r.size - 2 * NODE_S, TRUE))

\* A new region holds no header yet, and its three blocks tile it.
LEMMA RegionSound ==
  ASSUME NEW m, NEW R, Sound(m, R), NEW r \in Regions, r \notin R
  PROVE  LET n == Extended(m, r)
             f == r.base + NODE_S
         IN  /\ Sound(n, R \cup {r})
             /\ f \notin DOMAIN m
             /\ FreeOf(n) = FreeOf(m) \cup {f}
             /\ UsedOf(n, R \cup {r}) = UsedOf(m, R)
             /\ \A x \in DOMAIN m : n[x] = m[x]
             /\ Coalesced(m) => Coalesced(n)
<1>a. PICK n : n = Extended(m, r)
  OBVIOUS
<1>b. PICK a : a = r.base
  OBVIOUS
<1>c. PICK f : f = r.base + NODE_S
  OBVIOUS
<1>d. PICK z : z = r.base + r.size - NODE_S
  OBVIOUS
<1>e. PICK room : room = r.size - 2 * NODE_S
  OBVIOUS
<1>1. /\ NODE_S \in Nat /\ NODE_S > 0 /\ a \in Nat /\ f \in Nat /\ z \in Nat
      /\ room \in Nat /\ room >= NODE_S /\ f = a + NODE_S /\ z = f + room
      /\ z + NODE_S = r.base + r.size /\ a < f /\ f < z
      /\ a # f /\ f # z /\ a # z
  BY <1>b, <1>c, <1>d, <1>e, Sizes
<1>2. /\ R \subseteq Regions /\ m \in [DOMAIN m -> NodeType] /\ DOMAIN m \subseteq Nat
      /\ Inside(m, R) /\ Apart(m) /\ Ends(m, R) /\ Forward(m, R) /\ Backward(m, R)
  BY DEF Sound
<1>3. /\ r.base \in Nat /\ r.size \in Nat
      /\ \A s \in R : /\ s.base \in Nat /\ s.size \in Nat
                      /\ r.base + r.size <= s.base \/ s.base + s.size <= r.base
  BY <1>2, Sizes, FreelistAssumption
<1>4. \A x \in DOMAIN m : /\ x \in Nat /\ m[x].size \in Nat /\ m[x].size > 0
                          /\ m[x].size >= NODE_S
  BY Fields
<1>5. \A x \in DOMAIN m : x + m[x].size <= a \/ z + NODE_S <= x
  <2> SUFFICES ASSUME NEW x \in DOMAIN m
               PROVE  x + m[x].size <= a \/ z + NODE_S <= x
    OBVIOUS
  <2>1. PICK s \in R : Within(m, s, x)
    BY <1>2 DEF Inside
  <2> QED  BY <1>b, <1>1, <1>3, <1>4, <2>1 DEF Within
<1>6. a \notin DOMAIN m /\ f \notin DOMAIN m /\ z \notin DOMAIN m
  BY <1>1, <1>4, <1>5
<1>7. /\ DOMAIN n = DOMAIN m \cup {a, f, z}
      /\ n[a] = Node(NODE_S, 0, TRUE)
      /\ n[f] = Node(room, NODE_S, FALSE)
      /\ n[z] = Node(NODE_S, room, TRUE)
      /\ \A x \in DOMAIN m : n[x] = m[x]
      /\ n = [x \in DOMAIN n |-> n[x]]
  <2>1. PICK n1 : n1 = Put(m, a, Node(NODE_S, 0, TRUE))
    OBVIOUS
  <2>2. PICK n2 : n2 = Put(n1, f, Node(room, NODE_S, FALSE))
    OBVIOUS
  <2>3. n = Put(n2, z, Node(NODE_S, room, TRUE))
    BY <1>a, <1>b, <1>c, <1>d, <1>e, <2>1, <2>2 DEF Extended
  <2>4. /\ DOMAIN n1 = DOMAIN m \cup {a} /\ n1[a] = Node(NODE_S, 0, TRUE)
        /\ \A x \in DOMAIN m : x # a => n1[x] = m[x]
    BY <2>1 DEF Put
  <2>5. /\ DOMAIN n2 = DOMAIN n1 \cup {f} /\ n2[f] = Node(room, NODE_S, FALSE)
        /\ \A x \in DOMAIN n1 : x # f => n2[x] = n1[x]
    BY <2>2 DEF Put
  <2>6. /\ DOMAIN n = DOMAIN n2 \cup {z} /\ n[z] = Node(NODE_S, room, TRUE)
        /\ \A x \in DOMAIN n2 : x # z => n[x] = n2[x]
        /\ n = [x \in DOMAIN n |-> n[x]]
    BY <2>3 DEF Put
  <2> QED  BY <1>1, <1>6, <2>4, <2>5, <2>6
<1>8. /\ n[a].size = NODE_S /\ n[a].prev = 0 /\ n[a].alloc
      /\ n[f].size = room /\ n[f].prev = NODE_S /\ ~n[f].alloc
      /\ n[z].size = NODE_S /\ n[z].prev = room /\ n[z].alloc
  BY <1>7 DEF Node
<1>9. n \in [DOMAIN n -> NodeType] /\ DOMAIN n \subseteq Nat
  <2>1. n[a] \in NodeType /\ n[f] \in NodeType /\ n[z] \in NodeType
    BY <1>1, <1>7 DEF Node, NodeType
  <2> QED  BY <1>1, <1>2, <1>7, <2>1
<1>10. Inside(n, R \cup {r})
  <2> SUFFICES ASSUME NEW x \in DOMAIN n
               PROVE  n[x].size >= NODE_S /\ \E s \in R \cup {r} : Within(n, s, x)
    BY DEF Inside
  <2>1. CASE x \in DOMAIN m
    <3>1. PICK s \in R : Within(m, s, x) /\ m[x].size >= NODE_S
      BY <1>2, <2>1 DEF Inside
    <3> QED  BY <1>7, <2>1, <3>1 DEF Within
  <2>2. CASE x \in {a, f, z}
    <3>1. r.base <= x /\ x + n[x].size <= r.base + r.size /\ n[x].size >= NODE_S
      BY <1>b, <1>1, <1>3, <1>8, <2>2
    <3> QED  BY <3>1 DEF Within
  <2> QED  BY <1>7, <2>1, <2>2
<1>11. Apart(n)
  <2> SUFFICES ASSUME NEW x \in DOMAIN n, NEW y \in DOMAIN n, x < y
               PROVE  x + n[x].size <= y
    BY DEF Apart
  <2>1. CASE x \in DOMAIN m /\ y \in DOMAIN m
    BY <1>2, <1>7, <2>1 DEF Apart
  <2>2. CASE x \in DOMAIN m /\ y \in {a, f, z}
    <3>1. n[x].size = m[x].size /\ x \in Nat /\ m[x].size \in Nat
      BY <1>4, <1>7, <2>2
    <3> QED  BY <1>1, <1>5, <2>2, <3>1
  <2>3. CASE x \in {a, f, z} /\ y \in DOMAIN m
    <3>1. y \in Nat /\ m[y].size \in Nat /\ m[y].size > 0 
      BY <1>4, <2>3
    <3>2. z + NODE_S <= y
      BY <1>1, <1>5, <2>3, <3>1
    <3> QED  BY <1>1, <1>8, <2>3, <3>1, <3>2
  <2>4. CASE x \in {a, f, z} /\ y \in {a, f, z}
    BY <1>1, <1>8, <2>4
  <2> QED  BY <1>7, <2>1, <2>2, <2>3, <2>4
<1>12. /\ FirstOf(R \cup {r}) = FirstOf(R) \cup {a}
       /\ LastOf(R \cup {r}) = LastOf(R) \cup {z}
       /\ FirstOf(R) \cup LastOf(R) \subseteq DOMAIN m
  BY <1>b, <1>d, <1>2 DEF FirstOf, LastOf, Ends
<1>13. Ends(n, R \cup {r})
  BY <1>2, <1>7, <1>8, <1>12 DEF Ends
<1>14. \A x \in DOMAIN m : Succ(n, x) = Succ(m, x) /\ Pred(n, x) = Pred(m, x)
  BY <1>7 DEF Succ, Pred
<1>15. Succ(n, a) = f /\ Succ(n, f) = z /\ Pred(n, f) = a /\ Pred(n, z) = f
  BY <1>1, <1>8 DEF Succ, Pred
<1>16. Forward(n, R \cup {r})
  <2> SUFFICES ASSUME NEW x \in DOMAIN n \ LastOf(R \cup {r})
               PROVE  Succ(n, x) \in DOMAIN n /\ n[Succ(n, x)].prev = n[x].size
    BY DEF Forward
  <2>1. CASE x \in DOMAIN m
    <3>1. Succ(m, x) \in DOMAIN m /\ m[Succ(m, x)].prev = m[x].size
      BY <1>2, <1>12, <2>1 DEF Forward
    <3> QED  BY <1>7, <1>14, <2>1, <3>1
  <2>2. CASE x = a \/ x = f
    BY <1>7, <1>8, <1>15, <2>2
  <2> QED  BY <1>7, <1>12, <2>1, <2>2
<1>17. Backward(n, R \cup {r})
  <2> SUFFICES ASSUME NEW x \in DOMAIN n \ FirstOf(R \cup {r})
               PROVE  Pred(n, x) \in DOMAIN n /\ Succ(n, Pred(n, x)) = x
    BY DEF Backward
  <2>1. CASE x \in DOMAIN m
    <3>1. Pred(m, x) \in DOMAIN m /\ Succ(m, Pred(m, x)) = x
      BY <1>2, <1>12, <2>1 DEF Backward
    <3> QED  BY <1>7, <1>14, <2>1, <3>1
  <2>2. CASE x = z \/ x = f
    BY <1>7, <1>15, <2>2
  <2> QED  BY <1>7, <1>12, <2>1, <2>2
<1>18. Sound(n, R \cup {r})
  BY <1>2, <1>9, <1>10, <1>11, <1>13, <1>16, <1>17 DEF Sound
<1>19. FreeOf(n) = FreeOf(m) \cup {f}
  BY <1>7, <1>8 DEF FreeOf, Free
<1>20. UsedOf(n, R \cup {r}) = UsedOf(m, R)
  BY <1>6, <1>7, <1>12, <1>19 DEF UsedOf
<1>21. ASSUME Coalesced(m)
       PROVE  Coalesced(n)
  <2> SUFFICES ASSUME NEW x \in FreeOf(n)
               PROVE  ~Free(n, Succ(n, x))
    BY DEF Coalesced
  <2>1. CASE x = f
    BY <1>8, <1>15, <2>1 DEF Free
  <2>2. CASE x \in FreeOf(m)
    <3>1. x \in DOMAIN m /\ x \notin LastOf(R) /\ ~Free(m, Succ(m, x))
      BY <1>21, <2>2, Sentinels DEF FreeOf, Coalesced
    <3>2. Succ(m, x) \in DOMAIN m
      BY <3>1, NextBlock
    <3> QED  BY <1>7, <1>14, <3>1, <3>2 DEF Free
  <2> QED  BY <1>19, <2>1, <2>2
<1> QED  BY <1>a, <1>c, <1>6, <1>7, <1>18, <1>19, <1>20, <1>21

-----------------------------------------------------------------------------
(***************************************************************************)
(* The lists by size.                                                      *)
(***************************************************************************)

\* A size that has a list.
Listed(size) == size \in Nat /\ size \div ALIGN < 2 ^ NLists

\* The least number of a set.
LEMMA LeastMin ==
  ASSUME NEW T \in SUBSET Nat, T # {}
  PROVE  Min(T) \in T /\ \A y \in T : Min(T) <= y
BY LeastNat DEF Min

\* size2i gives the first list that is not for smaller sizes.
LEMMA SizeIndex ==
  ASSUME NEW s, Listed(s)
  PROVE  /\ size2i(s) \in 0 .. NLists - 1 /\ s \div ALIGN < 2 ^ (size2i(s) + 1)
         /\ \A i \in 0 .. NLists - 1 : s \div ALIGN < 2 ^ (i + 1) => size2i(s) <= i
<1> DEFINE T == {i \in 0 .. NLists - 1 : s \div ALIGN < 2 ^ (i + 1)}
<1>1. NLists - 1 \in 0 .. NLists - 1 /\ (NLists - 1) + 1 = NLists
  BY Sizes
<1>2. NLists - 1 \in T
  BY <1>1 DEF Listed
<1>3. T \subseteq 0 .. NLists - 1
  OBVIOUS
<1>4. size2i(s) = Min(T)
  BY DEF size2i
<1>5. Min(T) \in T /\ \A y \in T : Min(T) <= y
  <2> HIDE DEF T
  <2>1. T \in SUBSET Nat /\ T # {}
    BY <1>2, <1>3, Sizes
  <2> QED  BY <2>1, LeastMin
<1> QED  BY <1>4, <1>5

\* A larger block is not in an earlier list.
LEMMA IndexMonotone ==
  ASSUME NEW s, Listed(s), NEW t, Listed(t), s <= t
  PROVE  size2i(s) <= size2i(t)
<1>1. s \in Nat /\ t \in Nat /\ ALIGN \in Nat \ {0}
  BY Sizes DEF Listed
<1>2. s \div ALIGN <= t \div ALIGN /\ s \div ALIGN \in Nat /\ t \div ALIGN \in Nat
  BY <1>1
<1>3. size2i(t) \in 0 .. NLists - 1 /\ t \div ALIGN < 2 ^ (size2i(t) + 1)
  BY SizeIndex
<1>4. 2 ^ (size2i(t) + 1) \in Int
  BY <1>3, Sizes
<1>5. s \div ALIGN < 2 ^ (size2i(t) + 1)
  BY <1>2, <1>3, <1>4
<1> QED  BY <1>3, <1>5, SizeIndex

\* Every block has a list.
LEMMA BlockListed ==
  ASSUME NEW m, NEW R, Sound(m, R), NEW a \in DOMAIN m
  PROVE  Listed(m[a].size)
<1>1. PICK r \in R : Within(m, r, a)
  BY DEF Sound, Inside
<1>2. r.base \in Nat /\ r.size \in Nat /\ r.size \div ALIGN < 2 ^ NLists /\ ALIGN \in Nat \ {0}
      /\ NLists \in Nat
  BY Sizes DEF Sound
<1>3. a \in Nat /\ m[a].size \in Nat
  BY Fields
<1>4. m[a].size <= r.size
  BY <1>1, <1>2, <1>3 DEF Within
<1>5. m[a].size \div ALIGN <= r.size \div ALIGN /\ m[a].size \div ALIGN \in Nat
      /\ r.size \div ALIGN \in Nat
  BY <1>2, <1>3, <1>4
<1>6. 2 ^ NLists \in Int
  BY <1>2
<1> QED  BY <1>2, <1>3, <1>5, <1>6 DEF Listed

\* The size of the block for n, and that of the block for the block.
LEMMA BlockSizes ==
  ASSUME NEW n \in Requests
  PROVE  /\ BlockSize(n) \in Nat /\ BlockSize(n) >= n + NODE_S
         /\ BlockSize(BlockSize(n)) \in Nat
         /\ BlockSize(BlockSize(n)) >= BlockSize(n) + NODE_S
         /\ Listed(BlockSize(n)) /\ Listed(BlockSize(BlockSize(n)))
<1>1. /\ n \in Nat /\ NODE_S \in Nat /\ ALIGN \in Nat /\ ALIGN > 0 /\ NLists \in Nat
      /\ (n + 2 * NODE_S + 2 * ALIGN) \div ALIGN < 2 ^ NLists
  BY Sizes, FreelistAssumption
<1>2. ASSUME NEW x \in Nat, NEW A \in Nat, A > 0
      PROVE  /\ ((x + A - 1) \div A) * A \in Nat
             /\ ((x + A - 1) \div A) * A >= x
             /\ ((x + A - 1) \div A) * A <= x + A - 1
             /\ (((x + A - 1) \div A) * A) \div A = (x + A - 1) \div A
  <2>1. PICK q : q = (x + A - 1) \div A
    OBVIOUS
  <2>2. q \in Nat /\ q * A <= x + A - 1 /\ x + A - 1 < q * A + A
    BY <1>2, <2>1
  <2>3. q * A \in Nat /\ (q * A) \div A = q
    BY <1>2, <2>2
  <2>4. q * A >= x
    BY <1>2, <2>2, <2>3
  <2> QED  BY <2>1, <2>2, <2>3, <2>4
<1>3. PICK b : b = BlockSize(n)
  OBVIOUS
<1>4. PICK c : c = BlockSize(b)
  OBVIOUS
<1>5. /\ n + NODE_S \in Nat
      /\ b = (((n + NODE_S) + ALIGN - 1) \div ALIGN) * ALIGN
  BY <1>1, <1>3 DEF BlockSize
<1>6. /\ b \in Nat /\ b >= n + NODE_S /\ b <= (n + NODE_S) + ALIGN - 1
      /\ b \div ALIGN = ((n + NODE_S) + ALIGN - 1) \div ALIGN
  BY <1>1, <1>2, <1>5
<1>7. /\ b + NODE_S \in Nat
      /\ c = (((b + NODE_S) + ALIGN - 1) \div ALIGN) * ALIGN
  BY <1>1, <1>4, <1>6 DEF BlockSize
<1>8. /\ c \in Nat /\ c >= b + NODE_S
      /\ c \div ALIGN = ((b + NODE_S) + ALIGN - 1) \div ALIGN
  BY <1>1, <1>2, <1>7
<1>9. ASSUME NEW x \in Nat, x <= n + 2 * NODE_S + 2 * ALIGN
      PROVE  x \div ALIGN < 2 ^ NLists
  <2>1. /\ x \div ALIGN <= (n + 2 * NODE_S + 2 * ALIGN) \div ALIGN
        /\ x \div ALIGN \in Nat /\ (n + 2 * NODE_S + 2 * ALIGN) \div ALIGN \in Nat
    BY <1>1, <1>9
  <2>2. 2 ^ NLists \in Int
    BY <1>1
  <2> QED  BY <1>1, <2>1, <2>2
<1>10. b \div ALIGN < 2 ^ NLists /\ c \div ALIGN < 2 ^ NLists
  <2>1. /\ (n + NODE_S) + ALIGN - 1 \in Nat
        /\ (n + NODE_S) + ALIGN - 1 <= n + 2 * NODE_S + 2 * ALIGN
        /\ (b + NODE_S) + ALIGN - 1 \in Nat
        /\ (b + NODE_S) + ALIGN - 1 <= n + 2 * NODE_S + 2 * ALIGN
    BY <1>1, <1>6
  <2> QED  BY <1>6, <1>8, <1>9, <2>1
<1> QED  BY <1>3, <1>4, <1>6, <1>8, <1>10 DEF Listed

\* The sizes of the blocks of F.
Sized(m, F) == F \subseteq DOMAIN m /\ \A a \in F : Listed(m[a].size)

\* The entries of a list.
LEMMA Entries ==
  ASSUME NEW F, NEW s \in Seq(F)
  PROVE  /\ Len(s) \in Nat /\ DOMAIN s = 1 .. Len(s)
         /\ \A i \in 1 .. Len(s) : s[i] \in F /\ On(s, s[i])
         /\ \A a : On(s, a) => a \in F
BY DEF On

\* A sequence of elements of G.
LEMMA SeqInto ==
  ASSUME NEW F, NEW s \in Seq(F), NEW G, \A a : On(s, a) => a \in G
  PROVE  s \in Seq(G)
<1>1. /\ Len(s) \in Nat /\ s \in [1 .. Len(s) -> F]
      /\ \A i \in 1 .. Len(s) : s[i] \in G
  <2>1. Len(s) \in Nat /\ s \in [1 .. Len(s) -> F]
    OBVIOUS
  <2> QED  BY <2>1 DEF On
<1>2. s \in [1 .. Len(s) -> G]
  BY <1>1
<1> QED  BY <1>1, <1>2, SeqDef

\* Unlinking a node keeps the order.
LEMMA SortedRemove ==
  ASSUME NEW m, NEW F, NEW s \in Seq(F), Sorted(m, s), NEW e
  PROVE  Sorted(m, RemoveFirst(s, e))
<1>1. CASE On(s, e)
  <2>1. PICK i \in 1 .. Len(s) : RemoveFirst(s, e) = RemoveAt(s, i)
    BY <1>1, RemoveFirstAt
  <2>2. PICK r : r = RemoveAt(s, i)
    OBVIOUS
  <2>3. /\ Len(s) \in Nat /\ Len(r) = Len(s) - 1
        /\ \A j \in 1 .. i - 1 : r[j] = s[j]
        /\ \A j \in i .. Len(s) - 1 : r[j] = s[j + 1]
    BY <2>2, RemoveAtElements, Entries
  <2>4. ASSUME NEW j \in 1 .. Len(r), NEW k \in 1 .. Len(r), j < k
        PROVE  m[r[j]].size <= m[r[k]].size
    <3>1. PICK x \in 1 .. Len(s) : r[j] = s[x] /\ x = IF j < i THEN j ELSE j + 1
      BY <2>3
    <3>2. PICK y \in 1 .. Len(s) : r[k] = s[y] /\ y = IF k < i THEN k ELSE k + 1
      BY <2>3
    <3>3. x < y
      BY <2>4, <3>1, <3>2
    <3> QED  BY <3>1, <3>2, <3>3 DEF Sorted
  <2> QED  BY <2>1, <2>2, <2>4 DEF Sorted
<1>2. CASE ~On(s, e)
  <2>1. RemoveFirst(s, e) = s
    BY <1>2 DEF On, RemoveFirst
  <2> QED  BY <2>1
<1> QED  BY <1>1, <1>2

\* The place in front of the first node that is not smaller than e.
Place(m, s, e) ==
  Min({k \in DOMAIN s : m[s[k]].size >= m[e].size} \cup {Len(s) + 1})

\* Linking a node before the first one that is not smaller keeps it.
LEMMA SortedInsert ==
  ASSUME NEW m, NEW F, NEW s \in Seq(F), Sorted(m, s), Sized(m, F),
         NEW e, m[e].size \in Nat, Once(s), ~On(s, e)
  PROVE  LET r == InsertAt(s, Place(m, s, e), e)
         IN  /\ r \in Seq(F \cup {e}) /\ Sorted(m, r) /\ Once(r)
             /\ \A a : On(r, a) <=> On(s, a) \/ a = e
<1>a. PICK T : T = {k \in DOMAIN s : m[s[k]].size >= m[e].size} \cup {Len(s) + 1}
  OBVIOUS
<1>b. PICK i : i = Min(T)
  OBVIOUS
<1>c. PICK r : r = InsertAt(s, i, e)
  OBVIOUS
<1>1. /\ Len(s) \in Nat /\ DOMAIN s = 1 .. Len(s)
      /\ \A j \in 1 .. Len(s) : m[s[j]].size \in Nat
      /\ s \in Seq(F \cup {e})
  <2>1. Len(s) \in Nat /\ DOMAIN s = 1 .. Len(s) /\ \A j \in 1 .. Len(s) : s[j] \in F
    BY Entries
  <2>2. \A a : On(s, a) => a \in F \cup {e}
    BY Entries
  <2>3. s \in Seq(F \cup {e})
    BY <2>2, SeqInto
  <2> QED  BY <2>1, <2>3 DEF Sized, Listed
<1>2. T \in SUBSET Nat /\ T # {} /\ T \subseteq 1 .. Len(s) + 1
  BY <1>a, <1>1
<1>3. i \in T /\ \A k \in T : i <= k
  BY <1>b, <1>2, LeastMin
<1>4. /\ i \in 1 .. Len(s) + 1
      /\ \A k \in 1 .. Len(s) : k < i => m[s[k]].size < m[e].size
      /\ i # Len(s) + 1 => m[s[i]].size >= m[e].size
  <2>1. i \in 1 .. Len(s) + 1
    BY <1>2, <1>3
  <2>2. ASSUME NEW k \in 1 .. Len(s), k < i
        PROVE  m[s[k]].size < m[e].size
    <3>1. k \notin T
      BY <1>3, <2>1, <2>2
    <3> QED  BY <1>a, <1>1, <3>1
  <2> QED  BY <1>a, <1>3, <2>1, <2>2
<1>5. /\ r \in Seq(F \cup {e}) /\ Len(r) = Len(s) + 1
      /\ \A j \in 1 .. i - 1 : r[j] = s[j]
      /\ r[i] = e
      /\ \A j \in i + 1 .. Len(s) + 1 : r[j] = s[j - 1]
  <2>1. PICK G : G = F \cup {e}
    OBVIOUS
  <2>2. e \in G /\ s \in Seq(G)
    BY <1>1, <2>1
  <2>3. /\ r \in Seq(G) /\ Len(r) = Len(s) + 1
        /\ \A j \in 1 .. i - 1 : r[j] = s[j]
        /\ r[i] = e
        /\ \A j \in i + 1 .. Len(s) + 1 : r[j] = s[j - 1]
    BY <1>c, <1>4, <2>2, InsertAtElements
  <2> QED  BY <2>1, <2>3
<1>6. \A j \in 1 .. Len(r) : \/ j < i /\ r[j] = s[j]
                             \/ j = i
                             \/ j > i /\ j - 1 \in 1 .. Len(s) /\ r[j] = s[j - 1]
  BY <1>1, <1>4, <1>5
<1>7. ASSUME NEW a
      PROVE  On(r, a) <=> On(s, a) \/ a = e
  <2>1. ASSUME NEW j \in 1 .. Len(r), r[j] = a
        PROVE  On(s, a) \/ a = e
    <3>1. CASE j < i
      <4>1. j \in 1 .. Len(s) /\ s[j] = a
        BY <1>1, <1>4, <1>5, <1>6, <2>1, <3>1
      <4> QED  BY <4>1 DEF On
    <3>2. CASE j = i
      BY <1>5, <2>1, <3>2
    <3>3. CASE j > i
      <4>1. j - 1 \in 1 .. Len(s) /\ s[j - 1] = a
        BY <1>1, <1>4, <1>5, <1>6, <2>1, <3>3
      <4> QED  BY <4>1 DEF On
    <3> QED  BY <1>4, <3>1, <3>2, <3>3
  <2>2. ASSUME NEW j \in 1 .. Len(s)
        PROVE  On(r, s[j])
    <3>1. CASE j < i
      <4>0. j \in 1 .. Len(r) /\ j \in 1 .. i - 1
        BY <1>1, <1>4, <1>5, <3>1
      <4>1. r[j] = s[j]
        BY <1>5, <4>0
      <4> QED  BY <4>0, <4>1 DEF On
    <3>2. CASE j >= i
      <4>1. j + 1 \in 1 .. Len(r) /\ r[j + 1] = s[j]
        BY <1>1, <1>4, <1>5, <3>2
      <4> QED  BY <4>1 DEF On
    <3> QED  BY <1>4, <3>1, <3>2
  <2>3. On(r, e)
    BY <1>1, <1>4, <1>5 DEF On
  <2> QED  BY <2>1, <2>2, <2>3 DEF On
<1>8. Sorted(m, r)
  <2> SUFFICES ASSUME NEW j \in 1 .. Len(r), NEW k \in 1 .. Len(r), j < k
               PROVE  m[r[j]].size <= m[r[k]].size
    BY DEF Sorted
  <2>1. CASE j # i /\ k # i
    <3>1. PICK x \in 1 .. Len(s) : r[j] = s[x] /\ x = IF j < i THEN j ELSE j - 1
      BY <1>1, <1>4, <1>5, <2>1
    <3>2. PICK y \in 1 .. Len(s) : r[k] = s[y] /\ y = IF k < i THEN k ELSE k - 1
      BY <1>1, <1>4, <1>5, <2>1
    <3>3. x < y
      BY <1>4, <2>1, <3>1, <3>2
    <3> QED  BY <3>1, <3>2, <3>3 DEF Sorted
  <2>2. CASE k = i
    <3>1. j \in 1 .. Len(s) /\ j < i /\ r[j] = s[j]
      BY <1>1, <1>4, <1>5, <2>2
    <3>2. m[s[j]].size < m[e].size /\ m[s[j]].size \in Nat
      BY <1>1, <1>4, <3>1
    <3> QED  BY <1>5, <2>2, <3>1, <3>2
  <2>3. CASE j = i
    <3>1. /\ k - 1 \in 1 .. Len(s) /\ i \in 1 .. Len(s) /\ i # Len(s) + 1
          /\ i <= k - 1 /\ r[k] = s[k - 1]
      BY <1>1, <1>4, <1>5, <2>3
    <3>2. m[s[i]].size <= m[s[k - 1]].size
      BY <1>1, <3>1 DEF Sorted
    <3>3. m[s[i]].size >= m[e].size /\ m[s[i]].size \in Nat /\ m[s[k - 1]].size \in Nat
      BY <1>1, <1>4, <3>1
    <3> QED  BY <1>5, <2>3, <3>1, <3>2, <3>3
  <2> QED  BY <2>1, <2>2, <2>3
<1>9. Once(r)
  <2> SUFFICES ASSUME NEW j \in 1 .. Len(r), NEW k \in 1 .. Len(r), r[j] = r[k]
               PROVE  j = k
    BY DEF Once
  <2>0. \A x \in 1 .. Len(s) : s[x] # e
    BY DEF On
  <2>1. CASE j # i /\ k # i
    <3>1. PICK x \in 1 .. Len(s) : r[j] = s[x] /\ x = IF j < i THEN j ELSE j - 1
      BY <1>1, <1>4, <1>5, <2>1
    <3>2. PICK y \in 1 .. Len(s) : r[k] = s[y] /\ y = IF k < i THEN k ELSE k - 1
      BY <1>1, <1>4, <1>5, <2>1
    <3>3. x = y
      BY <3>1, <3>2 DEF Once
    <3> QED  BY <1>4, <2>1, <3>1, <3>2, <3>3
  <2>2. CASE k = i
    <3>1. r[j] = e
      BY <1>5, <2>2
    <3> QED  BY <1>1, <1>4, <1>6, <2>0, <2>2, <3>1
  <2>3. CASE j = i
    <3>1. r[k] = e
      BY <1>5, <2>3
    <3> QED  BY <1>1, <1>4, <1>6, <2>0, <2>3, <3>1
  <2> QED  BY <2>1, <2>2, <2>3
<1>10. i = Place(m, s, e)
  BY <1>a, <1>b DEF Place
<1> QED  BY <1>c, <1>5, <1>7, <1>8, <1>9, <1>10

\* The lists do not depend on other blocks or on other fields.
LEMMA ListSame ==
  ASSUME NEW m, NEW l, NEW F, Lists(m, l, F), NEW n, F \subseteq DOMAIN n,
         \A a \in F : n[a].size = m[a].size
  PROVE  Lists(n, l, F)
<1>1. ASSUME NEW i \in 0 .. NLists - 1
      PROVE  /\ Once(l[i]) /\ Sorted(n, l[i])
             /\ \A a \in F : On(l[i], a) <=> size2i(n[a].size) = i
  <2>1. l[i] \in Seq(F) /\ Once(l[i]) /\ Sorted(m, l[i])
        /\ \A a \in F : On(l[i], a) <=> size2i(m[a].size) = i
    BY DEF Lists
  <2>2. \A j \in 1 .. Len(l[i]) : l[i][j] \in F
    BY <2>1, Entries
  <2>3. Sorted(n, l[i])
    BY <2>1, <2>2 DEF Sorted
  <2> QED  BY <2>1, <2>3
<1> QED  BY <1>1 DEF Lists

\* remove_node unlinks a free block.
LEMMA RemoveNode ==
  ASSUME NEW m, NEW l, NEW F, Lists(m, l, F), NEW e \in F
  PROVE  Lists(m, remove_node(l, e), F \ {e})
<1>a. PICK k : k = remove_node(l, e)
  OBVIOUS
<1>b. PICK G : G = F \ {e}
  OBVIOUS
<1>1. DOMAIN l = 0 .. NLists - 1
  BY DEF Lists
<1>2. k = [i \in 0 .. NLists - 1 |-> RemoveFirst(l[i], e)]
  BY <1>a, <1>1 DEF remove_node
<1>3. ASSUME NEW i \in 0 .. NLists - 1
      PROVE  /\ k[i] \in Seq(G) /\ Once(k[i]) /\ Sorted(m, k[i])
             /\ \A a \in G : On(k[i], a) <=> size2i(m[a].size) = i
  <2>1. /\ l[i] \in Seq(F) /\ Once(l[i]) /\ Sorted(m, l[i])
        /\ \A a \in F : On(l[i], a) <=> size2i(m[a].size) = i
    BY DEF Lists
  <2>2. PICK r : r = RemoveFirst(l[i], e)
    OBVIOUS
  <2>3. /\ r \in Seq(F) /\ Once(r) /\ ~On(r, e)
        /\ \A x : On(r, x) => On(l[i], x)
        /\ \A x : On(l[i], x) /\ x # e => On(r, x)
    BY <2>1, <2>2, RemoveFirstList
  <2>4. Sorted(m, r)
    BY <2>1, <2>2, SortedRemove
  <2>5. \A x : On(r, x) => x \in G
    BY <1>b, <2>3, Entries
  <2>6. r \in Seq(G)
    BY <2>3, <2>5, SeqInto
  <2>7. k[i] = r
    BY <1>2, <2>2
  <2> QED  BY <1>b, <2>1, <2>3, <2>4, <2>6, <2>7
<1>4. k \in [0 .. NLists - 1 -> Seq(G)]
  BY <1>2, <1>3
<1>5. G \subseteq DOMAIN m
  BY <1>b DEF Lists
<1> QED  BY <1>a, <1>b, <1>3, <1>4, <1>5 DEF Lists

\* mdx_fl_add_node links a block in the list of its size.
LEMMA AddNode ==
  ASSUME NEW m, NEW l, NEW F, Lists(m, l, F), Sized(m, F),
         NEW e \in DOMAIN m, e \notin F, Listed(m[e].size)
  PROVE  Lists(m, mdx_fl_add_node(l, m, e), F \cup {e})
<1>a. PICK k : k = mdx_fl_add_node(l, m, e)
  OBVIOUS
<1>b. PICK G : G = F \cup {e}
  OBVIOUS
<1>c. PICK i0 : i0 = size2i(m[e].size)
  OBVIOUS
<1>d. PICK r : r = InsertAt(l[i0], Place(m, l[i0], e), e)
  OBVIOUS
<1>1. i0 \in 0 .. NLists - 1 /\ DOMAIN l = 0 .. NLists - 1 /\ m[e].size \in Nat
  BY <1>c, SizeIndex DEF Lists, Listed
<1>2. k = [l EXCEPT ![i0] = r]
  BY <1>a, <1>c, <1>d DEF mdx_fl_add_node, Place
<1>3. \A i \in 0 .. NLists - 1 : k[i] = IF i = i0 THEN r ELSE l[i]
  BY <1>1, <1>2
<1>4. ASSUME NEW i \in 0 .. NLists - 1
      PROVE  /\ l[i] \in Seq(F) /\ Once(l[i]) /\ Sorted(m, l[i])
             /\ \A a \in F : On(l[i], a) <=> size2i(m[a].size) = i
             /\ ~On(l[i], e) /\ l[i] \in Seq(G)
  <2>1. /\ l[i] \in Seq(F) /\ Once(l[i]) /\ Sorted(m, l[i])
        /\ \A a \in F : On(l[i], a) <=> size2i(m[a].size) = i
    BY DEF Lists
  <2>2. ~On(l[i], e)
    BY <2>1, Entries
  <2>3. \A x : On(l[i], x) => x \in G
    BY <1>b, <2>1, Entries
  <2>4. l[i] \in Seq(G)
    BY <2>1, <2>3, SeqInto
  <2> QED  BY <2>1, <2>2, <2>4
<1>5. /\ r \in Seq(G) /\ Sorted(m, r) /\ Once(r)
      /\ \A a : On(r, a) <=> On(l[i0], a) \/ a = e
  <2>1. l[i0] \in Seq(F) /\ Once(l[i0]) /\ Sorted(m, l[i0]) /\ ~On(l[i0], e)
    BY <1>1, <1>4
  <2> QED  BY <1>b, <1>d, <1>1, <2>1, SortedInsert
<1>6. ASSUME NEW i \in 0 .. NLists - 1
      PROVE  /\ k[i] \in Seq(G) /\ Once(k[i]) /\ Sorted(m, k[i])
             /\ \A a \in G : On(k[i], a) <=> size2i(m[a].size) = i
  <2>1. CASE i = i0
    <3>1. \A a \in G : On(r, a) <=> size2i(m[a].size) = i
      BY <1>b, <1>c, <1>4, <1>5, <2>1
    <3> QED  BY <1>3, <1>5, <2>1, <3>1
  <2>2. CASE i # i0
    <3>1. \A a \in G : On(l[i], a) <=> size2i(m[a].size) = i
      BY <1>b, <1>c, <1>4, <2>2
    <3> QED  BY <1>3, <1>4, <2>2, <3>1
  <2> QED  BY <2>1, <2>2
<1>7. k \in [0 .. NLists - 1 -> Seq(G)]
  BY <1>1, <1>2, <1>6 DEF Lists
<1>8. G \subseteq DOMAIN m
  BY <1>b DEF Lists
<1> QED  BY <1>a, <1>b, <1>6, <1>7, <1>8 DEF Lists

\* The node that FirstFit finds is a smallest one that is large enough.
LEMMA FirstFitFinds ==
  ASSUME NEW m, NEW l, NEW F, Lists(m, l, F), Sized(m, F), F \subseteq Nat,
         NEW size, Listed(size)
  PROVE  LET f == FirstFit(m, l, size)
         IN  \/ f = NULL /\ \A a \in F : m[a].size < size
             \/ /\ f \in F /\ f # NULL /\ m[f].size >= size
                /\ \A a \in F : m[a].size >= size => m[f].size <= m[a].size
<1> DEFINE fits(i) == {k \in DOMAIN l[i] : m[l[i][k]].size >= size}
           lists == {i \in size2i(size) .. NLists - 1 : fits(i) # {}}
<1>a. PICK f : f = FirstFit(m, l, size)
  OBVIOUS
<1>b. PICK i : i = Min(lists)
  OBVIOUS
<1>1. size2i(size) \in 0 .. NLists - 1 /\ NLists \in Nat /\ size \in Nat
  BY SizeIndex, Sizes DEF Listed
<1>2. f = IF lists = {} THEN NULL ELSE l[i][Min(fits(i))]
  BY <1>a, <1>b DEF FirstFit
<1>3. ASSUME NEW j \in 0 .. NLists - 1
      PROVE  /\ l[j] \in Seq(F) /\ Sorted(m, l[j]) /\ DOMAIN l[j] = 1 .. Len(l[j])
             /\ \A k \in 1 .. Len(l[j]) : /\ l[j][k] \in F /\ size2i(m[l[j][k]].size) = j
                                          /\ Listed(m[l[j][k]].size)
             /\ \A a \in F : On(l[j], a) <=> size2i(m[a].size) = j
             /\ fits(j) \in SUBSET Nat
             /\ Len(l[j]) \in Nat
  <2>1. /\ l[j] \in Seq(F) /\ Sorted(m, l[j])
        /\ \A a \in F : On(l[j], a) <=> size2i(m[a].size) = j
    BY DEF Lists
  <2>2. /\ DOMAIN l[j] = 1 .. Len(l[j]) /\ Len(l[j]) \in Nat
        /\ \A k \in 1 .. Len(l[j]) : l[j][k] \in F /\ On(l[j], l[j][k])
    BY <2>1, Entries
  <2>3. fits(j) \in SUBSET Nat
    BY <2>2
  <2> HIDE DEF fits
  <2> QED  BY <2>1, <2>2, <2>3 DEF Sized
<1>4. ASSUME NEW a \in F, m[a].size >= size
      PROVE  \E j \in lists : j = size2i(m[a].size)
                              /\ \E k \in fits(j) : l[j][k] = a
  <2>1. Listed(m[a].size) /\ m[a].size \in Nat
    BY DEF Sized, Listed
  <2>2. PICK j : j = size2i(m[a].size)
    OBVIOUS
  <2>3. j \in 0 .. NLists - 1 /\ size2i(size) <= j
    BY <1>1, <1>4, <2>1, <2>2, SizeIndex, IndexMonotone
  <2>4. PICK k \in 1 .. Len(l[j]) : l[j][k] = a
    BY <1>3, <2>2, <2>3 DEF On
  <2>5. k \in fits(j)
    BY <1>3, <1>4, <2>3, <2>4
  <2> HIDE DEF fits
  <2>6. j \in lists
    BY <1>1, <2>3, <2>5
  <2> QED  BY <2>2, <2>4, <2>5, <2>6
<1>5. CASE lists = {}
  <2>1. f = NULL
    BY <1>2, <1>5
  <2>2. ASSUME NEW a \in F
        PROVE  m[a].size < size
    <3>1. ~(m[a].size >= size)
      BY <1>4, <1>5
    <3>2. m[a].size \in Nat
      BY DEF Sized, Listed
    <3> QED  BY <1>1, <3>1, <3>2
  <2> QED  BY <1>a, <2>1, <2>2
<1>6. CASE lists # {}
  <2>1. i \in lists /\ \A j \in lists : i <= j
    <3> HIDE DEF fits
    <3>1. lists \in SUBSET Nat
      BY <1>1
    <3> HIDE DEF lists
    <3> QED  BY <1>b, <1>6, <3>1, LeastMin
  <2>2. i \in 0 .. NLists - 1 /\ fits(i) # {}
    <3> HIDE DEF fits
    <3> QED  BY <1>1, <2>1
  <2>3. PICK k : k = Min(fits(i))
    OBVIOUS
  <2>4. k \in fits(i) /\ \A j \in fits(i) : k <= j
    <3>1. fits(i) \in SUBSET Nat
      BY <1>3, <2>2
    <3> HIDE DEF fits
    <3> QED  BY <2>2, <2>3, <3>1, LeastMin
  <2>5. f = l[i][k]
    BY <1>2, <1>6, <2>3
  <2>6. k \in 1 .. Len(l[i]) /\ m[f].size >= size
    BY <1>3, <2>2, <2>4, <2>5
  <2>7. f \in F /\ size2i(m[f].size) = i /\ Listed(m[f].size)
    BY <1>3, <2>2, <2>5, <2>6
  <2>8. ASSUME NEW a \in F, m[a].size >= size
        PROVE  m[f].size <= m[a].size
    <3>1. PICK j \in lists : j = size2i(m[a].size) /\ \E x \in fits(j) : l[j][x] = a
      BY <1>4, <2>8
    <3>2. PICK x \in fits(j) : l[j][x] = a
      BY <3>1
    <3>3. i <= j
      BY <2>1
    <3>4. Listed(m[a].size) /\ m[a].size \in Nat /\ m[f].size \in Nat
      BY <2>7 DEF Sized, Listed
    <3>5. j \in 0 .. NLists - 1
      BY <1>1
    <3>6. CASE i = j
      <4>1. k <= x /\ x \in 1 .. Len(l[i])
        BY <1>3, <2>2, <2>4, <3>2, <3>6
      <4>2. k = x \/ k < x
        BY <1>3, <2>2, <2>6, <4>1
      <4>3. k < x => m[l[i][k]].size <= m[l[i][x]].size
        BY <1>3, <2>2, <2>6, <4>1 DEF Sorted
      <4> QED  BY <2>5, <3>2, <3>4, <3>6, <4>2, <4>3
    <3>7. CASE i # j
      <4>1. ~(m[a].size <= m[f].size)
        <5> SUFFICES ASSUME m[a].size <= m[f].size  PROVE FALSE
          OBVIOUS
        <5>1. j <= i
          BY <2>7, <3>1, <3>4, IndexMonotone
        <5> QED  BY <2>2, <3>3, <3>5, <3>7, <5>1
      <4> QED  BY <3>4, <4>1
    <3> QED  BY <3>6, <3>7
  <2>9. f # NULL
    BY <2>7, Sizes
  <2> QED  BY <1>a, <2>6, <2>7, <2>8, <2>9
<1> QED  BY <1>5, <1>6

-----------------------------------------------------------------------------
(***************************************************************************)
(* The steps the operations are made of.                                   *)
(***************************************************************************)

\* The blocks other than a that were in use still are, with their sizes.
Keeps(m, n, R, a) ==
  \A x \in UsedOf(m, R) : x # a => x \in UsedOf(n, R) /\ n[x].size = m[x].size

\* The blocks of a sound heap have lists.
LEMMA AllSized ==
  ASSUME NEW m, NEW R, Sound(m, R), NEW F \in SUBSET DOMAIN m
  PROVE  Sized(m, F) /\ F \subseteq Nat
BY BlockListed DEF Sized, Sound

\* A block in use is allocated and no sentinel.
LEMMA UsedBlock ==
  ASSUME NEW m, NEW R, Sound(m, R), NEW a \in UsedOf(m, R)
  PROVE  /\ a \in DOMAIN m /\ a \in DOMAIN m \ LastOf(R) /\ a \in DOMAIN m \ FirstOf(R)
         /\ a \notin FirstOf(R) /\ a \notin LastOf(R)
         /\ m[a].alloc /\ a \notin FreeOf(m) /\ a \in Nat
BY Sentinels, Fields DEF UsedOf, FreeOf, Free

\* A free block is no sentinel.
LEMMA FreeBlock ==
  ASSUME NEW m, NEW R, Sound(m, R), NEW a \in FreeOf(m)
  PROVE  /\ a \in DOMAIN m /\ a \in DOMAIN m \ LastOf(R) /\ a \in DOMAIN m \ FirstOf(R)
         /\ a \notin FirstOf(R) /\ a \notin LastOf(R) /\ ~m[a].alloc
         /\ a \notin UsedOf(m, R) /\ a \in Nat
BY Sentinels, Fields DEF UsedOf, FreeOf, Free

\* The next block of a block leads back to it.
LEMMA BackFrom ==
  ASSUME NEW m, NEW R, Sound(m, R), NEW x \in DOMAIN m \ LastOf(R)
  PROVE  Pred(m, Succ(m, x)) = x
<1>1. Succ(m, x) \in DOMAIN m /\ m[Succ(m, x)].prev = m[x].size
  BY NextBlock
<1>2. x \in Nat /\ m[x].size \in Nat
  BY Fields
<1> QED  BY <1>1, <1>2 DEF Succ, Pred

\* A free block that is taken out.
LEMMA TakeFree ==
  ASSUME NEW m, NEW R, Sound(m, R), Coalesced(m), NEW a \in FreeOf(m)
  PROVE  LET n == Take(m, a)
         IN  /\ Sound(n, R) /\ Coalesced(n) /\ DOMAIN n = DOMAIN m
             /\ FreeOf(n) = FreeOf(m) \ {a}
             /\ UsedOf(n, R) = UsedOf(m, R) \cup {a}
             /\ \A x \in DOMAIN m : n[x].size = m[x].size
             /\ ~Free(n, Succ(n, a))
<1>a. PICK n : n = Take(m, a)
  OBVIOUS
<1>1. a \in DOMAIN m /\ a \notin FirstOf(R) /\ a \notin LastOf(R) /\ a \notin UsedOf(m, R)
  BY FreeBlock
<1>2. Sound(n, R)
  BY <1>a, <1>1, AllocSound DEF Take
<1>3. /\ DOMAIN n = DOMAIN m /\ n[a] = Node(m[a].size, m[a].prev, TRUE)
      /\ \A x \in DOMAIN m : x # a => n[x] = m[x]
  BY <1>a, <1>1, AllocNodes DEF Take
<1>4. /\ n[a].size = m[a].size /\ n[a].alloc
      /\ \A x \in DOMAIN m : n[x].size = m[x].size
  BY <1>3 DEF Node
<1>5. FreeOf(n) = FreeOf(m) \ {a}
  BY <1>3, <1>4 DEF FreeOf, Free
<1>6. UsedOf(n, R) = UsedOf(m, R) \cup {a}
  BY <1>1, <1>3, <1>5 DEF UsedOf
<1>7. ASSUME NEW x \in FreeOf(m)
      PROVE  ~Free(n, Succ(n, x))
  <2>1. x \in DOMAIN m \ LastOf(R) /\ x \in DOMAIN m
    BY FreeBlock
  <2>2. Succ(m, x) \in DOMAIN m /\ ~Free(m, Succ(m, x))
    BY <2>1, NextBlock DEF Coalesced
  <2>3. Succ(n, x) = Succ(m, x)
    BY <1>4, <2>1 DEF Succ
  <2> QED  BY <1>3, <1>4, <2>2, <2>3 DEF Free
<1>8. Coalesced(n)
  BY <1>5, <1>7 DEF Coalesced
<1> QED  BY <1>a, <1>2, <1>3, <1>4, <1>5, <1>6, <1>7, <1>8

\* An allocated block with an allocated one behind it is split.
LEMMA SplitHeap ==
  ASSUME NEW m, NEW R, Sound(m, R), Coalesced(m), NEW a \in DOMAIN m \ LastOf(R),
         m[a].alloc, ~Free(m, Succ(m, a)),
         NEW size \in Nat, NEW rest \in Nat, size >= NODE_S, rest >= NODE_S,
         size + rest = m[a].size
  PROVE  LET n == Carve(m, a, size, rest)
             b == a + size
         IN  /\ Sound(n, R) /\ Coalesced(n)
             /\ b \notin DOMAIN m /\ b \in DOMAIN n
             /\ FreeOf(n) = FreeOf(m) \cup {b}
             /\ UsedOf(n, R) = UsedOf(m, R)
             /\ n[a].size = size
             /\ \A x \in DOMAIN m : x \in DOMAIN n /\ (x # a => n[x].size = m[x].size)
<1>a. PICK n : n = Carve(m, a, size, rest)
  OBVIOUS
<1>b. PICK b : b = a + size
  OBVIOUS
<1>c. PICK c : c = Succ(m, a)
  OBVIOUS
<1>0. Carved(m, n, a, size, rest) /\ Sound(n, R)
  BY <1>a, CarveNodes, CarveSound
<1>1. /\ b \notin DOMAIN m /\ DOMAIN n = DOMAIN m \cup {b}
      /\ a < b /\ b < c /\ c = b + rest /\ c \in DOMAIN m /\ b \in Nat
      /\ n[a] = Node(size, m[a].prev, m[a].alloc)
      /\ n[b] = Node(rest, size, FALSE)
      /\ n[c] = Node(m[c].size, rest, m[c].alloc)
      /\ \A x \in DOMAIN m : x # a /\ x # c => n[x] = m[x]
  BY <1>0, <1>b, <1>c DEF Carved
<1>2. /\ n[a].size = size /\ n[a].alloc = m[a].alloc
      /\ n[b].size = rest /\ ~n[b].alloc
      /\ n[c].size = m[c].size /\ n[c].alloc = m[c].alloc
  BY <1>1 DEF Node
<1>3. \A x \in DOMAIN m : /\ x \in DOMAIN n /\ n[x].alloc = m[x].alloc
                          /\ x # a => n[x].size = m[x].size
  <2>1. a # c
    <3>1. a \in Nat /\ c \in Nat
      BY <1>1, Fields
    <3> QED  BY <1>1, <3>1
  <2> QED  BY <1>1, <1>2, <2>1
<1>4. FreeOf(n) = FreeOf(m) \cup {b}
  BY <1>1, <1>2, <1>3 DEF FreeOf, Free
<1>5. b \notin FirstOf(R) /\ b \notin LastOf(R)
  BY <1>1 DEF Sound, Ends
<1>6. UsedOf(n, R) = UsedOf(m, R)
  BY <1>1, <1>4, <1>5 DEF UsedOf
<1>7. Coalesced(n)
  <2> SUFFICES ASSUME NEW x \in FreeOf(n)
               PROVE  ~Free(n, Succ(n, x))
    BY DEF Coalesced
  <2>1. CASE x = b
    <3>1. Succ(n, x) = c
      BY <1>1, <1>2, <2>1 DEF Succ
    <3> QED  BY <1>c, <1>2, <3>1 DEF Free
  <2>2. CASE x \in FreeOf(m)
    <3>1. x \in DOMAIN m \ LastOf(R) /\ x \in DOMAIN m /\ x # a
      BY <2>2, FreeBlock
    <3>2. Succ(m, x) \in DOMAIN m /\ ~Free(m, Succ(m, x))
      BY <2>2, <3>1, NextBlock DEF Coalesced
    <3>3. Succ(n, x) = Succ(m, x)
      BY <1>3, <3>1 DEF Succ
    <3> QED  BY <1>3, <3>2, <3>3 DEF Free
  <2> QED  BY <1>4, <2>1, <2>2
<1> QED  BY <1>a, <1>b, <1>0, <1>1, <1>2, <1>3, <1>4, <1>6, <1>7

\* The flag of a block may be set before or after it is carved up.
LEMMA CarveAlloc ==
  ASSUME NEW m, NEW R, Sound(m, R), NEW a \in FreeOf(m),
         NEW size \in Nat, NEW rest \in Nat, size >= NODE_S, rest >= NODE_S,
         size + rest = m[a].size
  PROVE  Take(Carve(m, a, size, rest), a)
           = Carve(Take(m, a), a, size, rest)
<1>a. PICK m1 : m1 = Take(m, a)
  OBVIOUS
<1>b. PICK n : n = Carve(m, a, size, rest)
  OBVIOUS
<1>c. PICK n1 : n1 = Take(n, a)
  OBVIOUS
<1>d. PICK n2 : n2 = Carve(m1, a, size, rest)
  OBVIOUS
<1>1. a \in DOMAIN m /\ a \in DOMAIN m \ LastOf(R) /\ a \notin FirstOf(R) /\ a \notin LastOf(R)
  BY FreeBlock
<1>2. /\ DOMAIN m1 = DOMAIN m /\ m1[a] = Node(m[a].size, m[a].prev, TRUE)
      /\ \A x \in DOMAIN m : x # a => m1[x] = m[x]
      /\ Sound(m1, R)
  BY <1>a, <1>1, AllocNodes, AllocSound DEF Take
<1>3. m1[a].size = m[a].size /\ m1[a].prev = m[a].prev /\ m1[a].alloc = TRUE
  BY <1>2 DEF Node
<1>4. Succ(m1, a) = Succ(m, a)
  BY <1>3 DEF Succ
<1>5. Carved(m, n, a, size, rest) /\ Sound(n, R)
  BY <1>b, <1>1, CarveNodes, CarveSound
<1>6. Carved(m1, n2, a, size, rest)
  <2>1. a \in DOMAIN m1 \ LastOf(R) /\ size + rest = m1[a].size
    BY <1>1, <1>2, <1>3
  <2> QED  BY <1>d, <1>2, <2>1, CarveNodes
<1>7. PICK b : b = a + size
  OBVIOUS
<1>8. PICK c : c = Succ(m, a)
  OBVIOUS
<1>9. /\ DOMAIN n = DOMAIN m \cup {b} /\ a \in Nat /\ c \in Nat
      /\ a < b /\ b < c /\ c \in DOMAIN m /\ b \in Nat
      /\ n[a] = Node(size, m[a].prev, m[a].alloc)
      /\ n[b] = Node(rest, size, FALSE)
      /\ n[c] = Node(m[c].size, rest, m[c].alloc)
      /\ \A x \in DOMAIN m : x # a /\ x # c => n[x] = m[x]
  <2>1. a \in Nat /\ \A x \in DOMAIN m : x \in Nat
    BY <1>1, Fields
  <2> QED  BY <1>5, <1>7, <1>8, <2>1 DEF Carved
<1>10. /\ DOMAIN n2 = DOMAIN m \cup {b}
       /\ n2[a] = Node(size, m1[a].prev, m1[a].alloc)
       /\ n2[b] = Node(rest, size, FALSE)
       /\ n2[c] = Node(m1[c].size, rest, m1[c].alloc)
       /\ \A x \in DOMAIN m : x # a /\ x # c => n2[x] = m1[x]
  BY <1>2, <1>4, <1>6, <1>7, <1>8 DEF Carved
<1>11. a # b /\ b # c /\ a # c /\ a \in DOMAIN n
  BY <1>1, <1>9
<1>12. /\ DOMAIN n1 = DOMAIN n /\ n1[a] = Node(n[a].size, n[a].prev, TRUE)
       /\ \A x \in DOMAIN n : x # a => n1[x] = n[x]
  BY <1>c, <1>5, <1>11, AllocNodes DEF Take
<1>13. n1[a] = n2[a]
  <2>1. n[a].size = size /\ n[a].prev = m[a].prev
    BY <1>9 DEF Node
  <2> QED  BY <1>3, <1>10, <1>12, <2>1
<1>14. n1[c] = n2[c]
  <2>1. m1[c] = m[c] /\ n1[c] = n[c]
    BY <1>2, <1>9, <1>11, <1>12
  <2> QED  BY <1>9, <1>10, <2>1
<1>15. \A x \in DOMAIN n : n1[x] = n2[x]
  BY <1>2, <1>9, <1>10, <1>11, <1>12, <1>13, <1>14
<1>16. n1 = [x \in DOMAIN n |-> n1[x]] /\ n2 = [x \in DOMAIN n |-> n2[x]]
  <2>1. n1 = [x \in DOMAIN n |-> n1[x]]
    BY <1>c, <1>12 DEF Take
  <2>2. n2 = [x \in DOMAIN n2 |-> n2[x]]
    BY <1>d DEF Carve, Tell
  <2> QED  BY <1>9, <1>10, <2>1, <2>2
<1>17. n1 = n2
  BY <1>15, <1>16
<1> QED  BY <1>a, <1>b, <1>c, <1>d, <1>17

\* A free block that is large enough becomes a block in use.
LEMMA MallocGood ==
  ASSUME NEW m, NEW l, NEW R, Good(m, l, R), NEW a \in FreeOf(m),
         NEW size \in Nat, size >= NODE_S, m[a].size >= size
  PROVE  LET h == fl_malloc(m, l, size, a)
         IN  /\ Good(h.mem, h.list, R)
             /\ UsedOf(h.mem, R) = UsedOf(m, R) \cup {a}
             /\ h.mem[a].size >= size
             /\ Keeps(m, h.mem, R, a)
             /\ a \notin UsedOf(m, R)
<1>a. PICK m0 : m0 = Take(m, a)
  OBVIOUS
<1>b. PICK l1 : l1 = remove_node(l, a)
  OBVIOUS
<1>c. PICK avail : avail = m[a].size - size
  OBVIOUS
<1>0. Sound(m, R) /\ Coalesced(m) /\ Lists(m, l, FreeOf(m))
  BY DEF Good
<1>1. a \in DOMAIN m /\ a \notin UsedOf(m, R) /\ a \in DOMAIN m \ LastOf(R)
  BY <1>0, FreeBlock
<1>2. m[a].size \in Nat /\ NODE_S \in Nat /\ NODE_S > 0 /\ avail \in Nat /\ size + avail = m[a].size
  BY <1>0, <1>1, <1>c, Fields, Sizes
<1>3. /\ Sound(m0, R) /\ Coalesced(m0) /\ DOMAIN m0 = DOMAIN m
      /\ FreeOf(m0) = FreeOf(m) \ {a}
      /\ UsedOf(m0, R) = UsedOf(m, R) \cup {a}
      /\ \A x \in DOMAIN m : m0[x].size = m[x].size
      /\ ~Free(m0, Succ(m0, a))
  BY <1>0, <1>a, TakeFree
<1>4. Lists(m, l1, FreeOf(m) \ {a})
  BY <1>0, <1>b, RemoveNode
<1>5. FreeOf(m) \ {a} \subseteq DOMAIN m /\ UsedOf(m, R) \subseteq DOMAIN m
  BY DEF FreeOf, UsedOf
<1>6. CASE avail > NODE_S
  <2>a. PICK n : n = Carve(m, a, size, avail)
    OBVIOUS
  <2>b. PICK h : h = fl_malloc(m, l, size, a)
    OBVIOUS
  <2>c. PICK b : b = a + size
    OBVIOUS
  <2>d. PICK k : k = mdx_fl_add_node(l1, n, b)
    OBVIOUS
  <2>1. h.mem = Take(n, a) /\ h.list = k
    BY <1>6, <1>b, <1>c, <2>a, <2>b, <2>c, <2>d DEF fl_malloc, Take
  <2>2. avail >= NODE_S
    BY <1>2, <1>6
  <2>3. h.mem = Carve(m0, a, size, avail)
    BY <1>0, <1>a, <1>2, <2>a, <2>1, <2>2, CarveAlloc
  <2>4. /\ Sound(h.mem, R) /\ Coalesced(h.mem) /\ b \notin DOMAIN m /\ b \in DOMAIN h.mem
        /\ FreeOf(h.mem) = (FreeOf(m) \ {a}) \cup {b}
        /\ UsedOf(h.mem, R) = UsedOf(m, R) \cup {a} /\ h.mem[a].size = size
        /\ \A x \in DOMAIN m : x \in DOMAIN h.mem /\ (x # a => h.mem[x].size = m[x].size)
    <3>1. a \in DOMAIN m0 \ LastOf(R) /\ size + avail = m0[a].size
      BY <1>1, <1>2, <1>3
    <3>2. m0[a].alloc
      BY <1>3, <1>1 DEF FreeOf, Free
    <3>3. PICK g : g = Carve(m0, a, size, avail)
      OBVIOUS
    <3>4. /\ Sound(g, R) /\ Coalesced(g) /\ b \notin DOMAIN m0 /\ b \in DOMAIN g
          /\ FreeOf(g) = FreeOf(m0) \cup {b}
          /\ UsedOf(g, R) = UsedOf(m0, R) /\ g[a].size = size
          /\ \A x \in DOMAIN m0 : x \in DOMAIN g /\ (x # a => g[x].size = m0[x].size)
      BY <1>2, <1>3, <2>2, <2>c, <3>1, <3>2, <3>3, SplitHeap
    <3> QED  BY <1>3, <2>3, <3>3, <3>4
  <2>5. Sound(n, R) /\ DOMAIN n = DOMAIN h.mem /\ \A x \in DOMAIN n : h.mem[x].size = n[x].size
    <3>1. Sound(n, R)
      BY <1>0, <1>1, <1>2, <2>a, <2>2, CarveSound
    <3>2. Carved(m, n, a, size, avail)
      BY <1>0, <1>1, <1>2, <2>a, <2>2, CarveNodes
    <3>3. a \in DOMAIN n
      BY <1>1, <3>2 DEF Carved
    <3>4. /\ DOMAIN h.mem = DOMAIN n /\ h.mem[a] = Node(n[a].size, n[a].prev, TRUE)
          /\ \A x \in DOMAIN n : x # a => h.mem[x] = n[x]
      BY <2>1, <3>1, <3>3, AllocNodes DEF Take
    <3> QED  BY <3>1, <3>4 DEF Node
  <2>6. Lists(n, l1, FreeOf(m) \ {a})
    BY <1>4, <1>5, <2>4, <2>5, ListSame
  <2>7. Lists(n, k, (FreeOf(m) \ {a}) \cup {b})
    <3>1. b \in DOMAIN n /\ b \notin FreeOf(m) \ {a} /\ Listed(n[b].size)
      BY <1>5, <2>4, <2>5, BlockListed
    <3>2. Sized(n, FreeOf(m) \ {a})
      BY <1>5, <2>4, <2>5, AllSized
    <3> QED  BY <2>6, <2>d, <3>1, <3>2, AddNode
  <2>8. Lists(h.mem, k, FreeOf(h.mem))
    <3>1. FreeOf(h.mem) \subseteq DOMAIN h.mem
      BY DEF FreeOf
    <3> QED  BY <2>4, <2>5, <2>7, <3>1, ListSame
  <2>9. Keeps(m, h.mem, R, a)
    BY <1>5, <2>4 DEF Keeps
  <2>10. Good(h.mem, h.list, R)
    BY <2>1, <2>4, <2>8 DEF Good
  <2>11. h.mem[a].size >= size
    BY <2>4
  <2> QED  BY <1>1, <2>b, <2>4, <2>9, <2>10, <2>11
<1>7. CASE ~(avail > NODE_S)
  <2>a. PICK h : h = fl_malloc(m, l, size, a)
    OBVIOUS
  <2>1. h.mem = m0 /\ h.list = l1
    BY <1>7, <1>a, <1>b, <1>c, <2>a DEF fl_malloc, Take
  <2>2. Lists(m0, l1, FreeOf(m0))
    BY <1>3, <1>4, <1>5, ListSame
  <2>3. Keeps(m, m0, R, a)
    BY <1>3, <1>5 DEF Keeps
  <2> QED  BY <1>1, <1>3, <2>a, <2>1, <2>2, <2>3 DEF Good
<1> QED  BY <1>6, <1>7

\* A block takes in the free block behind it.
LEMMA MergeHeap ==
  ASSUME NEW m, NEW R, Sound(m, R), NEW a \in DOMAIN m \ LastOf(R),
         NEW b \in FreeOf(m), b = Succ(m, a)
  PROVE  LET n == Merge(m, a, b)
         IN  /\ Sound(n, R) /\ a # b /\ DOMAIN n = DOMAIN m \ {b}
             /\ FreeOf(n) = FreeOf(m) \ {b} /\ UsedOf(n, R) = UsedOf(m, R)
             /\ n[a].size = m[a].size + m[b].size /\ n[a].prev = m[a].prev
             /\ Succ(n, a) = Succ(m, b) /\ Succ(m, b) \in DOMAIN n /\ Succ(m, b) # a
             /\ \A x \in DOMAIN n : n[x].alloc = m[x].alloc
             /\ \A x \in DOMAIN n : x # a => n[x].size = m[x].size /\ Succ(n, x) = Succ(m, x)
             /\ Pred(n, a) = Pred(m, a)
<1>a. PICK n : n = Merge(m, a, b)
  OBVIOUS
<1>b. PICK c : c = Succ(m, b)
  OBVIOUS
<1>1. b \in DOMAIN m /\ b \notin LastOf(R) /\ b \notin FirstOf(R) /\ b \notin UsedOf(m, R)
  BY FreeBlock
<1>2. Merged(m, n, a) /\ Sound(n, R)
  BY <1>a, <1>1, MergeNodes, MergeSound
<1>3. /\ c \in DOMAIN m /\ a < b /\ b < c /\ c = a + (m[a].size + m[b].size)
      /\ DOMAIN n = DOMAIN m \ {b}
      /\ n[a] = Node(m[a].size + m[b].size, m[a].prev, m[a].alloc)
      /\ n[c] = Node(m[c].size, m[a].size + m[b].size, m[c].alloc)
      /\ \A x \in DOMAIN m \ {b} : x # a /\ x # c => n[x] = m[x]
  BY <1>2, <1>b DEF Merged
<1>4. a # b /\ b # c /\ a # c /\ c \in DOMAIN n /\ a \in DOMAIN n
  <2>1. a \in Nat /\ b \in Nat /\ c \in Nat
    BY <1>1, <1>3, Fields
  <2>2. a # b /\ b # c /\ a # c
    BY <1>3, <2>1
  <2> QED  BY <1>3, <2>2
<1>5. /\ n[a].size = m[a].size + m[b].size /\ n[a].prev = m[a].prev /\ n[a].alloc = m[a].alloc
      /\ n[c].size = m[c].size /\ n[c].alloc = m[c].alloc
  BY <1>3 DEF Node
<1>6. \A x \in DOMAIN n : n[x].alloc = m[x].alloc /\ (x # a => n[x].size = m[x].size)
  BY <1>3, <1>4, <1>5
<1>7. FreeOf(n) = FreeOf(m) \ {b}
  BY <1>3, <1>6 DEF FreeOf, Free
<1>8. UsedOf(n, R) = UsedOf(m, R)
  BY <1>1, <1>3, <1>7 DEF UsedOf
<1>9. Succ(n, a) = c
  BY <1>3, <1>5 DEF Succ
<1>10. \A x \in DOMAIN n : x # a => Succ(n, x) = Succ(m, x)
  BY <1>6 DEF Succ
<1>11. Pred(n, a) = Pred(m, a)
  BY <1>5 DEF Pred
<1> QED  BY <1>a, <1>b, <1>2, <1>3, <1>4, <1>5, <1>6, <1>7, <1>8, <1>9, <1>10, <1>11

\* fl_free on the way: block a is free but on no list, and it may have free
\* neighbours; other free blocks have none.
Loose(m, l, R, a) ==
  /\ Sound(m, R) /\ a \in FreeOf(m) /\ Lists(m, l, FreeOf(m) \ {a})
  /\ \A x \in FreeOf(m) \ {a} : Succ(m, x) # a => ~Free(m, Succ(m, x))

\* The same blocks are in use, with their sizes.
Same(m, n, R) ==
  UsedOf(n, R) = UsedOf(m, R) /\ \A x \in UsedOf(m, R) : n[x].size = m[x].size

\* The block loses its flag.
LEMMA Loosen ==
  ASSUME NEW m, NEW l, NEW R, Good(m, l, R), NEW a \in UsedOf(m, R)
  PROVE  LET n == Give(m, a)
         IN  /\ Loose(n, l, R, a) /\ DOMAIN n = DOMAIN m
             /\ UsedOf(n, R) = UsedOf(m, R) \ {a}
             /\ \A x \in DOMAIN m : /\ n[x].size = m[x].size
                                    /\ Succ(n, x) = Succ(m, x) /\ Pred(n, x) = Pred(m, x)
                                    /\ x # a => (Free(n, x) <=> Free(m, x))
<1>a. PICK n : n = Give(m, a)
  OBVIOUS
<1>0. Sound(m, R) /\ Coalesced(m) /\ Lists(m, l, FreeOf(m))
  BY DEF Good
<1>1. /\ a \in DOMAIN m /\ a \notin FirstOf(R) /\ a \notin LastOf(R) /\ m[a].alloc
      /\ a \notin FreeOf(m)
  BY <1>0, UsedBlock
<1>2. Sound(n, R)
  BY <1>a, <1>0, <1>1, AllocSound DEF Give
<1>3. /\ DOMAIN n = DOMAIN m /\ n[a] = Node(m[a].size, m[a].prev, FALSE)
      /\ \A x \in DOMAIN m : x # a => n[x] = m[x]
  BY <1>a, <1>0, <1>1, AllocNodes DEF Give
<1>4. /\ n[a].size = m[a].size /\ n[a].prev = m[a].prev /\ ~n[a].alloc
  BY <1>3 DEF Node
<1>5. \A x \in DOMAIN m : n[x].size = m[x].size /\ n[x].prev = m[x].prev
  BY <1>3, <1>4
<1>6. \A x \in DOMAIN m : Succ(n, x) = Succ(m, x) /\ Pred(n, x) = Pred(m, x)
  BY <1>5 DEF Succ, Pred
<1>7. FreeOf(n) = FreeOf(m) \cup {a} /\ FreeOf(n) \ {a} = FreeOf(m)
  BY <1>1, <1>3, <1>4 DEF FreeOf, Free
<1>8. UsedOf(n, R) = UsedOf(m, R) \ {a}
  BY <1>1, <1>3, <1>7 DEF UsedOf
<1>9. \A x \in DOMAIN m : x # a => (Free(n, x) <=> Free(m, x))
  BY <1>3 DEF Free
<1>10. Lists(n, l, FreeOf(n) \ {a})
  <2>1. FreeOf(m) \subseteq DOMAIN n /\ \A x \in FreeOf(m) : n[x].size = m[x].size
    BY <1>3, <1>5 DEF FreeOf
  <2> QED  BY <1>0, <1>7, <2>1, ListSame
<1>11. ASSUME NEW x \in FreeOf(m), Succ(n, x) # a
       PROVE  ~Free(n, Succ(n, x))
  <2>1. x \in DOMAIN m \ LastOf(R) /\ x \in DOMAIN m
    BY <1>0, FreeBlock
  <2>2. Succ(m, x) \in DOMAIN m /\ ~Free(m, Succ(m, x))
    BY <1>0, <2>1, NextBlock DEF Coalesced
  <2> QED  BY <1>6, <1>9, <1>11, <2>1, <2>2
<1>12. Loose(n, l, R, a)
  BY <1>2, <1>7, <1>10, <1>11 DEF Loose
<1> QED  BY <1>a, <1>3, <1>5, <1>6, <1>8, <1>9, <1>12

\* It takes in the next block.
LEMMA TakeNext ==
  ASSUME NEW m, NEW l, NEW R, NEW a, Loose(m, l, R, a),
         NEW b, b = Succ(m, a), Free(m, b)
  PROVE  LET n == Merge(m, a, b)
         IN  /\ Loose(n, remove_node(l, b), R, a) /\ Same(m, n, R)
             /\ ~Free(n, Succ(n, a)) /\ Pred(n, a) = Pred(m, a)
             /\ \A x \in DOMAIN m : x < a => (Free(n, x) <=> Free(m, x))
<1>a. PICK n : n = Merge(m, a, b)
  OBVIOUS
<1>b. PICK c : c = Succ(m, b)
  OBVIOUS
<1>0. /\ Sound(m, R) /\ a \in FreeOf(m) /\ Lists(m, l, FreeOf(m) \ {a})
      /\ \A x \in FreeOf(m) \ {a} : Succ(m, x) # a => ~Free(m, Succ(m, x))
  BY DEF Loose
<1>1. a \in DOMAIN m \ LastOf(R) /\ a \in DOMAIN m /\ a \in Nat
  BY <1>0, FreeBlock
<1>2. b \in DOMAIN m /\ b > a /\ b \in FreeOf(m)
  BY <1>0, <1>1, NextBlock DEF FreeOf
<1>3. /\ Sound(n, R) /\ a # b /\ DOMAIN n = DOMAIN m \ {b}
      /\ FreeOf(n) = FreeOf(m) \ {b} /\ UsedOf(n, R) = UsedOf(m, R)
      /\ Succ(n, a) = c /\ c \in DOMAIN n /\ c # a
      /\ \A x \in DOMAIN n : n[x].alloc = m[x].alloc
      /\ \A x \in DOMAIN n : x # a => n[x].size = m[x].size /\ Succ(n, x) = Succ(m, x)
      /\ Pred(n, a) = Pred(m, a)
  BY <1>a, <1>b, <1>0, <1>1, <1>2, MergeHeap
<1>4. ~Free(n, Succ(n, a))
  <2>1. ~Free(m, c)
    BY <1>b, <1>0, <1>2, <1>3
  <2> QED  BY <1>3, <2>1 DEF Free
<1>5. Lists(n, remove_node(l, b), FreeOf(n) \ {a})
  <2>1. b \in FreeOf(m) \ {a} /\ (FreeOf(m) \ {a}) \ {b} = FreeOf(n) \ {a}
    BY <1>2, <1>3
  <2>2. Lists(m, remove_node(l, b), FreeOf(n) \ {a})
    BY <1>0, <2>1, RemoveNode
  <2>3. FreeOf(n) \ {a} \subseteq DOMAIN n /\ \A x \in FreeOf(n) \ {a} : n[x].size = m[x].size
    BY <1>3 DEF FreeOf
  <2> QED  BY <2>2, <2>3, ListSame
<1>6. ASSUME NEW x \in FreeOf(n) \ {a}, Succ(n, x) # a
      PROVE  ~Free(n, Succ(n, x))
  <2>1. x \in FreeOf(m) \ {a} /\ x \in DOMAIN n /\ Succ(n, x) = Succ(m, x)
    BY <1>3 DEF FreeOf
  <2>2. ~Free(m, Succ(m, x))
    BY <1>0, <1>6, <2>1
  <2>3. Succ(n, x) \in DOMAIN n
    BY <1>3, <2>1, FreeBlock, NextBlock
  <2> QED  BY <1>3, <2>1, <2>2, <2>3 DEF Free
<1>7. a \in FreeOf(n)
  BY <1>0, <1>3
<1>8. Same(m, n, R)
  <2>1. \A x \in UsedOf(m, R) : x \in DOMAIN n /\ x # a
    BY <1>0, <1>3 DEF UsedOf
  <2> QED  BY <1>3, <2>1 DEF Same
<1>9. ASSUME NEW x \in DOMAIN m, x < a
      PROVE  Free(n, x) <=> Free(m, x)
  <2>1. x \in Nat /\ b \in Nat
    BY <1>0, <1>2, Fields
  <2>2. x # b
    BY <1>1, <1>2, <1>9, <2>1
  <2> QED  BY <1>3, <2>2 DEF Free
<1>10. Loose(n, remove_node(l, b), R, a)
  BY <1>3, <1>5, <1>6, <1>7 DEF Loose
<1> QED  BY <1>a, <1>3, <1>4, <1>8, <1>9, <1>10

\* The previous block takes it in.
LEMMA TakePrev ==
  ASSUME NEW m, NEW l, NEW R, NEW a, Loose(m, l, R, a), ~Free(m, Succ(m, a)),
         NEW p, p = Pred(m, a), Free(m, p)
  PROVE  LET n == Merge(m, p, a)
         IN  /\ Loose(n, remove_node(l, p), R, p) /\ Same(m, n, R)
             /\ ~Free(n, Succ(n, p)) /\ ~Free(n, Pred(n, p))
<1>a. PICK n : n = Merge(m, p, a)
  OBVIOUS
<1>b. PICK c : c = Succ(m, a)
  OBVIOUS
<1>0. /\ Sound(m, R) /\ a \in FreeOf(m) /\ Lists(m, l, FreeOf(m) \ {a})
      /\ \A x \in FreeOf(m) \ {a} : Succ(m, x) # a => ~Free(m, Succ(m, x))
  BY DEF Loose
<1>1. a \in DOMAIN m \ FirstOf(R) /\ a \in DOMAIN m /\ a \in Nat
  BY <1>0, FreeBlock
<1>2. p \in DOMAIN m /\ p < a /\ Succ(m, p) = a
  BY <1>0, <1>1, PrevBlock
<1>3. /\ p \in FreeOf(m) /\ p \in DOMAIN m \ LastOf(R) /\ p \in DOMAIN m \ FirstOf(R)
      /\ p \in Nat
  <2>1. p \in FreeOf(m)
    BY <1>2 DEF FreeOf
  <2> QED  BY <1>0, <2>1, FreeBlock
<1>4. /\ Sound(n, R) /\ p # a /\ DOMAIN n = DOMAIN m \ {a}
      /\ FreeOf(n) = FreeOf(m) \ {a} /\ UsedOf(n, R) = UsedOf(m, R)
      /\ Succ(n, p) = c /\ c \in DOMAIN n
      /\ \A x \in DOMAIN n : n[x].alloc = m[x].alloc
      /\ \A x \in DOMAIN n : x # p => n[x].size = m[x].size /\ Succ(n, x) = Succ(m, x)
      /\ Pred(n, p) = Pred(m, p)
  <2>1. Sound(m, R) /\ p \in DOMAIN m \ LastOf(R) /\ a \in FreeOf(m) /\ a = Succ(m, p)
    BY <1>0, <1>2, <1>3
  <2> QED  BY <1>a, <1>b, <2>1, MergeHeap
<1>5. ~Free(n, Succ(n, p))
  BY <1>b, <1>4 DEF Free
<1>6. ~Free(n, Pred(n, p))
  <2>1. PICK q : q = Pred(m, p)
    OBVIOUS
  <2>2. q \in DOMAIN m /\ q < p /\ Succ(m, q) = p
    BY <1>0, <1>3, <2>1, PrevBlock
  <2>3. q \in Nat
    BY <1>0, <2>2, Fields
  <2>4. q # a /\ p # a
    BY <1>1, <1>2, <1>3, <2>2, <2>3
  <2>5. ~Free(m, q)
    BY <1>0, <2>2, <2>4 DEF FreeOf
  <2>6. q \in DOMAIN n
    BY <1>4, <2>2, <2>4
  <2> QED  BY <1>4, <2>1, <2>5, <2>6 DEF Free
<1>7. Lists(n, remove_node(l, p), FreeOf(n) \ {p})
  <2>1. p \in FreeOf(m) \ {a} /\ (FreeOf(m) \ {a}) \ {p} = FreeOf(n) \ {p}
    BY <1>3, <1>4
  <2>2. Lists(m, remove_node(l, p), FreeOf(n) \ {p})
    BY <1>0, <2>1, RemoveNode
  <2>3. FreeOf(n) \ {p} \subseteq DOMAIN n /\ \A x \in FreeOf(n) \ {p} : n[x].size = m[x].size
    BY <1>4 DEF FreeOf
  <2> QED  BY <2>2, <2>3, ListSame
<1>8. ASSUME NEW x \in FreeOf(n) \ {p}, Succ(n, x) # p
      PROVE  ~Free(n, Succ(n, x))
  <2>1. x \in FreeOf(m) \ {a} /\ x \in DOMAIN n /\ Succ(n, x) = Succ(m, x)
    BY <1>4 DEF FreeOf
  <2>2. Succ(n, x) \in DOMAIN n
    BY <1>4, <2>1, FreeBlock, NextBlock
  <2>3. Succ(m, x) # a
    BY <1>4, <2>1, <2>2
  <2>4. ~Free(m, Succ(m, x))
    BY <1>0, <2>1, <2>3
  <2> QED  BY <1>4, <2>1, <2>2, <2>4 DEF Free
<1>9. p \in FreeOf(n)
  BY <1>3, <1>4
<1>10. Same(m, n, R)
  <2>1. \A x \in UsedOf(m, R) : x \in DOMAIN n /\ x # p
    BY <1>3, <1>4 DEF UsedOf
  <2> QED  BY <1>4, <2>1 DEF Same
<1>11. Loose(n, remove_node(l, p), R, p)
  BY <1>4, <1>7, <1>8, <1>9 DEF Loose
<1> QED  BY <1>a, <1>5, <1>6, <1>10, <1>11

\* It is linked.
LEMMA LinkFree ==
  ASSUME NEW m, NEW l, NEW R, NEW a, Loose(m, l, R, a),
         ~Free(m, Succ(m, a)), ~Free(m, Pred(m, a))
  PROVE  Good(m, mdx_fl_add_node(l, m, a), R)
<1>0. /\ Sound(m, R) /\ a \in FreeOf(m) /\ Lists(m, l, FreeOf(m) \ {a})
      /\ \A x \in FreeOf(m) \ {a} : Succ(m, x) # a => ~Free(m, Succ(m, x))
  BY DEF Loose
<1>1. /\ a \in DOMAIN m /\ a \notin FreeOf(m) \ {a} /\ Listed(m[a].size)
      /\ FreeOf(m) \ {a} \subseteq DOMAIN m
      /\ (FreeOf(m) \ {a}) \cup {a} = FreeOf(m)
  BY <1>0, BlockListed DEF FreeOf
<1>2. Sized(m, FreeOf(m) \ {a})
  BY <1>0, <1>1, AllSized
<1>3. Lists(m, mdx_fl_add_node(l, m, a), (FreeOf(m) \ {a}) \cup {a})
  BY <1>0, <1>1, <1>2, AddNode
<1>4. ASSUME NEW x \in FreeOf(m)
      PROVE  ~Free(m, Succ(m, x))
  <2>1. CASE x = a
    BY <2>1
  <2>2. CASE x # a /\ Succ(m, x) = a
    <3>1. x \in DOMAIN m \ LastOf(R)
      BY <1>0, FreeBlock
    <3>2. Pred(m, a) = x
      BY <1>0, <2>2, <3>1, BackFrom
    <3> QED  BY <3>2 DEF FreeOf
  <2>3. CASE x # a /\ Succ(m, x) # a
    BY <1>0, <2>3
  <2> QED  BY <2>1, <2>2, <2>3
<1> QED  BY <1>0, <1>1, <1>3, <1>4 DEF Good, Coalesced

\* A block in use becomes free.
LEMMA FreeGood ==
  ASSUME NEW m, NEW l, NEW R, Good(m, l, R), NEW a \in UsedOf(m, R)
  PROVE  LET h == fl_free(m, l, a)
         IN  /\ Good(h.mem, h.list, R)
             /\ UsedOf(h.mem, R) = UsedOf(m, R) \ {a}
             /\ Keeps(m, h.mem, R, a)
<1>a. PICK h : h = fl_free(m, l, a)
  OBVIOUS
<1>b. PICK n : n = Succ(m, a)
  OBVIOUS
<1>c. PICK p : p = Pred(m, a)
  OBVIOUS
<1>d. PICK m1 : m1 = Give(m, a)
  OBVIOUS
<1>e. PICK m2 : m2 = IF Free(m, n) THEN Merge(m1, a, n) ELSE m1
  OBVIOUS
<1>f. PICK l2 : l2 = IF Free(m, n) THEN remove_node(l, n) ELSE l
  OBVIOUS
<1>g. PICK m3 : m3 = IF Free(m, p) THEN Merge(m2, p, a) ELSE m2
  OBVIOUS
<1>h. PICK l3 : l3 = IF Free(m, p) THEN remove_node(l2, p) ELSE l2
  OBVIOUS
<1>i. PICK a3 : a3 = IF Free(m, p) THEN p ELSE a
  OBVIOUS
<1>0. Sound(m, R)
  BY DEF Good
<1>1. h.mem = m3 /\ h.list = mdx_fl_add_node(l3, m3, a3)
  BY <1>a, <1>b, <1>c, <1>d, <1>e, <1>f, <1>g, <1>h, <1>i DEF fl_free, Give
<1>2. /\ Loose(m1, l, R, a) /\ DOMAIN m1 = DOMAIN m
      /\ UsedOf(m1, R) = UsedOf(m, R) \ {a}
      /\ \A x \in DOMAIN m : /\ m1[x].size = m[x].size
                             /\ Succ(m1, x) = Succ(m, x) /\ Pred(m1, x) = Pred(m, x)
                             /\ x # a => (Free(m1, x) <=> Free(m, x))
  BY <1>d, Loosen
<1>3. /\ a \in DOMAIN m /\ a \in Nat /\ n \in DOMAIN m /\ n # a
      /\ p \in DOMAIN m /\ p # a /\ p < a
  <2>1. a \in DOMAIN m /\ a \in DOMAIN m \ LastOf(R) /\ a \in DOMAIN m \ FirstOf(R) /\ a \in Nat
    BY <1>0, UsedBlock
  <2>2. n \in DOMAIN m /\ n > a /\ p \in DOMAIN m /\ p < a
    BY <1>0, <1>b, <1>c, <2>1, NextBlock, PrevBlock
  <2>3. n \in Nat /\ p \in Nat
    BY <1>0, <2>2, Fields
  <2> QED  BY <2>1, <2>2, <2>3
<1>4. /\ Succ(m1, a) = n /\ Pred(m1, a) = p
      /\ (Free(m1, n) <=> Free(m, n)) /\ (Free(m1, p) <=> Free(m, p))
  BY <1>2, <1>3, <1>b, <1>c
<1>5. /\ Loose(m2, l2, R, a) /\ Same(m1, m2, R) /\ ~Free(m2, Succ(m2, a))
      /\ Pred(m2, a) = p /\ (Free(m2, p) <=> Free(m, p))
  <2>1. CASE Free(m, n)
    <3>1. m2 = Merge(m1, a, n) /\ l2 = remove_node(l, n)
      BY <1>e, <1>f, <2>1
    <3>2. /\ Loose(m2, l2, R, a) /\ Same(m1, m2, R) /\ ~Free(m2, Succ(m2, a))
          /\ Pred(m2, a) = Pred(m1, a)
          /\ \A x \in DOMAIN m1 : x < a => (Free(m2, x) <=> Free(m1, x))
      BY <1>2, <1>4, <2>1, <3>1, TakeNext
    <3> QED  BY <1>2, <1>3, <1>4, <3>2
  <2>2. CASE ~Free(m, n)
    <3>1. m2 = m1 /\ l2 = l
      BY <1>e, <1>f, <2>2
    <3> QED  BY <1>2, <1>4, <2>2, <3>1 DEF Same
  <2> QED  BY <2>1, <2>2
<1>6. /\ Loose(m3, l3, R, a3) /\ Same(m2, m3, R) /\ ~Free(m3, Succ(m3, a3))
      /\ ~Free(m3, Pred(m3, a3))
  <2>1. CASE Free(m, p)
    <3>1. m3 = Merge(m2, p, a) /\ l3 = remove_node(l2, p) /\ a3 = p
      BY <1>g, <1>h, <1>i, <2>1
    <3> QED  BY <1>5, <2>1, <3>1, TakePrev
  <2>2. CASE ~Free(m, p)
    <3>1. m3 = m2 /\ l3 = l2 /\ a3 = a
      BY <1>g, <1>h, <1>i, <2>2
    <3> QED  BY <1>5, <2>2, <3>1 DEF Same
  <2> QED  BY <2>1, <2>2
<1>7. Good(h.mem, h.list, R)
  BY <1>1, <1>6, LinkFree
<1>8. UsedOf(h.mem, R) = UsedOf(m, R) \ {a}
  BY <1>1, <1>2, <1>5, <1>6 DEF Same
<1>9. Keeps(m, h.mem, R, a)
  <2>1. UsedOf(m, R) \subseteq DOMAIN m
    BY DEF UsedOf
  <2> QED  BY <1>1, <1>2, <1>5, <1>6, <2>1 DEF Same, Keeps
<1> QED  BY <1>a, <1>7, <1>8, <1>9

\* A block in use takes in the free block behind it.
LEMMA AbsorbGood ==
  ASSUME NEW m, NEW l, NEW R, Good(m, l, R), NEW a \in UsedOf(m, R),
         NEW b, b = Succ(m, a), Free(m, b)
  PROVE  LET n == Merge(m, a, b)
         IN  /\ Good(n, remove_node(l, b), R)
             /\ ~Free(n, Succ(n, a)) /\ UsedOf(n, R) = UsedOf(m, R)
             /\ n[a].size = m[a].size + m[b].size
             /\ Keeps(m, n, R, a)
<1>a. PICK n : n = Merge(m, a, b)
  OBVIOUS
<1>b. PICK c : c = Succ(m, b)
  OBVIOUS
<1>0. Sound(m, R) /\ Coalesced(m) /\ Lists(m, l, FreeOf(m))
  BY DEF Good
<1>1. a \in DOMAIN m \ LastOf(R) /\ a \notin FreeOf(m)
  BY <1>0, UsedBlock
<1>2. b \in FreeOf(m)
  BY <1>0, <1>1, NextBlock DEF FreeOf
<1>3. /\ Sound(n, R) /\ a # b /\ DOMAIN n = DOMAIN m \ {b}
      /\ FreeOf(n) = FreeOf(m) \ {b} /\ UsedOf(n, R) = UsedOf(m, R)
      /\ n[a].size = m[a].size + m[b].size
      /\ Succ(n, a) = c /\ c \in DOMAIN n
      /\ \A x \in DOMAIN n : n[x].alloc = m[x].alloc
      /\ \A x \in DOMAIN n : x # a => n[x].size = m[x].size /\ Succ(n, x) = Succ(m, x)
  <2>1. Sound(m, R) /\ a \in DOMAIN m \ LastOf(R) /\ b \in FreeOf(m) /\ b = Succ(m, a)
    BY <1>0, <1>1, <1>2
  <2> QED  BY <1>a, <1>b, <2>1, MergeHeap
<1>4. ~Free(n, Succ(n, a))
  <2>1. ~Free(m, c)
    BY <1>b, <1>0, <1>2 DEF Coalesced
  <2> QED  BY <1>3, <2>1 DEF Free
<1>5. Coalesced(n)
  <2> SUFFICES ASSUME NEW x \in FreeOf(n)
               PROVE  ~Free(n, Succ(n, x))
    BY DEF Coalesced
  <2>1. x \in FreeOf(m) /\ x \in DOMAIN n /\ x # a /\ Succ(n, x) = Succ(m, x)
    BY <1>1, <1>3 DEF FreeOf
  <2>2. ~Free(m, Succ(m, x))
    BY <1>0, <2>1 DEF Coalesced
  <2>3. Succ(n, x) \in DOMAIN n
    BY <1>3, FreeBlock, NextBlock
  <2> QED  BY <1>3, <2>1, <2>2, <2>3 DEF Free
<1>6. Lists(n, remove_node(l, b), FreeOf(n))
  <2>1. Lists(m, remove_node(l, b), FreeOf(n))
    BY <1>0, <1>2, <1>3, RemoveNode
  <2>2. FreeOf(n) \subseteq DOMAIN n /\ \A x \in FreeOf(n) : n[x].size = m[x].size
    BY <1>1, <1>3 DEF FreeOf
  <2> QED  BY <2>1, <2>2, ListSame
<1>7. Keeps(m, n, R, a)
  <2>1. \A x \in UsedOf(m, R) : x \in UsedOf(n, R) /\ x \in DOMAIN n
    BY <1>3 DEF UsedOf
  <2> QED  BY <1>3, <2>1 DEF Keeps
<1>8. Good(n, remove_node(l, b), R)
  BY <1>3, <1>5, <1>6 DEF Good
<1> QED  BY <1>a, <1>3, <1>4, <1>7, <1>8

\* A block in use gives back what it does not need.
LEMMA SplitGood ==
  ASSUME NEW m, NEW l, NEW R, Good(m, l, R), NEW a \in UsedOf(m, R),
         ~Free(m, Succ(m, a)), NEW size \in Nat, NEW rest \in Nat,
         size >= NODE_S, rest >= NODE_S, size + rest = m[a].size
  PROVE  LET n == Carve(m, a, size, rest)
         IN  /\ Good(n, mdx_fl_add_node(l, n, a + size), R)
             /\ UsedOf(n, R) = UsedOf(m, R) /\ n[a].size = size
             /\ Keeps(m, n, R, a)
<1>a. PICK n : n = Carve(m, a, size, rest)
  OBVIOUS
<1>b. PICK b : b = a + size
  OBVIOUS
<1>c. PICK k : k = mdx_fl_add_node(l, n, b)
  OBVIOUS
<1>0. Sound(m, R) /\ Coalesced(m) /\ Lists(m, l, FreeOf(m))
  BY DEF Good
<1>1. a \in DOMAIN m \ LastOf(R) /\ a \notin FreeOf(m) /\ m[a].alloc
  BY <1>0, UsedBlock
<1>2. /\ Sound(n, R) /\ Coalesced(n) /\ b \notin DOMAIN m /\ b \in DOMAIN n
      /\ FreeOf(n) = FreeOf(m) \cup {b} /\ UsedOf(n, R) = UsedOf(m, R) /\ n[a].size = size
      /\ \A x \in DOMAIN m : x \in DOMAIN n /\ (x # a => n[x].size = m[x].size)
  BY <1>a, <1>b, <1>0, <1>1, SplitHeap
<1>3. Lists(n, l, FreeOf(m))
  <2>1. FreeOf(m) \subseteq DOMAIN n /\ \A x \in FreeOf(m) : n[x].size = m[x].size
    BY <1>1, <1>2 DEF FreeOf
  <2> QED  BY <1>0, <2>1, ListSame
<1>4. Lists(n, k, FreeOf(n))
  <2>1. b \notin FreeOf(m) /\ Listed(n[b].size) /\ FreeOf(m) \subseteq DOMAIN n
    BY <1>2, BlockListed DEF FreeOf
  <2>2. Sized(n, FreeOf(m))
    BY <1>2, <2>1, AllSized
  <2>3. Lists(n, k, FreeOf(m) \cup {b})
    BY <1>c, <1>2, <1>3, <2>1, <2>2, AddNode
  <2> QED  BY <1>2, <2>3
<1>5. Keeps(m, n, R, a)
  <2>1. \A x \in UsedOf(m, R) : x \in UsedOf(n, R) /\ x \in DOMAIN m
    BY <1>2 DEF UsedOf
  <2> QED  BY <1>2, <2>1 DEF Keeps
<1>6. Good(n, k, R)
  BY <1>2, <1>4 DEF Good
<1> QED  BY <1>a, <1>b, <1>c, <1>2, <1>5, <1>6

\* What realloc_recarve does is a merge and a split.
LEMMA RecarveMerge ==
  ASSUME NEW m, NEW R, Sound(m, R), NEW a \in UsedOf(m, R),
         NEW b \in FreeOf(m), b = Succ(m, a),
         NEW size \in Nat, NEW rest \in Nat, size >= NODE_S, rest >= NODE_S,
         size + rest = m[a].size + m[b].size
  PROVE  Carve(Drop(m, b), a, size, rest) = Carve(Merge(m, a, b), a, size, rest)
<1>a. PICK g : g = Merge(m, a, b)
  OBVIOUS
<1>b. PICK n : n = Carve(g, a, size, rest)
  OBVIOUS
<1>c. PICK d : d = Drop(m, b)
  OBVIOUS
<1>d. PICK k : k = Carve(d, a, size, rest)
  OBVIOUS
<1>e. PICK f : f = a + size
  OBVIOUS
<1>f. PICK c : c = Succ(m, b)
  OBVIOUS
<1>0. a \in DOMAIN m /\ a \in DOMAIN m \ LastOf(R) /\ a \in Nat
  BY UsedBlock
<1>1. Merged(m, g, a) /\ Sound(g, R)
  <2>1. Succ(m, a) \notin LastOf(R)
    BY FreeBlock
  <2> QED  BY <1>a, <1>0, <2>1, MergeNodes, MergeSound
<1>2. /\ c \in DOMAIN m /\ a < b /\ b < c /\ c = a + (m[a].size + m[b].size)
      /\ DOMAIN g = DOMAIN m \ {b}
      /\ g[a] = Node(m[a].size + m[b].size, m[a].prev, m[a].alloc)
      /\ g[c] = Node(m[c].size, m[a].size + m[b].size, m[c].alloc)
      /\ \A x \in DOMAIN m \ {b} : x # a /\ x # c => g[x] = m[x]
  BY <1>1, <1>f DEF Merged
<1>3. /\ b \in Nat /\ c \in Nat /\ m[a].size \in Nat /\ m[b].size \in Nat /\ NODE_S \in Nat
      /\ NODE_S > 0
      /\ m[a] = Node(m[a].size, m[a].prev, m[a].alloc)
      /\ m[c] = Node(m[c].size, m[c].prev, m[c].alloc)
  <2>1. b \in DOMAIN m
    BY FreeBlock
  <2> QED  BY <1>0, <1>2, <2>1, Fields, Sizes
<1>4. a # b /\ b # c /\ a # c /\ a < f /\ f < c /\ c = f + rest /\ a # f /\ f # c /\ f \in Nat
  BY <1>0, <1>2, <1>3, <1>e
<1>5. /\ g[a].size = m[a].size + m[b].size /\ g[a].prev = m[a].prev /\ g[a].alloc = m[a].alloc
      /\ g[c].size = m[c].size /\ g[c].alloc = m[c].alloc
  BY <1>2 DEF Node
<1>6. Succ(g, a) = c /\ a \in DOMAIN g \ LastOf(R)
  BY <1>0, <1>2, <1>4, <1>5 DEF Succ
<1>7. Carved(g, n, a, size, rest)
  BY <1>b, <1>1, <1>5, <1>6, CarveNodes
<1>8. /\ DOMAIN n = DOMAIN g \cup {f} /\ f \notin DOMAIN g
      /\ n[a] = Node(size, m[a].prev, m[a].alloc)
      /\ n[f] = Node(rest, size, FALSE)
      /\ n[c] = Node(m[c].size, rest, m[c].alloc)
      /\ \A x \in DOMAIN g : x # a /\ x # c => n[x] = m[x]
  BY <1>2, <1>5, <1>6, <1>7, <1>e DEF Carved
<1> DEFINE d1 == [d EXCEPT ![a].size = size]
           d2 == Put(d1, f, Node(rest, size, FALSE))
<1>9. DOMAIN d = DOMAIN g /\ \A x \in DOMAIN g : d[x] = m[x]
  BY <1>c, <1>2 DEF Drop
<1>10. /\ DOMAIN d1 = DOMAIN g /\ d1[a] = Node(size, m[a].prev, m[a].alloc)
       /\ \A x \in DOMAIN g : x # a => d1[x] = m[x]
  <2>0. a \in DOMAIN g
    BY <1>6
  <2>1. d1[a] = [m[a] EXCEPT !.size = size]
    BY <1>9, <2>0
  <2>2. d1[a] = Node(size, m[a].prev, m[a].alloc)
    BY <1>3, <2>1 DEF Node
  <2> QED  BY <1>9, <2>2
<1>11. d1 = [x \in DOMAIN d1 |-> d1[x]]
  OBVIOUS
<1> HIDE DEF d1
<1>12. /\ DOMAIN d2 = DOMAIN g \cup {f} /\ d2[f] = Node(rest, size, FALSE)
       /\ \A x \in DOMAIN g : x # f => d2[x] = d1[x]
  BY <1>10 DEF Put
<1>13. k = [d2 EXCEPT ![c].prev = rest]
  <2>1. d2[f].size = rest
    BY <1>12 DEF Node
  <2>2. Succ(d2, f) = c
    BY <1>4, <2>1 DEF Succ
  <2> QED  BY <1>d, <1>e, <2>1, <2>2 DEF Carve, Tell, d1
<1> HIDE DEF d2
<1>14. /\ DOMAIN k = DOMAIN n /\ k[c] = [d2[c] EXCEPT !.prev = rest]
       /\ \A x \in DOMAIN n : x # c => k[x] = d2[x]
       /\ k = [x \in DOMAIN n |-> k[x]]
  BY <1>2, <1>4, <1>8, <1>12, <1>13
<1>15. d2[c] = m[c]
  BY <1>2, <1>4, <1>10, <1>12
<1>16. k[c] = n[c]
  BY <1>3, <1>8, <1>14, <1>15 DEF Node
<1>17. k[a] = n[a] /\ k[f] = n[f]
  BY <1>4, <1>6, <1>8, <1>10, <1>12, <1>14
<1>18. \A x \in DOMAIN n : k[x] = n[x]
  BY <1>8, <1>10, <1>12, <1>14, <1>16, <1>17
<1>19. n = [x \in DOMAIN n |-> n[x]]
  BY <1>b DEF Carve, Tell
<1>20. k = n
  BY <1>14, <1>18, <1>19
<1> QED  BY <1>a, <1>b, <1>c, <1>d, <1>20

-----------------------------------------------------------------------------
(***************************************************************************)
(* The invariant and the operations.                                       *)
(***************************************************************************)

\* The pointers in use are behind the headers of the blocks in use.
LEMMA InUse ==
  ASSUME NEW m, NEW l, NEW R, Good(m, l, R), NEW h, Asked(m, R, h), NEW p \in DOMAIN h
  PROVE  /\ p - NODE_S \in UsedOf(m, R) /\ p - NODE_S \in Nat /\ p \in Nat
         /\ p = (p - NODE_S) + NODE_S /\ h[p] \in Requests
         /\ h[p] \in Nat /\ h[p] > 0
         /\ p + h[p] <= (p - NODE_S) + m[p - NODE_S].size
         /\ m[p - NODE_S].size \in Nat
<1>1. PICK a \in UsedOf(m, R) : p = a + NODE_S
  BY DEF Asked
<1>2. a \in Nat /\ a \in DOMAIN m /\ Sound(m, R)
  BY UsedBlock DEF Good
<1>3. NODE_S \in Nat
  BY Sizes
<1>4. p - NODE_S = a
  BY <1>1, <1>2, <1>3
<1>5. m[a].size \in Nat
  BY <1>2, Fields
<1>6. h[p] \in Requests /\ h[p] \in Nat /\ h[p] > 0
  BY Sizes DEF Asked
<1>7. NODE_S + h[p] <= m[a].size
  BY <1>1 DEF Asked
<1>8. p + h[p] <= a + m[a].size
  BY <1>1, <1>2, <1>3, <1>5, <1>6, <1>7
<1>9. p \in Nat
  BY <1>1, <1>2, <1>3
<1> QED  BY <1>1, <1>2, <1>4, <1>5, <1>6, <1>8, <1>9

\* A block is in use for n.
LEMMA AskedPut ==
  ASSUME NEW m, NEW n, NEW R, NEW h, Asked(m, R, h), Sound(n, R),
         NEW a, UsedOf(n, R) = UsedOf(m, R) \cup {a}, Keeps(m, n, R, a),
         NEW q \in Requests, NODE_S + q <= n[a].size
  PROVE  Asked(n, R, Put(h, a + NODE_S, q))
<1>1. PICK g : g = Put(h, a + NODE_S, q)
  OBVIOUS
<1>2. /\ DOMAIN h = {x + NODE_S : x \in UsedOf(m, R)}
      /\ \A p \in DOMAIN h : h[p] \in Requests
      /\ \A x \in UsedOf(m, R) : NODE_S + h[x + NODE_S] <= m[x].size
  BY DEF Asked
<1>3. /\ DOMAIN g = DOMAIN h \cup {a + NODE_S} /\ g[a + NODE_S] = q
      /\ \A p \in DOMAIN h : p # a + NODE_S => g[p] = h[p]
  BY <1>1 DEF Put
<1>4. DOMAIN g = {x + NODE_S : x \in UsedOf(n, R)}
  BY <1>2, <1>3
<1>5. \A p \in DOMAIN g : g[p] \in Requests
  BY <1>2, <1>3
<1>6. ASSUME NEW x \in UsedOf(n, R)
      PROVE  NODE_S + g[x + NODE_S] <= n[x].size
  <2>1. CASE x = a
    BY <1>3, <2>1
  <2>2. CASE x # a
    <3>1. x \in UsedOf(m, R) /\ n[x].size = m[x].size
      BY <2>2 DEF Keeps
    <3>2. x \in Nat /\ a \in Nat /\ NODE_S \in Nat
      BY UsedBlock, Sizes
    <3>3. x + NODE_S # a + NODE_S
      BY <2>2, <3>2
    <3>4. x + NODE_S \in DOMAIN h
      BY <1>2, <3>1
    <3>5. g[x + NODE_S] = h[x + NODE_S]
      BY <1>3, <3>3, <3>4
    <3> QED  BY <1>2, <3>1, <3>5
  <2> QED  BY <2>1, <2>2
<1> QED  BY <1>1, <1>4, <1>5, <1>6 DEF Asked

\* A block is no longer in use.
LEMMA AskedDrop ==
  ASSUME NEW m, NEW n, NEW R, NEW h, Asked(m, R, h), Sound(m, R),
         NEW a \in UsedOf(m, R), UsedOf(n, R) = UsedOf(m, R) \ {a}, Keeps(m, n, R, a)
  PROVE  Asked(n, R, Drop(h, a + NODE_S))
<1>1. PICK g : g = Drop(h, a + NODE_S)
  OBVIOUS
<1>2. /\ DOMAIN h = {x + NODE_S : x \in UsedOf(m, R)}
      /\ \A p \in DOMAIN h : h[p] \in Requests
      /\ \A x \in UsedOf(m, R) : NODE_S + h[x + NODE_S] <= m[x].size
  BY DEF Asked
<1>3. /\ DOMAIN g = DOMAIN h \ {a + NODE_S}
      /\ \A p \in DOMAIN g : g[p] = h[p]
  BY <1>1 DEF Drop
<1>4. \A x \in UsedOf(m, R) : x # a => x + NODE_S # a + NODE_S
  <2>1. \A x \in UsedOf(m, R) : x \in Nat
    BY UsedBlock
  <2> QED  BY <2>1, Sizes
<1>5. DOMAIN g = {x + NODE_S : x \in UsedOf(n, R)}
  BY <1>2, <1>3, <1>4
<1>6. \A x \in UsedOf(n, R) : /\ x \in UsedOf(m, R) /\ n[x].size = m[x].size
                              /\ x + NODE_S \in DOMAIN g
  BY <1>5 DEF Keeps
<1>7. \A x \in UsedOf(n, R) : NODE_S + g[x + NODE_S] <= n[x].size
  BY <1>2, <1>3, <1>6
<1> QED  BY <1>1, <1>2, <1>3, <1>5, <1>7 DEF Asked

\* The two histories of a move.
LEMMA PutDrop ==
  ASSUME NEW h, NEW p, NEW q, p # q, NEW n
  PROVE  Put(Drop(h, p), q, n) = Drop(Put(h, q, n), p)
BY DEF Put, Drop

\* The heap of mdx_fl_init.
LEMMA InitHeap == Init => HeapInv
<1> SUFFICES ASSUME Init  PROVE HeapInv
  OBVIOUS
<1>1. mem = [a \in {} |-> Node(0, 0, FALSE)] /\ regions = {} /\ DOMAIN mem = {}
  BY DEF Init
<1>2. /\ FirstOf(regions) = {} /\ LastOf(regions) = {}
      /\ FreeOf(mem) = {} /\ UsedOf(mem, regions) = {}
  BY <1>1 DEF FirstOf, LastOf, FreeOf, UsedOf
<1>3. mem \in [DOMAIN mem -> NodeType]
  BY <1>1
<1>4. Sound(mem, regions)
  BY <1>1, <1>2, <1>3 DEF Sound, Inside, Apart, Ends, Forward, Backward
<1>5. Coalesced(mem)
  BY <1>2 DEF Coalesced
<1>6. Lists(mem, nodelist, {})
  <2>1. \A i \in 0 .. NLists - 1 : nodelist[i] = <<>> /\ Once(nodelist[i]) /\ Sorted(mem, nodelist[i])
    BY EmptyList DEF Init, Sorted
  <2>2. nodelist \in [0 .. NLists - 1 -> Seq({})]
    BY DEF Init
  <2> QED  BY <2>1, <2>2 DEF Lists
<1>7. DOMAIN asked = {}
  BY DEF Init
<1>8. Asked(mem, regions, asked)
  BY <1>2, <1>7 DEF Asked
<1> QED  BY <1>2, <1>4, <1>5, <1>6, <1>8 DEF HeapInv, Good

\* mdx_fl_add_region
LEMMA RegionStep ==
  ASSUME NEW r \in Regions, HeapInv, mdx_fl_add_region(r)
  PROVE  HeapInv'
<1>a. PICK f : f = r.base + NODE_S
  OBVIOUS
<1>b. PICK R : R = regions \cup {r}
  OBVIOUS
<1>0. /\ Sound(mem, regions) /\ Coalesced(mem) /\ Lists(mem, nodelist, FreeOf(mem))
      /\ Asked(mem, regions, asked)
  BY DEF HeapInv, Good
<1>1. /\ r \notin regions /\ mem' = Extended(mem, r) /\ regions' = R
      /\ nodelist' = mdx_fl_add_node(nodelist, mem', f) /\ asked' = asked
  BY <1>a, <1>b DEF mdx_fl_add_region, Extended
<1>2. /\ Sound(mem', R) /\ f \notin DOMAIN mem
      /\ FreeOf(mem') = FreeOf(mem) \cup {f} /\ UsedOf(mem', R) = UsedOf(mem, regions)
      /\ \A x \in DOMAIN mem : mem'[x] = mem[x]
      /\ Coalesced(mem')
  BY <1>a, <1>b, <1>0, <1>1, RegionSound
<1>3. f \in DOMAIN mem' /\ FreeOf(mem) \subseteq DOMAIN mem' /\ f \notin FreeOf(mem)
  BY <1>2 DEF FreeOf
<1>4. Lists(mem', nodelist, FreeOf(mem))
  <2>1. \A x \in FreeOf(mem) : mem'[x].size = mem[x].size
    BY <1>2 DEF FreeOf
  <2> QED  BY <1>0, <1>3, <2>1, ListSame
<1>5. Lists(mem', nodelist', FreeOf(mem'))
  <2>1. Listed(mem'[f].size) /\ Sized(mem', FreeOf(mem))
    BY <1>2, <1>3, BlockListed, AllSized
  <2> QED  BY <1>1, <1>2, <1>3, <1>4, <2>1, AddNode
<1>6. Asked(mem', R, asked)
  <2>1. \A x \in UsedOf(mem, regions) : mem'[x].size = mem[x].size
    BY <1>2 DEF UsedOf
  <2> QED  BY <1>0, <1>2, <2>1 DEF Asked
<1> QED  BY <1>1, <1>2, <1>5, <1>6 DEF HeapInv, Good

\* The node that a request finds.
LEMMA FoundNode ==
  ASSUME NEW m, NEW l, NEW R, Good(m, l, R), NEW size, Listed(size)
  PROVE  LET a == FirstFit(m, l, size)
         IN  \/ a = NULL /\ \A x \in FreeOf(m) : m[x].size < size
             \/ /\ a \in FreeOf(m) /\ a # NULL /\ m[a].size >= size
                /\ \A x \in FreeOf(m) : m[x].size >= size => m[a].size <= m[x].size
<1>1. Sound(m, R) /\ Lists(m, l, FreeOf(m)) /\ FreeOf(m) \in SUBSET DOMAIN m
  BY DEF Good, FreeOf
<1>2. Sized(m, FreeOf(m)) /\ FreeOf(m) \subseteq Nat
  BY <1>1, AllSized
<1> QED  BY <1>1, <1>2, FirstFitFinds

\* mdx_fl_malloc
LEMMA MallocStep ==
  ASSUME HeapInv, NEW n \in Requests, mdx_fl_malloc(n)
  PROVE  HeapInv'
<1>a. PICK a : a = FirstFit(mem, nodelist, BlockSize(n))
  OBVIOUS
<1>b. PICK h : h = fl_malloc(mem, nodelist, BlockSize(n), a)
  OBVIOUS
<1>0. Good(mem, nodelist, regions) /\ Asked(mem, regions, asked)
  BY DEF HeapInv
<1>1. /\ a # NULL /\ mem' = h.mem /\ nodelist' = h.list /\ regions' = regions
      /\ asked' = Put(asked, a + NODE_S, n)
  BY <1>a, <1>b DEF mdx_fl_malloc, Become
<1>2. /\ BlockSize(n) \in Nat /\ BlockSize(n) >= NODE_S /\ Listed(BlockSize(n))
      /\ BlockSize(n) >= NODE_S + n /\ n \in Nat /\ NODE_S \in Nat
  <2>1. /\ BlockSize(n) \in Nat /\ BlockSize(n) >= n + NODE_S /\ Listed(BlockSize(n))
        /\ n \in Nat /\ NODE_S \in Nat
    BY BlockSizes, Sizes
  <2> QED  BY <2>1
<1>3. a \in FreeOf(mem) /\ mem[a].size >= BlockSize(n)
  BY <1>a, <1>0, <1>1, <1>2, FoundNode
<1>4. /\ Good(h.mem, h.list, regions)
      /\ UsedOf(h.mem, regions) = UsedOf(mem, regions) \cup {a}
      /\ h.mem[a].size >= BlockSize(n)
      /\ Keeps(mem, h.mem, regions, a)
  BY <1>b, <1>0, <1>2, <1>3, MallocGood
<1>5. Sound(h.mem, regions) /\ a \in DOMAIN h.mem
  BY <1>4 DEF Good, UsedOf
<1>6. NODE_S + n <= h.mem[a].size
  <2>1. h.mem[a].size \in Nat
    BY <1>5, Fields
  <2> QED  BY <1>2, <1>4, <2>1
<1>7. Asked(h.mem, regions, asked')
  BY <1>0, <1>1, <1>4, <1>5, <1>6, AskedPut
<1> QED  BY <1>1, <1>4, <1>7 DEF HeapInv

\* mdx_fl_free
LEMMA FreeStep ==
  ASSUME HeapInv, NEW p \in DOMAIN asked, mdx_fl_free(p)
  PROVE  HeapInv'
<1>a. PICK a : a = p - NODE_S
  OBVIOUS
<1>b. PICK h : h = fl_free(mem, nodelist, a)
  OBVIOUS
<1>0. Good(mem, nodelist, regions) /\ Asked(mem, regions, asked) /\ Sound(mem, regions)
  BY DEF HeapInv, Good
<1>1. a \in UsedOf(mem, regions) /\ p = a + NODE_S
  BY <1>a, <1>0, InUse
<1>2. mem' = h.mem /\ nodelist' = h.list /\ regions' = regions /\ asked' = Drop(asked, a + NODE_S)
  BY <1>a, <1>b, <1>1 DEF mdx_fl_free, Become
<1>3. /\ Good(h.mem, h.list, regions)
      /\ UsedOf(h.mem, regions) = UsedOf(mem, regions) \ {a}
      /\ Keeps(mem, h.mem, regions, a)
  BY <1>b, <1>0, <1>1, FreeGood
<1>4. Asked(h.mem, regions, asked')
  BY <1>0, <1>1, <1>2, <1>3, AskedDrop
<1> QED  BY <1>2, <1>3, <1>4 DEF HeapInv

\* mdx_fl_realloc in place: the block is large enough for n.
LEMMA ReallocHere ==
  ASSUME HeapInv, NEW p \in DOMAIN asked, NEW n \in Requests,
         Good(mem', nodelist', regions'), regions' = regions,
         UsedOf(mem', regions) = UsedOf(mem, regions),
         Keeps(mem, mem', regions, Block(p)), mem'[Block(p)].size >= BlockSize(n),
         asked' = Put(asked, p, n)
  PROVE  HeapInv'
<1>a. PICK a : a = Block(p)
  OBVIOUS
<1>0. Good(mem, nodelist, regions) /\ Asked(mem, regions, asked) /\ Sound(mem', regions)
  BY DEF HeapInv, Good
<1>1. a \in UsedOf(mem, regions) /\ p = a + NODE_S
  BY <1>a, <1>0, InUse DEF Block
<1>2. UsedOf(mem', regions) = UsedOf(mem, regions) \cup {a}
  BY <1>1
<1>3. NODE_S + n <= mem'[a].size
  <2>1. a \in DOMAIN mem'
    BY <1>2 DEF UsedOf
  <2>2. mem'[a].size \in Nat
    BY <1>0, <2>1, Fields
  <2>3. BlockSize(n) \in Nat /\ BlockSize(n) >= n + NODE_S /\ n \in Nat /\ NODE_S \in Nat
    BY BlockSizes, Sizes
  <2> QED  BY <1>a, <2>2, <2>3
<1>4. Asked(mem', regions, asked')
  BY <1>a, <1>0, <1>1, <1>2, <1>3, AskedPut
<1> QED  BY <1>4 DEF HeapInv

\* What mdx_fl_realloc reads.
LEMMA ReallocReads ==
  ASSUME HeapInv, NEW p \in DOMAIN asked, NEW n \in Requests
  PROVE  /\ Good(mem, nodelist, regions) /\ Sound(mem, regions)
         /\ Block(p) \in UsedOf(mem, regions) /\ Block(p) \in DOMAIN mem
         /\ mem[Block(p)].size \in Nat
         /\ After(p) \in DOMAIN mem /\ mem[After(p)].size \in Nat
         /\ mem[After(p)].size >= NODE_S
         /\ BlockSize(n) \in Nat /\ BlockSize(n) >= NODE_S /\ NODE_S \in Nat
<1>0. Good(mem, nodelist, regions) /\ Asked(mem, regions, asked) /\ Sound(mem, regions)
  BY DEF HeapInv, Good
<1>1. Block(p) \in UsedOf(mem, regions)
  BY <1>0, InUse DEF Block
<1>2. Block(p) \in DOMAIN mem /\ Block(p) \in DOMAIN mem \ LastOf(regions)
  BY <1>0, <1>1, UsedBlock
<1>3. After(p) \in DOMAIN mem
  BY <1>0, <1>2, NextBlock DEF After
<1>4. BlockSize(n) \in Nat /\ BlockSize(n) >= n + NODE_S /\ n \in Nat /\ NODE_S \in Nat
  BY BlockSizes, Sizes
<1>5. BlockSize(n) >= NODE_S
  BY <1>4
<1> QED  BY <1>0, <1>1, <1>2, <1>3, <1>4, <1>5, Fields

\* The next block is free and is carved up with this one.
LEMMA RecarveStep ==
  ASSUME HeapInv, NEW p \in DOMAIN asked, NEW n \in Requests, Free(mem, After(p)),
         mem[Block(p)].size + mem[After(p)].size - BlockSize(n) >= NODE_S,
         realloc_recarve(p, n)
  PROVE  HeapInv'
<1>a. PICK a : a = Block(p)
  OBVIOUS
<1>b. PICK b : b = After(p)
  OBVIOUS
<1>c. PICK size : size = BlockSize(n)
  OBVIOUS
<1>d. PICK rest : rest = mem[a].size + mem[b].size - size
  OBVIOUS
<1>e. PICK g : g = Merge(mem, a, b)
  OBVIOUS
<1>f. PICK l : l = remove_node(nodelist, b)
  OBVIOUS
<1>0. /\ Good(mem, nodelist, regions) /\ Sound(mem, regions) /\ a \in UsedOf(mem, regions)
      /\ mem[a].size \in Nat /\ b \in DOMAIN mem /\ mem[b].size \in Nat
      /\ size \in Nat /\ size >= NODE_S /\ NODE_S \in Nat
  BY <1>a, <1>b, <1>c, ReallocReads
<1>1. rest \in Nat /\ rest >= NODE_S /\ size + rest = mem[a].size + mem[b].size
  BY <1>a, <1>b, <1>c, <1>d, <1>0
<1>2. b = Succ(mem, a) /\ Free(mem, b) /\ b \in FreeOf(mem)
  BY <1>a, <1>b, <1>0 DEF After, FreeOf
<1>3. /\ mem' = Carve(Drop(mem, b), a, size, rest)
      /\ nodelist' = mdx_fl_add_node(l, mem', a + size)
      /\ asked' = Put(asked, p, n) /\ regions' = regions
  BY <1>a, <1>b, <1>c, <1>d, <1>f DEF realloc_recarve
<1>4. mem' = Carve(g, a, size, rest)
  BY <1>e, <1>0, <1>1, <1>2, <1>3, RecarveMerge
<1>5. /\ Good(g, l, regions) /\ ~Free(g, Succ(g, a))
      /\ UsedOf(g, regions) = UsedOf(mem, regions)
      /\ g[a].size = mem[a].size + mem[b].size /\ Keeps(mem, g, regions, a)
  BY <1>e, <1>f, <1>0, <1>2, AbsorbGood
<1>6. /\ Good(mem', nodelist', regions)
      /\ UsedOf(mem', regions) = UsedOf(g, regions) /\ mem'[a].size = size
      /\ Keeps(g, mem', regions, a)
  <2>1. a \in UsedOf(g, regions) /\ size + rest = g[a].size
    BY <1>0, <1>1, <1>5
  <2> QED  BY <1>0, <1>1, <1>3, <1>4, <1>5, <2>1, SplitGood
<1>7. Keeps(mem, mem', regions, a)
  BY <1>5, <1>6 DEF Keeps
<1>8. mem'[a].size >= BlockSize(n) /\ UsedOf(mem', regions) = UsedOf(mem, regions)
  BY <1>c, <1>0, <1>5, <1>6
<1> QED  BY <1>a, <1>3, <1>6, <1>7, <1>8, ReallocHere

\* The other cases in place.
LEMMA SplitStep ==
  ASSUME HeapInv, NEW p \in DOMAIN asked, NEW n \in Requests, realloc_shrink_split(p, n)
  PROVE  HeapInv'
<1>a. PICK a : a = Block(p)
  OBVIOUS
<1>b. PICK size : size = BlockSize(n)
  OBVIOUS
<1>c. PICK rest : rest = mem[a].size - size
  OBVIOUS
<1>0. /\ Good(mem, nodelist, regions) /\ a \in UsedOf(mem, regions)
      /\ mem[a].size \in Nat /\ size \in Nat /\ size >= NODE_S /\ NODE_S \in Nat
  BY <1>a, <1>b, ReallocReads
<1>1. /\ rest > NODE_S /\ ~Free(mem, Succ(mem, a))
      /\ mem' = Carve(mem, a, size, rest)
      /\ nodelist' = mdx_fl_add_node(nodelist, mem', a + size)
      /\ asked' = Put(asked, p, n) /\ regions' = regions
  BY <1>a, <1>b, <1>c DEF realloc_shrink_split, After
<1>2. rest \in Nat /\ rest >= NODE_S /\ size + rest = mem[a].size
  BY <1>c, <1>0, <1>1
<1>3. /\ Good(mem', nodelist', regions)
      /\ UsedOf(mem', regions) = UsedOf(mem, regions) /\ mem'[a].size = size
      /\ Keeps(mem, mem', regions, a)
  BY <1>0, <1>1, <1>2, SplitGood
<1>4. mem'[a].size >= BlockSize(n)
  BY <1>b, <1>0, <1>3
<1> QED  BY <1>a, <1>1, <1>3, <1>4, ReallocHere

LEMMA KeepStep ==
  ASSUME HeapInv, NEW p \in DOMAIN asked, NEW n \in Requests, realloc_keep(p, n)
  PROVE  HeapInv'
<1>1. /\ mem' = mem /\ nodelist' = nodelist /\ regions' = regions
      /\ asked' = Put(asked, p, n) /\ BlockSize(n) <= mem[Block(p)].size
  BY DEF realloc_keep
<1>2. /\ Good(mem, nodelist, regions) /\ mem[Block(p)].size \in Nat /\ BlockSize(n) \in Nat
  BY ReallocReads
<1>3. Keeps(mem, mem', regions, Block(p)) /\ UsedOf(mem', regions) = UsedOf(mem, regions)
      /\ Good(mem', nodelist', regions')
  BY <1>1, <1>2 DEF Keeps
<1>4. mem'[Block(p)].size >= BlockSize(n)
  BY <1>1, <1>2
<1> QED  BY <1>1, <1>3, <1>4, ReallocHere

LEMMA ExactStep ==
  ASSUME HeapInv, NEW p \in DOMAIN asked, NEW n \in Requests, realloc_grow_exact(p, n)
  PROVE  HeapInv'
<1>a. PICK a : a = Block(p)
  OBVIOUS
<1>b. PICK b : b = After(p)
  OBVIOUS
<1>0. /\ Good(mem, nodelist, regions) /\ a \in UsedOf(mem, regions)
      /\ mem[a].size \in Nat /\ mem[b].size \in Nat /\ BlockSize(n) \in Nat
  BY <1>a, <1>b, ReallocReads
<1>1. /\ Free(mem, b) /\ b = Succ(mem, a) /\ mem[a].size + mem[b].size = BlockSize(n)
      /\ mem' = Merge(mem, a, b) /\ nodelist' = remove_node(nodelist, b)
      /\ asked' = Put(asked, p, n) /\ regions' = regions
  BY <1>a, <1>b DEF realloc_grow_exact, After, Joint
<1>2. /\ Good(mem', nodelist', regions)
      /\ UsedOf(mem', regions) = UsedOf(mem, regions)
      /\ mem'[a].size = mem[a].size + mem[b].size /\ Keeps(mem, mem', regions, a)
  BY <1>0, <1>1, AbsorbGood
<1>3. mem'[a].size >= BlockSize(n)
  BY <1>0, <1>1, <1>2
<1> QED  BY <1>a, <1>1, <1>2, <1>3, ReallocHere

\* The block moves: the new one is in use, with the old one, before the old
\* one is freed.
LEMMA MoveBetween ==
  ASSUME HeapInv, NEW p \in DOMAIN asked, NEW n \in Requests, realloc_move(p, n)
  PROVE  \E b, h :
           /\ b \in Nat /\ b + NODE_S \notin DOMAIN asked
           /\ asked' = Put(Drop(asked, p), b + NODE_S, n)
           /\ Good(h.mem, h.list, regions)
           /\ Asked(h.mem, regions, Put(asked, b + NODE_S, n))
           /\ mem' = fl_free(h.mem, h.list, Block(p)).mem
           /\ nodelist' = fl_free(h.mem, h.list, Block(p)).list
           /\ regions' = regions
<1>a. PICK size : size = BlockSize(BlockSize(n))
  OBVIOUS
<1>b. PICK b : b = FirstFit(mem, nodelist, size)
  OBVIOUS
<1>c. PICK h : h = fl_malloc(mem, nodelist, size, b)
  OBVIOUS
<1>0. Good(mem, nodelist, regions) /\ Asked(mem, regions, asked) /\ Sound(mem, regions)
  BY DEF HeapInv, Good
<1>1. /\ b # NULL /\ mem' = fl_free(h.mem, h.list, Block(p)).mem
      /\ nodelist' = fl_free(h.mem, h.list, Block(p)).list /\ regions' = regions
      /\ asked' = Put(Drop(asked, p), b + NODE_S, n)
  BY <1>a, <1>b, <1>c DEF realloc_move, Become
<1>2. /\ size \in Nat /\ Listed(size) /\ size >= NODE_S /\ size >= NODE_S + n
      /\ n \in Nat /\ NODE_S \in Nat
  <2>1. /\ size \in Nat /\ BlockSize(n) \in Nat /\ BlockSize(n) >= n + NODE_S /\ Listed(size)
        /\ size >= BlockSize(n) + NODE_S /\ n \in Nat /\ NODE_S \in Nat
    BY <1>a, BlockSizes, Sizes
  <2> QED  BY <2>1
<1>3. b \in FreeOf(mem) /\ mem[b].size >= size
  BY <1>b, <1>0, <1>1, <1>2, FoundNode
<1>4. /\ Good(h.mem, h.list, regions)
      /\ UsedOf(h.mem, regions) = UsedOf(mem, regions) \cup {b}
      /\ h.mem[b].size >= size /\ Keeps(mem, h.mem, regions, b)
      /\ b \notin UsedOf(mem, regions)
  BY <1>c, <1>0, <1>2, <1>3, MallocGood
<1>5. Sound(h.mem, regions) /\ b \in DOMAIN h.mem
  BY <1>4 DEF Good, UsedOf
<1>6. NODE_S + n <= h.mem[b].size /\ b \in Nat
  <2>1. h.mem[b].size \in Nat /\ b \in Nat
    BY <1>5, Fields
  <2> QED  BY <1>2, <1>4, <2>1
<1>7. Asked(h.mem, regions, Put(asked, b + NODE_S, n))
  BY <1>0, <1>4, <1>5, <1>6, AskedPut
<1>8. b + NODE_S \notin DOMAIN asked
  <2> SUFFICES ASSUME b + NODE_S \in DOMAIN asked  PROVE FALSE
    OBVIOUS
  <2>1. (b + NODE_S) - NODE_S \in UsedOf(mem, regions)
    BY <1>0, InUse
  <2>2. (b + NODE_S) - NODE_S = b
    BY <1>2, <1>6
  <2> QED  BY <1>4, <2>1, <2>2
<1> QED  BY <1>1, <1>4, <1>6, <1>7, <1>8

LEMMA MoveStep ==
  ASSUME HeapInv, NEW p \in DOMAIN asked, NEW n \in Requests, realloc_move(p, n)
  PROVE  HeapInv'
<1>1. PICK b, h :
           /\ b \in Nat /\ b + NODE_S \notin DOMAIN asked
           /\ asked' = Put(Drop(asked, p), b + NODE_S, n)
           /\ Good(h.mem, h.list, regions)
           /\ Asked(h.mem, regions, Put(asked, b + NODE_S, n))
           /\ mem' = fl_free(h.mem, h.list, Block(p)).mem
           /\ nodelist' = fl_free(h.mem, h.list, Block(p)).list
           /\ regions' = regions
  BY MoveBetween
<1>2. PICK g : g = Put(asked, b + NODE_S, n)
  OBVIOUS
<1>3. p \in DOMAIN g /\ p # b + NODE_S
  BY <1>1, <1>2 DEF Put
<1>4. asked' = Drop(g, p)
  BY <1>1, <1>2, <1>3, PutDrop
<1>5. PICK a : a = Block(p)
  OBVIOUS
<1>6. a \in UsedOf(h.mem, regions) /\ p = a + NODE_S
  BY <1>1, <1>2, <1>3, <1>5, InUse DEF Block
<1>7. /\ Good(mem', nodelist', regions)
      /\ UsedOf(mem', regions) = UsedOf(h.mem, regions) \ {a}
      /\ Keeps(h.mem, mem', regions, a)
  BY <1>1, <1>5, <1>6, FreeGood
<1>8. Sound(h.mem, regions)
  BY <1>1 DEF Good
<1>9. Asked(mem', regions, asked')
  BY <1>1, <1>2, <1>4, <1>6, <1>7, <1>8, AskedDrop
<1> QED  BY <1>1, <1>7, <1>9 DEF HeapInv

\* mdx_fl_realloc
LEMMA ReallocStep ==
  ASSUME HeapInv, NEW p \in DOMAIN asked, NEW n \in Requests, mdx_fl_realloc(p, n)
  PROVE  HeapInv'
<1>0. /\ mem[Block(p)].size \in Nat /\ mem[After(p)].size \in Nat
      /\ mem[After(p)].size >= NODE_S /\ BlockSize(n) \in Nat /\ NODE_S \in Nat
  BY ReallocReads
<1>1. CASE realloc_shrink_merge(p, n)
  <2>1. BlockSize(n) <= mem[Block(p)].size /\ Free(mem, After(p)) /\ realloc_recarve(p, n)
    BY <1>1 DEF realloc_shrink_merge
  <2>2. mem[Block(p)].size + mem[After(p)].size - BlockSize(n) >= NODE_S
    BY <1>0, <2>1
  <2> QED  BY <2>1, <2>2, RecarveStep
<1>2. CASE realloc_shrink_split(p, n)
  BY <1>2, SplitStep
<1>3. CASE realloc_keep(p, n)
  BY <1>3, KeepStep
<1>4. CASE realloc_grow_split(p, n)
  <2>1. /\ mem[Block(p)].size + mem[After(p)].size > BlockSize(n) + NODE_S
        /\ Free(mem, After(p)) /\ realloc_recarve(p, n)
    BY <1>4 DEF realloc_grow_split, Joint
  <2>2. mem[Block(p)].size + mem[After(p)].size - BlockSize(n) >= NODE_S
    BY <1>0, <2>1
  <2> QED  BY <2>1, <2>2, RecarveStep
<1>5. CASE realloc_grow_exact(p, n)
  BY <1>5, ExactStep
<1>6. CASE realloc_move(p, n)
  BY <1>6, MoveStep
<1> QED  BY <1>1, <1>2, <1>3, <1>4, <1>5, <1>6 DEF mdx_fl_realloc

-----------------------------------------------------------------------------
(***************************************************************************)
(* Theorems.                                                               *)
(***************************************************************************)

\* Whatever calls are made, and however the regions and the requests are
\* chosen, the tags tile the regions, the lists hold the free blocks and every
\* block in use is large enough for what was asked for.
THEOREM HeapInvariant == Spec => []HeapInv
<1>1. Init => HeapInv
  BY InitHeap
<1>2. HeapInv /\ [Next]_vars => HeapInv'
  <2> SUFFICES ASSUME HeapInv, [Next]_vars  PROVE HeapInv'
    OBVIOUS
  <2>1. CASE \E r \in Regions : mdx_fl_add_region(r)
    BY <2>1, RegionStep
  <2>2. CASE \E n \in Requests : mdx_fl_malloc(n)
    BY <2>2, MallocStep
  <2>3. CASE \E p \in DOMAIN asked : mdx_fl_free(p)
    BY <2>3, FreeStep
  <2>4. CASE \E p \in DOMAIN asked, n \in Requests : mdx_fl_realloc(p, n)
    BY <2>4, ReallocStep
  <2>5. CASE UNCHANGED vars
    BY <2>5 DEF vars, HeapInv
  <2> QED  BY <2>1, <2>2, <2>3, <2>4, <2>5 DEF Next
<1> QED  BY <1>1, <1>2, PTL DEF Spec

\* The blocks lie in the cells of their regions.
LEMMA InCells ==
  ASSUME NEW m, NEW R, Sound(m, R), NEW a \in DOMAIN m
  PROVE  \E r \in R : \A x \in a .. a + m[a].size - 1 : x \in Cells(r)
<1>1. PICK r \in R : Within(m, r, a)
  BY DEF Sound, Inside
<1>2. r.base \in Nat /\ r.size \in Nat /\ a \in Nat /\ m[a].size \in Nat
  BY Fields, Sizes DEF Sound
<1>3. \A x \in a .. a + m[a].size - 1 : x \in r.base .. r.base + r.size - 1
  BY <1>1, <1>2 DEF Within
<1> QED  BY <1>3 DEF Cells

\* The tags tile every region (Tiling), after any sequence of calls.
THEOREM TilingHolds == Spec => []Tiling
<1>1. HeapInv => Tiling
  <2> SUFFICES ASSUME HeapInv  PROVE Tiling
    OBVIOUS
  <2>0. /\ Sound(mem, regions) /\ Lists(mem, nodelist, FreeOf(mem)) /\ Asked(mem, regions, asked)
    BY DEF HeapInv, Good
  <2>1. Firsts = FirstOf(regions) /\ Lasts = LastOf(regions)
    BY DEF Firsts, Lasts, FirstOf, LastOf
  <2>2. TypeOK
    <3>1. DOMAIN mem \subseteq Heap
      <4> SUFFICES ASSUME NEW a \in DOMAIN mem  PROVE a \in Heap
        OBVIOUS
      <4>1. a \in Nat /\ mem[a].size \in Nat /\ mem[a].size > 0
        BY <2>0, Fields
      <4>2. a \in a .. a + mem[a].size - 1
        BY <4>1
      <4>3. PICK r \in regions : a \in Cells(r)
        BY <2>0, <4>2, InCells
      <4> QED  BY <4>3 DEF Heap
    <3>2. \A a \in DOMAIN mem : mem[a] \in [size : Nat, prev : Nat, alloc : BOOLEAN]
      BY <2>0 DEF Sound, NodeType
    <3>3. nodelist \in [0 .. NLists - 1 -> Seq(DOMAIN mem)]
      <4>1. nodelist \in [0 .. NLists - 1 -> Seq(FreeOf(mem))] /\ FreeOf(mem) \subseteq DOMAIN mem
        BY <2>0 DEF Lists
      <4>2. ASSUME NEW i \in 0 .. NLists - 1
            PROVE  nodelist[i] \in Seq(DOMAIN mem)
        <5>1. nodelist[i] \in Seq(FreeOf(mem))
          BY <4>1
        <5>2. \A a : On(nodelist[i], a) => a \in DOMAIN mem
          BY <4>1, <5>1, Entries
        <5> QED  BY <5>1, <5>2, SeqInto
      <4> QED  BY <4>1, <4>2
    <3>4. regions \subseteq Regions /\ \A p \in DOMAIN asked : asked[p] \in Requests
      BY <2>0 DEF Sound, Asked
    <3> QED  BY <3>1, <3>2, <3>3, <3>4 DEF TypeOK
  <2>3. Firsts \cup Lasts \subseteq DOMAIN mem
    BY <2>0, <2>1 DEF Sound, Ends
  <2>4. ASSUME NEW a \in DOMAIN mem
        PROVE  /\ mem[a].size >= NODE_S
               /\ a \notin Lasts =>
                    Succ(mem, a) \in DOMAIN mem /\ mem[Succ(mem, a)].prev = mem[a].size
               /\ a \notin Firsts =>
                    Pred(mem, a) \in DOMAIN mem /\ Succ(mem, Pred(mem, a)) = a
    BY <2>0, <2>1 DEF Sound, Inside, Forward, Backward
  <2> QED  BY <2>2, <2>3, <2>4 DEF Tiling
<1> QED  BY <1>1, HeapInvariant, PTL

\* The lists hold exactly the free blocks, in order, and free blocks are never
\* neighbours (FreeListExact).
THEOREM FreeListExactHolds == Spec => []FreeListExact
<1>1. HeapInv => FreeListExact
  <2> SUFFICES ASSUME HeapInv  PROVE FreeListExact
    OBVIOUS
  <2>0. /\ Sound(mem, regions) /\ Coalesced(mem) /\ Lists(mem, nodelist, FreeOf(mem))
        /\ FreeNodes = FreeOf(mem) /\ DOMAIN nodelist = 0 .. NLists - 1
    BY DEF HeapInv, Good, FreeNodes, FreeOf, Lists
  <2>1. \A a \in FreeNodes : ~Free(mem, Succ(mem, a))
    BY <2>0 DEF Coalesced
  <2>2. ASSUME NEW i \in 0 .. NLists - 1
        PROVE  /\ nodelist[i] \in Seq(FreeOf(mem)) /\ Once(nodelist[i]) /\ Sorted(mem, nodelist[i])
               /\ \A a \in FreeOf(mem) : On(nodelist[i], a) <=> size2i(mem[a].size) = i
               /\ DOMAIN nodelist[i] = 1 .. Len(nodelist[i]) /\ Len(nodelist[i]) \in Nat
               /\ \A k \in 1 .. Len(nodelist[i]) : /\ nodelist[i][k] \in FreeOf(mem)
                                                   /\ On(nodelist[i], nodelist[i][k])
    <3>1. /\ nodelist[i] \in Seq(FreeOf(mem)) /\ Once(nodelist[i]) /\ Sorted(mem, nodelist[i])
          /\ \A a \in FreeOf(mem) : On(nodelist[i], a) <=> size2i(mem[a].size) = i
      BY <2>0 DEF Lists
    <3> QED  BY <3>1, Entries
  <2>3. ASSUME NEW i \in DOMAIN nodelist
        PROVE  /\ \A k \in DOMAIN nodelist[i] :
                    /\ nodelist[i][k] \in FreeNodes
                    /\ size2i(mem[nodelist[i][k]].size) = i
               /\ \A j, k \in DOMAIN nodelist[i] : j < k =>
                    /\ nodelist[i][j] # nodelist[i][k]
                    /\ mem[nodelist[i][j]].size <= mem[nodelist[i][k]].size
    <3>1. \A k \in DOMAIN nodelist[i] :
            nodelist[i][k] \in FreeNodes /\ size2i(mem[nodelist[i][k]].size) = i
      BY <2>0, <2>2
    <3>2. \A j, k \in DOMAIN nodelist[i] : j < k => nodelist[i][j] # nodelist[i][k]
      BY <2>0, <2>2 DEF Once
    <3>3. \A j, k \in DOMAIN nodelist[i] :
            j < k => mem[nodelist[i][j]].size <= mem[nodelist[i][k]].size
      BY <2>0, <2>2 DEF Sorted
    <3> QED  BY <3>1, <3>2, <3>3
  <2>4. ASSUME NEW a \in FreeNodes
        PROVE  \E k \in DOMAIN nodelist[size2i(mem[a].size)] :
                 nodelist[size2i(mem[a].size)][k] = a
    <3>1. PICK i : i = size2i(mem[a].size)
      OBVIOUS
    <3>2. i \in 0 .. NLists - 1
      BY <2>0, <3>1, BlockListed, SizeIndex DEF FreeNodes
    <3>3. \E k \in 1 .. Len(nodelist[i]) : nodelist[i][k] = a
      BY <2>0, <2>2, <3>1, <3>2 DEF On
    <3> QED  BY <2>2, <3>1, <3>2, <3>3
  <2> QED  BY <2>1, <2>3, <2>4 DEF FreeListExact
<1> QED  BY <1>1, HeapInvariant, PTL

\* A request fails only if no free block fits, and gets a smallest one that
\* does (FindsBestFit).
THEOREM FindsBestFitHolds == Spec => []FindsBestFit
<1>1. HeapInv => FindsBestFit
  <2> SUFFICES ASSUME HeapInv, NEW n \in Requests
               PROVE  LET found == FirstFit(mem, nodelist, BlockSize(n))
                          fits == {a \in FreeNodes : mem[a].size >= BlockSize(n)}
                      IN  IF fits = {} THEN found = NULL
                          ELSE found \in fits /\ \A a \in fits : mem[found].size <= mem[a].size
    BY DEF FindsBestFit
  <2>a. PICK f : f = FirstFit(mem, nodelist, BlockSize(n))
    OBVIOUS
  <2>b. PICK T : T = {a \in FreeNodes : mem[a].size >= BlockSize(n)}
    OBVIOUS
  <2>1. Good(mem, nodelist, regions) /\ FreeNodes = FreeOf(mem) /\ Sound(mem, regions)
    BY DEF HeapInv, Good, FreeNodes, FreeOf
  <2>2. Listed(BlockSize(n)) /\ BlockSize(n) \in Nat
    BY BlockSizes
  <2>3. \/ f = NULL /\ \A x \in FreeOf(mem) : mem[x].size < BlockSize(n)
        \/ /\ f \in FreeOf(mem) /\ f # NULL /\ mem[f].size >= BlockSize(n)
           /\ \A x \in FreeOf(mem) : mem[x].size >= BlockSize(n) => mem[f].size <= mem[x].size
    BY <2>a, <2>1, <2>2, FoundNode
  <2>4. \A x \in FreeOf(mem) : mem[x].size \in Nat
    BY <2>1, Fields DEF FreeOf
  <2>5. CASE f = NULL /\ \A x \in FreeOf(mem) : mem[x].size < BlockSize(n)
    <3>1. T = {}
      BY <2>b, <2>1, <2>2, <2>4, <2>5
    <3> QED  BY <2>a, <2>b, <2>5, <3>1
  <2>6. CASE /\ f \in FreeOf(mem) /\ f # NULL /\ mem[f].size >= BlockSize(n)
             /\ \A x \in FreeOf(mem) : mem[x].size >= BlockSize(n) => mem[f].size <= mem[x].size
    <3>1. f \in T /\ \A a \in T : mem[f].size <= mem[a].size
      BY <2>b, <2>1, <2>6
    <3> QED  BY <2>a, <2>b, <3>1
  <2> QED  BY <2>3, <2>5, <2>6
<1> QED  BY <1>1, HeapInvariant, PTL

\* The memory of a user is in the block behind the header, and apart from the
\* headers and from the memory of others.
LEMMA UserMemory ==
  ASSUME NEW m, NEW l, NEW R, Good(m, l, R), NEW h, Asked(m, R, h),
         NEW p \in DOMAIN h
  PROVE  /\ \A x \in p .. p + h[p] - 1 : x \in Memory
         /\ \A a \in DOMAIN m : (p .. p + h[p] - 1) \cap (a .. a + NODE_S - 1) = {}
         /\ \A q \in DOMAIN h : q # p => (p .. p + h[p] - 1) \cap (q .. q + h[q] - 1) = {}
<1>a. PICK b : b = p - NODE_S
  OBVIOUS
<1>0. Sound(m, R) /\ NODE_S \in Nat /\ NODE_S > 0
  BY Sizes DEF Good
<1>1. /\ b \in UsedOf(m, R) /\ b \in Nat /\ p \in Nat /\ p = b + NODE_S
      /\ h[p] \in Nat /\ p + h[p] <= b + m[b].size /\ m[b].size \in Nat
  BY <1>a, InUse
<1>2. b \in DOMAIN m
  BY <1>1 DEF UsedOf
<1>3. ASSUME NEW x \in p .. p + h[p] - 1
      PROVE  x \in Memory
  <2>1. x \in b .. b + m[b].size - 1
    BY <1>0, <1>1
  <2>2. PICK r \in R : x \in Cells(r)
    BY <1>0, <1>2, <2>1, InCells
  <2>3. r \in Regions
    BY <1>0 DEF Sound
  <2> QED  BY <2>2, <2>3 DEF Memory
<1>4. ASSUME NEW a \in DOMAIN m
      PROVE  (p .. p + h[p] - 1) \cap (a .. a + NODE_S - 1) = {}
  <2>1. a \in Nat /\ m[a].size \in Nat /\ m[a].size >= NODE_S
    BY <1>0, Fields
  <2>2. (a < b => a + m[a].size <= b) /\ (b < a => b + m[b].size <= a)
    BY <1>0, <1>2 DEF Sound, Apart
  <2>3. a + NODE_S <= p \/ p + h[p] <= a
    BY <1>0, <1>1, <2>1, <2>2
  <2> QED  BY <1>0, <1>1, <2>1, <2>3
<1>5. ASSUME NEW q \in DOMAIN h, q # p
      PROVE  (p .. p + h[p] - 1) \cap (q .. q + h[q] - 1) = {}
  <2>1. PICK a : a = q - NODE_S
    OBVIOUS
  <2>2. /\ a \in UsedOf(m, R) /\ a \in Nat /\ q \in Nat /\ q = a + NODE_S
        /\ h[q] \in Nat /\ q + h[q] <= a + m[a].size /\ m[a].size \in Nat
    BY <2>1, InUse
  <2>3. a \in DOMAIN m
    BY <2>2 DEF UsedOf
  <2>4. (a < b => a + m[a].size <= b) /\ (b < a => b + m[b].size <= a)
    BY <1>0, <1>2, <2>3 DEF Sound, Apart
  <2>5. q + h[q] <= p \/ p + h[p] <= q
    BY <1>0, <1>1, <1>5, <2>2, <2>4
  <2> QED  BY <1>1, <2>2, <2>5
<1> QED  BY <1>3, <1>4, <1>5

\* No block is lost, and no header is in the memory of a user
\* (NoLeakNoClobber).
THEOREM NoLeakNoClobberHolds == Spec => []NoLeakNoClobber
<1>1. HeapInv => NoLeakNoClobber
  <2> SUFFICES ASSUME HeapInv  PROVE NoLeakNoClobber
    OBVIOUS
  <2>0. Good(mem, nodelist, regions) /\ Asked(mem, regions, asked)
    BY DEF HeapInv
  <2>1. UsedOf(mem, regions) = DOMAIN mem \ (FreeNodes \cup Firsts \cup Lasts)
    BY DEF UsedOf, FreeNodes, FreeOf, Firsts, Lasts, FirstOf, LastOf
  <2>2. DOMAIN asked = {a + NODE_S : a \in DOMAIN mem \ (FreeNodes \cup Firsts \cup Lasts)}
    BY <2>0, <2>1 DEF Asked
  <2>3. \A p \in DOMAIN asked, a \in DOMAIN mem :
          (p .. p + asked[p] - 1) \cap (a .. a + NODE_S - 1) = {}
    BY <2>0, UserMemory
  <2> QED  BY <2>2, <2>3 DEF NoLeakNoClobber
<1> QED  BY <1>1, HeapInvariant, PTL

\* The cells n from p on are free for use in the abstract heap, if the blocks
\* with them are those of a heap.
LEMMA RoomFor ==
  ASSUME NEW m, NEW l, NEW R, Good(m, l, R), NEW h, Asked(m, R, h),
         NEW p \in DOMAIN h, p \notin DOMAIN asked,
         \A q \in DOMAIN asked : q \in DOMAIN h /\ h[q] = asked[q]
  PROVE  Abstract!Room(p, h[p]) /\ h[p] > 0 /\ p \in Memory
<1>1. h[p] \in Nat /\ h[p] > 0 /\ p \in Nat
  BY InUse
<1>2. Abstract!Bytes(p, h[p]) \subseteq Memory
  BY UserMemory DEF Abstract!Bytes
<1>3. ASSUME NEW q \in DOMAIN asked
      PROVE  Abstract!Bytes(p, h[p]) \cap Abstract!Bytes(q, asked[q]) = {}
  <2>1. q \in DOMAIN h /\ q # p /\ h[q] = asked[q]
    OBVIOUS
  <2>2. (p .. p + h[p] - 1) \cap (q .. q + h[q] - 1) = {}
    BY <2>1, UserMemory
  <2> QED  BY <2>1, <2>2 DEF Abstract!Bytes
<1>4. p \in Memory
  <2>1. p \in p .. p + h[p] - 1
    BY <1>1
  <2> QED  BY <2>1, UserMemory
<1> QED  BY <1>1, <1>2, <1>3, <1>4 DEF Abstract!Room

\* Put is what the abstract heap does.
LEMMA PutWith ==
  ASSUME NEW p, NEW n, NEW q
  PROVE  /\ Put(asked, p, n) = Abstract!With(p, n, {})
         /\ Put(Drop(asked, q), p, n) = Abstract!With(p, n, {q})
BY DEF Put, Drop, Abstract!With

\* mdx_fl_malloc is Malloc.
LEMMA MallocRefines ==
  ASSUME HeapInv, HeapInv', NEW n \in Requests, mdx_fl_malloc(n)
  PROVE  Abstract!Next
<1>a. PICK a : a = FirstFit(mem, nodelist, BlockSize(n))
  OBVIOUS
<1>b. PICK p : p = a + NODE_S
  OBVIOUS
<1>0. /\ Good(mem, nodelist, regions) /\ Asked(mem, regions, asked)
      /\ Good(mem', nodelist', regions') /\ Asked(mem', regions', asked')
  BY DEF HeapInv
<1>1. asked' = Put(asked, p, n) /\ a # NULL
  BY <1>a, <1>b DEF mdx_fl_malloc
<1>2. p \in DOMAIN asked' /\ asked'[p] = n
      /\ \A q \in DOMAIN asked : q # p => q \in DOMAIN asked' /\ asked'[q] = asked[q]
  BY <1>1 DEF Put
<1>3. p \notin DOMAIN asked
  <2> SUFFICES ASSUME p \in DOMAIN asked  PROVE FALSE
    OBVIOUS
  <2>1. a \in FreeOf(mem) /\ Sound(mem, regions)
    BY <1>a, <1>0, <1>1, BlockSizes, FoundNode DEF Good
  <2>2. a \in Nat /\ a \notin UsedOf(mem, regions) /\ NODE_S \in Nat
    BY <2>1, FreeBlock, Sizes
  <2>3. p - NODE_S \in UsedOf(mem, regions) /\ p - NODE_S = a
    BY <1>b, <1>0, <2>2, InUse
  <2> QED  BY <2>2, <2>3
<1>4. Abstract!Room(p, n) /\ n > 0 /\ p \in Memory
  BY <1>0, <1>2, <1>3, RoomFor
<1>5. Abstract!Malloc(p, asked'[p])
  BY <1>1, <1>2, <1>4, PutWith DEF Abstract!Malloc
<1> QED  BY <1>2, <1>4, <1>5 DEF Abstract!Next

\* mdx_fl_free is Free.
LEMMA FreeRefines ==
  ASSUME NEW p \in DOMAIN asked, mdx_fl_free(p)
  PROVE  Abstract!Next
<1>1. Abstract!Free(p)
  BY DEF mdx_fl_free, Drop, Abstract!Free
<1> QED  BY <1>1 DEF Abstract!Next

\* mdx_fl_realloc in place is Resize.
LEMMA HereRefines ==
  ASSUME HeapInv, HeapInv', NEW p \in DOMAIN asked, NEW n \in Requests,
         asked' = Put(asked, p, n)
  PROVE  Abstract!Next
<1>0. /\ Good(mem, nodelist, regions) /\ Asked(mem, regions, asked)
      /\ Good(mem', nodelist', regions') /\ Asked(mem', regions', asked')
  BY DEF HeapInv
<1>1. /\ p \in DOMAIN asked' /\ asked'[p] = n
      /\ \A q \in DOMAIN asked : q # p => q \in DOMAIN asked' /\ asked'[q] = asked[q]
  BY DEF Put
<1>2. asked[p] \in Nat /\ asked[p] > 0 /\ p \in Nat /\ n \in Nat /\ n > 0
  BY <1>0, InUse, Sizes
<1>3. ASSUME n > asked[p]
      PROVE  Abstract!Room(p + asked[p], n - asked[p])
  <2>a. PICK s : s = asked[p]
    OBVIOUS
  <2>1. Abstract!Bytes(p + s, n - s) \subseteq p .. p + n - 1
    BY <1>2, <1>3, <2>a DEF Abstract!Bytes
  <2>2. \A x \in p .. p + n - 1 : x \in Memory
    BY <1>0, <1>1, UserMemory
  <2>3. ASSUME NEW q \in DOMAIN asked
        PROVE  Abstract!Bytes(p + s, n - s) \cap Abstract!Bytes(q, asked[q]) = {}
    <3>1. CASE q = p
      BY <1>2, <1>3, <2>a, <3>1 DEF Abstract!Bytes
    <3>2. CASE q # p
      <4>1. (p .. p + n - 1) \cap (q .. q + asked[q] - 1) = {}
        BY <1>0, <1>1, <3>2, UserMemory
      <4> QED  BY <2>1, <4>1 DEF Abstract!Bytes
    <3> QED  BY <3>1, <3>2
  <2> QED  BY <2>a, <2>1, <2>2, <2>3 DEF Abstract!Room
<1>4. Abstract!Resize(p, asked'[p])
  BY <1>1, <1>2, <1>3, PutWith DEF Abstract!Resize
<1> QED  BY <1>1, <1>4 DEF Abstract!Next

\* mdx_fl_realloc elsewhere is Move.
LEMMA MoveRefines ==
  ASSUME HeapInv, NEW p \in DOMAIN asked, NEW n \in Requests, realloc_move(p, n)
  PROVE  Abstract!Next
<1>1. PICK b, h :
           /\ b \in Nat /\ b + NODE_S \notin DOMAIN asked
           /\ asked' = Put(Drop(asked, p), b + NODE_S, n)
           /\ Good(h.mem, h.list, regions)
           /\ Asked(h.mem, regions, Put(asked, b + NODE_S, n))
           /\ mem' = fl_free(h.mem, h.list, Block(p)).mem
           /\ nodelist' = fl_free(h.mem, h.list, Block(p)).list
           /\ regions' = regions
  BY MoveBetween
<1>2. PICK q : q = b + NODE_S
  OBVIOUS
<1>3. PICK g : g = Put(asked, q, n)
  OBVIOUS
<1>4. /\ q \in DOMAIN g /\ g[q] = n
      /\ \A x \in DOMAIN asked : x \in DOMAIN g /\ g[x] = asked[x]
  BY <1>1, <1>2, <1>3 DEF Put
<1>5. Abstract!Room(q, n) /\ n > 0
  BY <1>1, <1>2, <1>3, <1>4, RoomFor
<1>6. asked' = Put(Drop(asked, p), q, n) /\ asked' = Abstract!With(q, n, {p})
  BY <1>1, <1>2, PutWith
<1>7. q \in DOMAIN asked' /\ asked'[q] = n
  BY <1>6 DEF Put
<1>8. Abstract!Move(p, q, asked'[q])
  BY <1>5, <1>6, <1>7 DEF Abstract!Move
<1> QED  BY <1>7, <1>8 DEF Abstract!Next

\* The allocator is a heap (MallocSpec): blocks are inside the regions, as
\* large as was asked for and apart from each other, and a block stays until
\* it is freed or reallocated.
THEOREM MallocHolds == Spec => Malloc
<1>1. Init => Abstract!Init
  BY DEF Init, Abstract!Init
<1>2. HeapInv /\ HeapInv' /\ [Next]_vars => [Abstract!Next]_(Abstract!vars)
  <2> SUFFICES ASSUME HeapInv, HeapInv', [Next]_vars
               PROVE  Abstract!Next \/ UNCHANGED asked
    BY DEF Abstract!vars
  <2>1. CASE \E r \in Regions : mdx_fl_add_region(r)
    BY <2>1 DEF mdx_fl_add_region
  <2>2. CASE \E n \in Requests : mdx_fl_malloc(n)
    BY <2>2, MallocRefines
  <2>3. CASE \E p \in DOMAIN asked : mdx_fl_free(p)
    BY <2>3, FreeRefines
  <2>4. CASE \E p \in DOMAIN asked, n \in Requests : mdx_fl_realloc(p, n)
    <3>1. PICK p \in DOMAIN asked, n \in Requests : mdx_fl_realloc(p, n)
      BY <2>4
    <3>2. asked' = Put(asked, p, n) \/ realloc_move(p, n)
      BY <3>1 DEF mdx_fl_realloc, realloc_shrink_merge, realloc_shrink_split,
         realloc_keep, realloc_grow_split, realloc_grow_exact, realloc_recarve
    <3> QED  BY <3>2, HereRefines, MoveRefines
  <2>5. CASE UNCHANGED vars
    BY <2>5 DEF vars
  <2> QED  BY <2>1, <2>2, <2>3, <2>4, <2>5 DEF Next
<1> QED  BY <1>1, <1>2, HeapInvariant, PTL DEF Spec, Malloc, Abstract!Spec
=============================================================================
