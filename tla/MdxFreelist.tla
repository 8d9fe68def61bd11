---------------------------- MODULE MdxFreelist -----------------------------
(***************************************************************************)
(* The memory allocator (kernel/malloc/mdx_freelist.c): blocks with        *)
(* boundary tags, and free blocks on lists by size.                        *)
(*                                                                         *)
(* Sizes and addresses count units of 8 bytes.  mem holds the header of    *)
(* every block; a header that was merged into another block is gone, so    *)
(* that reading it would be an error.  Calls are atomic: malloc, free and  *)
(* realloc of mdx_malloc_fl.c are critical sections of the one CPU.        *)
(***************************************************************************)
EXTENDS Integers, Sequences, FiniteSets, SequencesExt

CONSTANTS
  NODE_S,    \* the size of a header: 2 on 32-bit CPUs, 3 on 64-bit ones
  ALIGN,     \* 16 bytes
  NLists,    \* the number of lists, 32 in the code
  Regions,   \* the regions [base, size] that malloc_add_region is given
  Requests,  \* the sizes asked for
  NULL

ASSUME FreelistAssumption ==
  /\ NODE_S \in Nat \ {0} /\ ALIGN \in Nat \ {0} /\ NLists \in Nat \ {0}
  /\ Regions \subseteq [base : Nat, size : Nat]
  /\ \A r \in Regions : \* room for three headers, and a list for all of it
       r.size >= 3 * NODE_S /\ r.size \div ALIGN < 2 ^ NLists
  /\ \A r, s \in Regions :
       r # s => r.base + r.size <= s.base \/ s.base + s.size <= r.base
  /\ Requests \subseteq Nat \ {0}
  /\ \A n \in Requests : (n + 2 * NODE_S + 2 * ALIGN) \div ALIGN < 2 ^ NLists
  /\ NULL \notin Nat

VARIABLES
  mem,       \* mem[a]: the struct node_s at address a
  nodelist,  \* nodelist[i]: the nodes between header i and the next header
  regions,   \* the regions added so far
  asked      \* history: the size asked for, for every pointer in use

vars == <<mem, nodelist, regions, asked>>

\* flags holds the size of the block before, and FLAG_ALLOCATED.
Node(size, prev, alloc) == [size |-> size, prev |-> prev, alloc |-> alloc]

Free(m, a) == ~m[a].alloc
Succ(m, a) == a + m[a].size
Pred(m, a) == a - m[a].prev

\* m with node n at address a; m without the node at a.
Put(m, a, n) == [b \in DOMAIN m \cup {a} |-> IF b = a THEN n ELSE m[b]]
Drop(m, a) == [b \in DOMAIN m \ {a} |-> m[b]]

-----------------------------------------------------------------------------
(***************************************************************************)
(* Operators of the code.                                                  *)
(***************************************************************************)

\* How often the size in units of ALIGN is halved until it is less than 2.
size2i(size) == Min({i \in 0 .. NLists - 1 : size \div ALIGN < 2 ^ (i + 1)})

\* Mutant: no room for the header.
BlockSize_payload(n) == ((n + ALIGN - 1) \div ALIGN) * ALIGN

\* The header is added and the size is rounded up.
BlockSize(n) == ((n + NODE_S + ALIGN - 1) \div ALIGN) * ALIGN

\* Mutant: the list is not kept in order.
mdx_fl_add_node_head(l, m, a) ==
  [l EXCEPT ![size2i(m[a].size)] = InsertAt(@, 1, a)]

\* The node goes before the first one of its list that is not smaller.
mdx_fl_add_node(l, m, a) ==
  LET i == size2i(m[a].size)
      notSmaller == {k \in DOMAIN l[i] : m[l[i][k]].size >= m[a].size}
  IN  [l EXCEPT ![i] = InsertAt(@, Min(notSmaller \cup {Len(l[i]) + 1}), a)]

\* The node is unlinked.
remove_node(l, a) == [i \in DOMAIN l |-> RemoveFirst(l[i], a)]

\* Mutant: the search begins at the list above.
FirstFit_above(m, l, size) ==
  LET fits(i) == {k \in DOMAIN l[i] : m[l[i][k]].size >= size}
      lists == {i \in size2i(size) + 1 .. NLists - 1 : fits(i) # {}}
      i == Min(lists)
  IN  IF lists = {} THEN NULL ELSE l[i][Min(fits(i))]

\* The first node from list i on that is not smaller than size, or NULL.
FirstFit(m, l, size) ==
  LET fits(i) == {k \in DOMAIN l[i] : m[l[i][k]].size >= size}
      lists == {i \in size2i(size) .. NLists - 1 : fits(i) # {}}
      i == Min(lists)
  IN  IF lists = {} THEN NULL ELSE l[i][Min(fits(i))]

\* The block after a is told the size of a.
Tell(m, a) == [m EXCEPT ![Succ(m, a)].prev = m[a].size]

\* Mutant: the block behind the rest is not told its size.
Carve_quiet(m, a, size, rest) ==
  Put([m EXCEPT ![a].size = size], a + size, Node(rest, size, FALSE))

\* Block a gets size, and what is left up to the next block is a free one.
Carve(m, a, size, rest) ==
  Tell(Put([m EXCEPT ![a].size = size], a + size, Node(rest, size, FALSE)),
       a + size)

\* Node a was found for a block of size: unlink it and split it if it is
\* larger by more than a header.
fl_malloc(m, l, size, a) ==
  LET avail == m[a].size - size
      carved == Carve(m, a, size, avail)
      l1 == remove_node(l, a)
  IN  IF avail > NODE_S
      THEN [mem |-> [carved EXCEPT ![a].alloc = TRUE],
            list |-> mdx_fl_add_node(l1, carved, a + size)]
      ELSE [mem |-> [m EXCEPT ![a].alloc = TRUE], list |-> l1]

\* Block a takes in the free block b behind it.
Merge(m, a, b) == Tell(Drop([m EXCEPT ![a].size = @ + m[b].size], b), a)

\* Node a is free; it is merged with the next and the previous block if they
\* are free.
fl_free(m, l, a) ==
  LET n == Succ(m, a)
      p == Pred(m, a)
      m1 == [m EXCEPT ![a].alloc = FALSE]
      m2 == IF Free(m, n) THEN Merge(m1, a, n) ELSE m1
      l2 == IF Free(m, n) THEN remove_node(l, n) ELSE l
      m3 == IF Free(m, p) THEN Merge(m2, p, a) ELSE m2
      l3 == IF Free(m, p) THEN remove_node(l2, p) ELSE l2
      a3 == IF Free(m, p) THEN p ELSE a
  IN  [mem |-> m3, list |-> mdx_fl_add_node(l3, m3, a3)]

-----------------------------------------------------------------------------
\* mdx_fl_init
Init ==
  /\ mem = [a \in {} |-> Node(0, 0, FALSE)]
  /\ nodelist = [i \in 0 .. NLists - 1 |-> <<>>]
  /\ regions = {}
  /\ asked = [p \in {} |-> 0]

\* A region is one free block between two allocated ones.
mdx_fl_add_region(r) ==
  LET free == r.base + NODE_S
      last == r.base + r.size - NODE_S
      room == r.size - 2 * NODE_S
  IN  /\ r \in Regions \ regions
      /\ regions' = regions \cup {r}
      /\ mem' = Put(Put(Put(mem, r.base, Node(NODE_S, 0, TRUE)),
                        free, Node(room, NODE_S, FALSE)),
                    last, Node(NODE_S, room, TRUE))
      /\ nodelist' = mdx_fl_add_node(nodelist, mem', free)
      /\ UNCHANGED asked

Become(h) == mem' = h.mem /\ nodelist' = h.list /\ UNCHANGED regions

\* A request that finds no node returns NULL and changes nothing.
mdx_fl_malloc(n) ==
  LET a == FirstFit(mem, nodelist, BlockSize(n))
  IN  /\ a # NULL
      /\ Become(fl_malloc(mem, nodelist, BlockSize(n), a))
      /\ asked' = Put(asked, a + NODE_S, n)

mdx_fl_free(p) ==
  /\ Become(fl_free(mem, nodelist, p - NODE_S))
  /\ asked' = Drop(asked, p)

\* What mdx_fl_realloc reads: the block, the next one, and the new size.
Block(p) == p - NODE_S
After(p) == Succ(mem, Block(p))

\* The next block is free: it is unlinked, and what p does not need of both
\* is a free block.
realloc_recarve(p, n) ==
  LET a == Block(p)
      rest == mem[a].size + mem[After(p)].size - BlockSize(n)
      m1 == Carve(Drop(mem, After(p)), a, BlockSize(n), rest)
  IN  /\ mem' = m1
      /\ nodelist' = mdx_fl_add_node(remove_node(nodelist, After(p)), m1,
                                     a + BlockSize(n))
      /\ asked' = Put(asked, p, n)
      /\ UNCHANGED regions

realloc_shrink_merge(p, n) ==
  /\ BlockSize(n) <= mem[Block(p)].size
  /\ Free(mem, After(p))
  /\ realloc_recarve(p, n)

realloc_shrink_split(p, n) ==
  LET a == Block(p)
      rest == mem[a].size - BlockSize(n)
      m1 == Carve(mem, a, BlockSize(n), rest)
  IN  /\ rest > NODE_S
      /\ ~Free(mem, After(p))
      /\ mem' = m1
      /\ nodelist' = mdx_fl_add_node(nodelist, m1, a + BlockSize(n))
      /\ asked' = Put(asked, p, n)
      /\ UNCHANGED regions

realloc_keep(p, n) ==
  /\ BlockSize(n) <= mem[Block(p)].size
  /\ mem[Block(p)].size <= BlockSize(n) + NODE_S
  /\ ~Free(mem, After(p))
  /\ asked' = Put(asked, p, n)
  /\ UNCHANGED <<mem, nodelist, regions>>

\* Both blocks together, when the next one is free.
Joint(p) == mem[Block(p)].size + mem[After(p)].size

realloc_grow_split(p, n) ==
  /\ BlockSize(n) > mem[Block(p)].size
  /\ Free(mem, After(p)) /\ Joint(p) > BlockSize(n) + NODE_S
  /\ realloc_recarve(p, n)

realloc_grow_exact(p, n) ==
  /\ BlockSize(n) > mem[Block(p)].size
  /\ Free(mem, After(p)) /\ Joint(p) = BlockSize(n)
  /\ mem' = Merge(mem, Block(p), After(p))
  /\ nodelist' = remove_node(nodelist, After(p))
  /\ asked' = Put(asked, p, n)
  /\ UNCHANGED regions

\* Mutant: the old block is freed before the new one is looked for.
realloc_move_early(p, n) ==
  LET h == fl_free(mem, nodelist, Block(p))
      b == FirstFit(h.mem, h.list, BlockSize(BlockSize(n)))
  IN  /\ BlockSize(n) > mem[Block(p)].size
      /\ Free(mem, After(p)) => Joint(p) <= BlockSize(n) + NODE_S /\ Joint(p) # BlockSize(n)
      /\ b # NULL
      /\ Become(fl_malloc(h.mem, h.list, BlockSize(BlockSize(n)), b))
      /\ asked' = Put(Drop(asked, p), b + NODE_S, n)

\* Otherwise a new block is allocated, for the size with the header, the old
\* one is copied and freed; NULL if there is no such block.
realloc_move(p, n) ==
  LET size == BlockSize(BlockSize(n))
      b == FirstFit(mem, nodelist, size)
      h == fl_malloc(mem, nodelist, size, b)
  IN  /\ BlockSize(n) > mem[Block(p)].size
      /\ Free(mem, After(p)) => Joint(p) <= BlockSize(n) + NODE_S /\ Joint(p) # BlockSize(n)
      /\ b # NULL
      /\ Become(fl_free(h.mem, h.list, Block(p)))
      /\ asked' = Put(Drop(asked, p), b + NODE_S, n)

\* mdx_fl_realloc of a block in use to a size that is not 0; the other calls
\* are mdx_fl_malloc and mdx_fl_free.
mdx_fl_realloc(p, n) ==
  \/ realloc_shrink_merge(p, n) \/ realloc_shrink_split(p, n)
  \/ realloc_keep(p, n)
  \/ realloc_grow_split(p, n) \/ realloc_grow_exact(p, n)
  \/ realloc_move(p, n)

Next ==
  \/ \E r \in Regions : mdx_fl_add_region(r)
  \/ \E n \in Requests : mdx_fl_malloc(n)
  \/ \E p \in DOMAIN asked : mdx_fl_free(p)
  \/ \E p \in DOMAIN asked, n \in Requests : mdx_fl_realloc(p, n)

Spec == Init /\ [][Next]_vars

-----------------------------------------------------------------------------
(***************************************************************************)
(* Properties.                                                             *)
(***************************************************************************)
Cells(r) == r.base .. r.base + r.size - 1
Heap == UNION {Cells(r) : r \in regions}
Firsts == {r.base : r \in regions}
Lasts == {r.base + r.size - NODE_S : r \in regions}
FreeNodes == {a \in DOMAIN mem : Free(mem, a)}

\* Every variable has its type.
TypeOK ==
  /\ DOMAIN mem \subseteq Heap
  /\ \A a \in DOMAIN mem : mem[a] \in [size : Nat, prev : Nat, alloc : BOOLEAN]
  /\ nodelist \in [0 .. NLists - 1 -> Seq(DOMAIN mem)]
  /\ regions \subseteq Regions
  /\ \A p \in DOMAIN asked : asked[p] \in Requests

\* With the types: the boundary tags tile every region, whatever sequence of calls was made:
\* each block has room for its header, ends where the next one begins, and the
\* next one knows its size; walking back leads to the first block of the
\* region.
Tiling ==
  /\ TypeOK
  /\ Firsts \cup Lasts \subseteq DOMAIN mem
  /\ \A a \in DOMAIN mem :
       /\ mem[a].size >= NODE_S
       /\ a \notin Lasts =>
            Succ(mem, a) \in DOMAIN mem /\ mem[Succ(mem, a)].prev = mem[a].size
       /\ a \notin Firsts =>
            Pred(mem, a) \in DOMAIN mem /\ Succ(mem, Pred(mem, a)) = a

\* The lists hold every free block once, each in the list of its size and in
\* order, and free blocks are never neighbours.
FreeListExact ==
  /\ \A a \in FreeNodes : ~Free(mem, Succ(mem, a))
  /\ \A i \in DOMAIN nodelist :
       /\ \A k \in DOMAIN nodelist[i] :
            /\ nodelist[i][k] \in FreeNodes
            /\ size2i(mem[nodelist[i][k]].size) = i
       /\ \A j, k \in DOMAIN nodelist[i] : j < k =>
            /\ nodelist[i][j] # nodelist[i][k]
            /\ mem[nodelist[i][j]].size <= mem[nodelist[i][k]].size
  /\ \A a \in FreeNodes :
       \E k \in DOMAIN nodelist[size2i(mem[a].size)] :
         nodelist[size2i(mem[a].size)][k] = a

\* A request fails only if no free block is large enough, and otherwise gets
\* the smallest one that is: the lists that are skipped hold nothing that fits.
FindsBestFit ==
  \A n \in Requests :
    LET found == FirstFit(mem, nodelist, BlockSize(n))
        fits == {a \in FreeNodes : mem[a].size >= BlockSize(n)}
    IN  IF fits = {} THEN found = NULL
        ELSE found \in fits /\ \A a \in fits : mem[found].size <= mem[a].size

\* The allocated blocks are the ones in use, and no header is ever written
\* into the memory of a user.
NoLeakNoClobber ==
  /\ {a + NODE_S : a \in DOMAIN mem \ (FreeNodes \cup Firsts \cup Lasts)}
       = DOMAIN asked
  /\ \A p \in DOMAIN asked, a \in DOMAIN mem :
       (p .. p + asked[p] - 1) \cap (a .. a + NODE_S - 1) = {}

\* The heap keeps its promise (MallocSpec): blocks are large enough, inside
\* the regions and apart, and a reallocated block does not lose its cells.
Memory == UNION {Cells(r) : r \in Regions}
Abstract == INSTANCE MallocSpec WITH blocks <- asked
Malloc == Abstract!Spec
=============================================================================
