----------------------------- MODULE MallocSpec -----------------------------
(***************************************************************************)
(* What malloc, free and realloc promise: the blocks in use are inside the *)
(* memory of the heap, as large as was asked for, and apart from each      *)
(* other.  A block stays where it is until it is freed or reallocated.  A  *)
(* block that cannot be reallocated stays as it was.                       *)
(***************************************************************************)
EXTENDS Naturals

CONSTANT Memory   \* the addresses given to the heap

VARIABLE blocks   \* the size asked for, for the address of every block in use

vars == blocks

Bytes(p, n) == p .. p + n - 1

\* n cells from p are free for use.
Room(p, n) ==
  /\ Bytes(p, n) \subseteq Memory
  /\ \A q \in DOMAIN blocks : Bytes(p, n) \cap Bytes(q, blocks[q]) = {}

Init == blocks = [p \in {} |-> 0]

\* The blocks in use when p holds n cells instead of the ones of S.
With(p, n, S) ==
  [q \in (DOMAIN blocks \ S) \cup {p} |-> IF q = p THEN n ELSE blocks[q]]

Malloc(p, n) ==
  /\ n > 0 /\ Room(p, n)
  /\ blocks' = With(p, n, {})

Free(p) == blocks' = [q \in DOMAIN blocks \ {p} |-> blocks[q]]

\* In place: the cells that are new to the block are free.
Resize(p, n) ==
  /\ n > 0
  /\ n > blocks[p] => Room(p + blocks[p], n - blocks[p])
  /\ blocks' = With(p, n, {})

\* Elsewhere: apart from the old block too, which is copied.
Move(p, q, n) ==
  /\ n > 0 /\ Room(q, n)
  /\ blocks' = With(q, n, {p})

\* blocks' decides which addresses and sizes are meant.
Next ==
  \/ \E p \in Memory \cap DOMAIN blocks' : Malloc(p, blocks'[p])
  \/ \E p \in DOMAIN blocks :
       \/ Free(p)
       \/ p \in DOMAIN blocks' /\ Resize(p, blocks'[p])
       \/ \E q \in DOMAIN blocks' : Move(p, q, blocks'[q])

Spec == Init /\ [][Next]_vars
=============================================================================
