----------------------------- MODULE MCMdxFifo ------------------------------
(* The instance of MdxFifo for TLC; the entries are alike, and so are the   *)
(* threads other than the main one.                                         *)
EXTENDS MdxFifo, TLC

SamePrio == [t \in Threads |-> 1]
Symmetry == Permutations(Threads \ {Main}) \cup Permutations(Entries)
=============================================================================
