----------------------------- MODULE MCMdxSched -----------------------------
(* Instances of MdxSched for TLC: all threads have the same priority, or the *)
(* main thread has a higher one.                                             *)
EXTENDS MdxSched, TLC

SamePrio == [t \in Threads |-> 1]
MainFirst == [t \in Threads |-> IF t = Main THEN 2 ELSE 1]

\* Threads other than the main one, and CPUs other than the first, are alike.
Symmetry ==
  Permutations(Threads \ {Main}) \cup Permutations(CPUs \ {BootCPU})
=============================================================================
