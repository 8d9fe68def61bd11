--------------------------- MODULE MCMdxFreelist ----------------------------
(* Instances of MdxFreelist for TLC: two regions, one behind the other.    *)
EXTENDS MdxFreelist

TwoRegions == {[base |-> 0, size |-> 44], [base |-> 44, size |-> 17]}
=============================================================================
