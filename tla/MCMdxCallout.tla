---------------------------- MODULE MCMdxCallout ----------------------------
(***************************************************************************)
(* Instances of MdxCallout for TLC.  Callouts are model values; the safety *)
(* runs use their symmetry.                                                *)
(***************************************************************************)
EXTENDS MdxCallout

Symmetry == Permutations(Callouts)
=============================================================================
