----------------------------- MODULE MCMdxMqtt ------------------------------
(* The instance of MdxMqtt for TLC; the threads that make requests are alike. *)
EXTENDS MdxMqtt, TLC

Symmetry == Permutations(Callers)
=============================================================================
