------------------------------ MODULE MCMdxSmp ------------------------------
(* Instances of MdxSmp for TLC.                                            *)
EXTENDS MdxSmp

\* All the CPUs but one, which is not a member of a rendezvous it may call.
CONSTANT c1
SomeMasks == {CPUs \ {c1}}
=============================================================================
