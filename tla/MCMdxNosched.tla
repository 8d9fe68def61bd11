---------------------------- MODULE MCMdxNosched ----------------------------
(* The instance of MdxNosched for TLC.                                     *)
EXTENDS MdxNosched
=============================================================================
