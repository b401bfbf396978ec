---------------------------- MODULE MCMaskingGate ----------------------------
(***************************************************************************)
(* The model-checking instance of MaskingGate.  Its properties include     *)
(* liveness, so that no symmetry is declared.                              *)
(***************************************************************************)
EXTENDS MaskingGate
=============================================================================
