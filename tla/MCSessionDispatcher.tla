------------------------- MODULE MCSessionDispatcher -------------------------
(***************************************************************************)
(* Model-checking instances of SessionDispatcher.  The calls with and      *)
(* those without a deadline are few, so that no symmetry is needed.        *)
(***************************************************************************)
EXTENDS SessionDispatcher
=============================================================================
