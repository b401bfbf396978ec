-------------------------- MODULE MCAdapterService --------------------------
(***************************************************************************)
(* Model-checking instances of AdapterService.  Calls are named for what   *)
(* they are, so that there is no symmetry to use.                          *)
(***************************************************************************)
EXTENDS AdapterService
=============================================================================
