--------------------------- MODULE MCToolsNotifier ---------------------------
(***************************************************************************)
(* Model-checking instances of ToolsNotifier.                              *)
(***************************************************************************)
EXTENDS ToolsNotifier
=============================================================================
