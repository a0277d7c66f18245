--------------------------- MODULE MCSimpleLogger ---------------------------
(***************************************************************************)
(* Instances of SimpleLogger for TLC.                                      *)
(***************************************************************************)
EXTENDS SimpleLogger
=============================================================================
