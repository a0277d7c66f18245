--------------------------- MODULE MCLoggerCrash ---------------------------
(***************************************************************************)
(* Instances of LoggerCrash for TLC.                                       *)
(***************************************************************************)
EXTENDS LoggerCrash
=============================================================================
