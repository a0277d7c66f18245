------------------------- MODULE MCSplinterLogStore -------------------------
(***************************************************************************)
(* Small instances of SplinterLogStore for TLC.                            *)
(***************************************************************************)
EXTENDS SplinterLogStore
=============================================================================
