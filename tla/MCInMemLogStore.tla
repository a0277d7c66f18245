-------------------------- MODULE MCInMemLogStore --------------------------
(***************************************************************************)
(* Small instances of InMemLogStore for TLC: a reader beside the writers,  *)
(* and writers with a disk that needs two ticks.                           *)
(***************************************************************************)
EXTENDS InMemLogStore

Writes == {"append", "write_at", "compact", "apply_pack"}

ReadingAndDisk ==
  {[calls |-> Writes \cup {"last_entry", "log_entries"}, delay |-> 0],
   [calls |-> Writes, delay |-> 2]}
=============================================================================
