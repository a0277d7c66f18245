-------------------------- MODULE SplinterLogStore --------------------------
(***************************************************************************)
(* splinterdb_log_store: the log store that keeps its entries in a         *)
(* SplinterDB instance, selected by _USE_SPLINTERDB_LOG_STORE instead of   *)
(* the one in memory.  Raft calls the operations one at a time, so each is *)
(* one step.  An insert may fail, and then the call throws.                *)
(***************************************************************************)
EXTENDS Integers, Sequences, FiniteSets, FiniteSetsExt, Functions, TLC

CONSTANTS Entry,     \* entries (term and payload)
          Dummy,     \* cs_new<log_entry>(0, nullptr)
          Null,      \* nullptr
          Calls,     \* the operations that are used
          MaxIndex,  \* bound on log indices
          MaxPack    \* bound on the entries of a pack

VARIABLES spl,        \* spl_: index -> entry
          start_idx,  \* start_idx_
          last_idx,   \* last_idx_
          newest      \* the entry that append or write_at was given last

vars == <<spl, start_idx, last_idx, newest>>

SplInit == spl = <<>> /\ start_idx = 1 /\ last_idx = 0 /\ newest = Dummy

next_slot == last_idx + 1

(* splinterdb_lookup with splinterdb_lookup_result_value *)
entry_at(idx) == IF idx \in DOMAIN spl THEN spl[idx] ELSE Null

last_entry == IF entry_at(last_idx) = Null THEN Dummy ELSE entry_at(last_idx)

(* index = last_idx_++: the entry goes to the old last index. *)
append_at(db, last, e) ==
  /\ spl' = (last :> e) @@ db
  /\ last_idx' = last + 1

append(e) ==
  /\ "append" \in Calls /\ last_idx < MaxIndex
  /\ append_at(spl, last_idx, e)
  /\ newest' = e
  /\ UNCHANGED start_idx

(* The insert fails: last_idx_ has moved already. *)
append_throws ==
  /\ "append" \in Calls /\ last_idx < MaxIndex
  /\ last_idx' = last_idx + 1
  /\ UNCHANGED <<spl, start_idx, newest>>

(* Deletes the indices from index to the old last one, then appends. *)
write_at(index, e) ==
  /\ "write_at" \in Calls
  /\ index \in start_idx .. next_slot /\ index <= MaxIndex
  /\ append_at(Restrict(spl, DOMAIN spl \ (index .. last_idx)), index - 1, e)
  /\ newest' = e
  /\ UNCHANGED start_idx

(* The append inside write_at throws: what was to be overwritten is gone,  *)
(* and last_idx_ stands for the entry that was not stored.                 *)
write_at_throws(index) ==
  /\ "write_at" \in Calls
  /\ index \in start_idx .. next_slot /\ index <= MaxIndex
  /\ spl' = Restrict(spl, DOMAIN spl \ (index .. last_idx))
  /\ last_idx' = index
  /\ UNCHANGED <<start_idx, newest>>

(* The entries are stored from index on, only the first of them if an      *)
(* insert fails; last_idx_ stays.                                          *)
apply_pack(index, pack) ==
  /\ "apply_pack" \in Calls /\ index + Len(pack) - 1 <= MaxIndex
  /\ \E stored \in 0..Len(pack) :
       spl' = [k \in index .. index + stored - 1 |-> pack[k - index + 1]] @@ spl
  /\ UNCHANGED <<start_idx, last_idx, newest>>

(* Below start_idx_ - 1 the length of to_delete wraps around and its       *)
(* allocation throws before anything is changed.                           *)
compact(last_log_index) ==
  /\ "compact" \in Calls
  /\ spl' = Restrict(spl, DOMAIN spl \ (start_idx .. last_log_index))
  /\ start_idx' = IF start_idx <= last_log_index THEN last_log_index + 1
                                                ELSE start_idx
  /\ UNCHANGED <<last_idx, newest>>

SplNext ==
  \/ \E e \in Entry : append(e) \/ \E k \in 1..MaxIndex : write_at(k, e)
  \/ append_throws
  \/ \E k \in 1..MaxIndex : compact(k) \/ write_at_throws(k)
  \/ \E k \in 1..MaxIndex, m \in 1..MaxPack : \E p \in [1..m -> Entry] :
        apply_pack(k, p)

SplSpec == SplInit /\ [][SplNext]_vars
-----------------------------------------------------------------------------
(* Properties *)

(* "The last log entry in store": last_entry returns the entry that was    *)
(* appended or written last.                                               *)
LastEntryIsNewest == last_entry = newest
=============================================================================
