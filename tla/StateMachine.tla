---------------------------- MODULE StateMachine ----------------------------
(***************************************************************************)
(* splinterdb_state_machine: the callbacks NuRaft's commit thread makes on *)
(* every server, and replica::read, which looks a key up in the same       *)
(* SplinterDB instance.  SplinterDB is a map from keys to values; a call   *)
(* may fail only on the servers in Faulty (a full or broken device), and   *)
(* then it leaves the map alone and returns a non-zero code.               *)
(***************************************************************************)
EXTENDS Types, Sequences

CONSTANT Faulty       \* servers whose SplinterDB calls may fail

VARIABLES spl,                       \* spl[s][k]: SplinterDB of server s
          last_committed_idx,        \* last_committed_idx_ of server s
          commit_thread_initialized  \* commit_thread_initialized_ of server s

smVars == <<spl, last_committed_idx, commit_thread_initialized>>

SmInit ==
  /\ spl = [s \in Server |-> [k \in Key |-> NotFound]]
  /\ last_committed_idx = [s \in Server |-> 0]
  /\ commit_thread_initialized = [s \in Server |-> FALSE]

(* The return codes a SplinterDB call on s can have. *)
SplReturnCodes(s) == IF s \in Faulty THEN {SPL_OK, SPL_ERR} ELSE {SPL_OK}

(* What splinterdb_insert, splinterdb_update or splinterdb_delete leaves   *)
(* behind when it returns rc: an insert overwrites, a delete of a key that *)
(* is not there succeeds.                                                  *)
SplApply(db, op, rc) ==
  IF rc = SPL_OK THEN [db EXCEPT ![op.key] = op.value] ELSE db

(* Faulty variant: the index is taken for the next one to apply. *)
commit_off_by_one(s, idx, op, rc) ==
  /\ commit_thread_initialized' =
        [commit_thread_initialized EXCEPT ![s] = TRUE]
  /\ spl' = [spl EXCEPT ![s] = SplApply(@, op, rc)]
  /\ last_committed_idx' = [last_committed_idx EXCEPT ![s] = idx + 1]

(* Faulty variant: the call that registers the thread applies nothing. *)
commit_first_registers(s, idx, op, rc) ==
  /\ commit_thread_initialized' =
        [commit_thread_initialized EXCEPT ![s] = TRUE]
  /\ spl' = IF commit_thread_initialized[s]
            THEN [spl EXCEPT ![s] = SplApply(@, op, rc)] ELSE spl
  /\ last_committed_idx' = [last_committed_idx EXCEPT ![s] = idx]

(* commit(log_idx, buf): the index advances whatever SplinterDB returned. *)
commit(s, idx, op, rc) ==
  /\ commit_thread_initialized' =
        [commit_thread_initialized EXCEPT ![s] = TRUE]
  /\ spl' = [spl EXCEPT ![s] = SplApply(@, op, rc)]
  /\ last_committed_idx' = [last_committed_idx EXCEPT ![s] = idx]

(* Faulty variant: configuration entries do not advance the index. *)
commit_config_forgets(s, idx) ==
  UNCHANGED <<spl, last_committed_idx, commit_thread_initialized>>

commit_config(s, idx) ==
  /\ last_committed_idx' = [last_committed_idx EXCEPT ![s] = idx]
  /\ UNCHANGED <<spl, commit_thread_initialized>>

(* Faulty variant: the return code of the lookup is dropped. *)
read_drops_rc(s, k, rc) == <<spl[s][k], SPL_OK>>

(* replica::read: the value and SplinterDB's return code, where rc is what *)
(* the calls of SplinterDB return for a key that is there.                 *)
read(s, k, rc) ==
  IF rc # SPL_OK THEN <<NotFound, rc>>
  ELSE IF spl[s][k] = NotFound THEN <<NotFound, SPL_NOT_FOUND>>
                               ELSE <<spl[s][k], SPL_OK>>
=============================================================================
