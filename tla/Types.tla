-------------------------------- MODULE Types --------------------------------
(***************************************************************************)
(* What clients and servers share: ids, keys and values, the operation     *)
(* that travels in a log entry (splinterdb_operation) and the pair of      *)
(* return codes a mutation answers with (rpc_mutation_result).             *)
(***************************************************************************)
EXTENDS Integers, FiniteSets

CONSTANTS Server,      \* server ids
          NoServer,    \* get_leader() when no leader is known
          Key, Value,  \* contents of the store
          NotFound     \* no value under a key

ASSUME ServerAssumption ==
  /\ Server \subseteq Nat \ {0}
  /\ IsFiniteSet(Server)
  /\ NoServer \in Int \ Nat

(* splinterdb_operation: a delete carries no value (std::nullopt). *)
Operation == [type : {"PUT", "UPDATE"}, key : Key, value : Value]
               \cup [type : {"DELETE"}, key : Key, value : {NotFound}]

make_put(k, v) == [type |-> "PUT", key |-> k, value |-> v]
make_delete(k) == [type |-> "DELETE", key |-> k, value |-> NotFound]

(* Return codes of SplinterDB and of NuRaft. *)
SPL_OK == 0
SPL_NOT_FOUND == 2  \* splinterdb_lookup_result_value without a value
SPL_ERR == 5        \* any failure of a SplinterDB call

OK == 0
CMD_RESULT_REQUEST_CANCELLED == -1
CMD_RESULT_TIMEOUT == -2
CMD_RESULT_NOT_LEADER == -3
RESULT_NOT_EXIST_YET == -5
CMD_RESULT_WEIRD_CASE == 999

(* Faulty variant: the return code of the append is not looked at. *)
is_success_ignores_raft(res) == res.spl_rc = SPL_OK

was_accepted(res) == res.raft_rc = OK
is_success(res) == res.spl_rc = SPL_OK /\ res.raft_rc = OK
=============================================================================
