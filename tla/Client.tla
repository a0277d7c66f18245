------------------------------- MODULE Client -------------------------------
(***************************************************************************)
(* replicated_splinterdb::client: the retry loop of put, update and del,   *)
(* the search for a new leader (get_leader_id), and get with its round     *)
(* robin read policy.  What the servers answer comes in as parameters of   *)
(* the actions.  An exception that leaves an operation ends it; the caller *)
(* may go on with the next one.                                            *)
(***************************************************************************)
EXTENDS Types, Sequences

CONSTANTS Client,      \* client objects
          Commands,    \* Commands[c]: the operations the caller of c uses
          NumRetries,  \* num_retries_
          MaxOps       \* bound on the operations of one client

ASSUME ClientAssumption ==
  /\ NumRetries \in Nat \ {0}
  /\ MaxOps \in Nat
  /\ Commands \in [Client -> SUBSET {"put", "update", "del", "get"}]

VARIABLES pc,          \* "new", "idle", "loop", "wait" or "probe"
          conns,       \* keys of clients_
          leader_id,   \* leader_id_
          server_ids,  \* server_ids_ of the read policy
          n,           \* operations begun
          i,           \* attempts of the current mutation that were answered
          req,         \* arguments of the current mutation
          probe        \* get_leader_id: the server asked and the tries on it

clientVars == <<pc, conns, leader_id, server_ids, n, i, req, probe>>

Request == [rpc : {"put", "update"}, key : Key, value : Value]
             \cup [rpc : {"del"}, key : Key, value : {NotFound}]

(* A client that has nothing to send; the arguments are irrelevant. *)
NoRequest == [rpc |-> "none"]
NoProbe == [srv |-> 0, tries |-> 0]

ClientInit ==
  /\ pc = [c \in Client |-> "new"]
  /\ conns = [c \in Client |-> {}]
  /\ leader_id = [c \in Client |-> NoServer]
  /\ server_ids = [c \in Client |-> <<>>]
  /\ n = [c \in Client |-> 0]
  /\ i = [c \in Client |-> 0]
  /\ req = [c \in Client |-> NoRequest]
  /\ probe = [c \in Client |-> NoProbe]
-----------------------------------------------------------------------------
(* The constructor: connects to the servers it is told of, skipping those  *)
(* that cannot be reached, and takes the leader the first host knows of.   *)
construct(c, reached, known_leader) ==
  /\ pc[c] = "new"
  /\ pc' = [pc EXCEPT ![c] = "idle"]
  /\ conns' = [conns EXCEPT ![c] = reached]
  /\ leader_id' = [leader_id EXCEPT ![c] = known_leader]
  /\ \E q \in [1..Cardinality(reached) -> reached] :
        /\ \A a, b \in DOMAIN q : a < b => q[a] < q[b]
        /\ server_ids' = [server_ids EXCEPT ![c] = q]
  /\ UNCHANGED <<n, i, req, probe>>

begin(c, r) ==
  /\ pc[c] = "idle" /\ n[c] < MaxOps /\ r.rpc \in Commands[c]
  /\ n' = [n EXCEPT ![c] = @ + 1]
  /\ i' = [i EXCEPT ![c] = 0]
  /\ req' = [req EXCEPT ![c] = r]
  /\ pc' = [pc EXCEPT ![c] = "loop"]
  /\ UNCHANGED <<conns, leader_id, server_ids, probe>>

put(c, k, v) == begin(c, [rpc |-> "put", key |-> k, value |-> v])
update(c, k, v) == begin(c, [rpc |-> "update", key |-> k, value |-> v])
del(c, k) == begin(c, [rpc |-> "del", key |-> k, value |-> NotFound])

(* The operation is over: it returned or threw. *)
finish(c) ==
  /\ pc' = [pc EXCEPT ![c] = "idle"]
  /\ i' = [i EXCEPT ![c] = 0]
  /\ req' = [req EXCEPT ![c] = NoRequest]
  /\ probe' = [probe EXCEPT ![c] = NoProbe]

(* get_leader_handle().call(...): the request is on its way. *)
call_leader(c) ==
  /\ pc[c] = "loop" /\ leader_id[c] \in conns[c]
  /\ pc' = [pc EXCEPT ![c] = "wait"]
  /\ UNCHANGED <<conns, leader_id, server_ids, n, i, req, probe>>

(* Faulty variant: the loop counter stays where it was. *)
next_attempt_same_number(c) ==
  /\ pc' = [pc EXCEPT ![c] = "loop"]
  /\ probe' = [probe EXCEPT ![c] = NoProbe]
  /\ UNCHANGED <<i, req>>

(* ++i and the loop test: another attempt, or the end of the operation. *)
next_attempt(c) ==
  IF i[c] + 1 < NumRetries
  THEN /\ pc' = [pc EXCEPT ![c] = "loop"]
       /\ i' = [i EXCEPT ![c] = @ + 1]
       /\ probe' = [probe EXCEPT ![c] = NoProbe]
       /\ UNCHANGED req
  ELSE finish(c)

leader_changed(res) ==
  res.raft_rc \in {CMD_RESULT_NOT_LEADER, CMD_RESULT_REQUEST_CANCELLED}

(* t is the connection that follows s in the order of clients_. *)
IsNextConn(c, s, t) ==
  /\ t \in conns[c] /\ t > s
  /\ \A u \in conns[c] : u > s => u >= t

ask(c, s) ==
  \/ \E t \in conns[c] :
       /\ IsNextConn(c, s, t)
       /\ pc' = [pc EXCEPT ![c] = "probe"]
       /\ probe' = [probe EXCEPT ![c] = [srv |-> t, tries |-> 0]]
       /\ UNCHANGED <<i, req>>
  \/ /\ \A t \in conns[c] : t <= s
     /\ finish(c)

(* An exception escapes: clients_.at(leader_id_) without a connection, or  *)
(* the RPC itself failing.  leader_id_ stays what it was.                  *)
throw(c) ==
  /\ finish(c)
  /\ UNCHANGED <<conns, leader_id, server_ids, n>>

(* The body of the loop once the RPC has answered. *)
answer(c, res) ==
  /\ pc[c] = "wait"
  /\ \/ /\ was_accepted(res) \/ res.raft_rc = CMD_RESULT_WEIRD_CASE
        /\ finish(c)
     \/ /\ leader_changed(res)
        /\ ask(c, 0)
     \/ /\ ~was_accepted(res) /\ res.raft_rc # CMD_RESULT_WEIRD_CASE
        /\ ~leader_changed(res)
        /\ next_attempt(c)
  /\ UNCHANGED <<conns, leader_id, server_ids, n>>

(* What the caller of put, update or del gets from the last attempt. *)
returned_result(res) ==
  IF res.raft_rc = CMD_RESULT_WEIRD_CASE
  THEN [res EXCEPT !.raft_rc = 0] ELSE res

(* Faulty variant: the tries are counted again instead of asking the next  *)
(* server.                                                                 *)
get_leader_id_unbounded(c, id) ==
  /\ pc[c] = "probe"
  /\ IF id # NoServer
     THEN leader_id' = [leader_id EXCEPT ![c] = id] /\ next_attempt(c)
     ELSE /\ probe' = [probe EXCEPT ![c].tries = (@ + 1) % NumRetries]
          /\ UNCHANGED <<leader_id, pc, i, req>>
  /\ UNCHANGED <<conns, server_ids, n>>

(* One RPC of get_leader_id: the server asked answers with an id, with no  *)
(* leader, or not at all.                                                  *)
get_leader_id_answer(c, id) ==
  /\ pc[c] = "probe"
  /\ IF id # NoServer
     THEN /\ leader_id' = [leader_id EXCEPT ![c] = id]
          /\ next_attempt(c)
     ELSE /\ UNCHANGED leader_id
          /\ IF probe[c].tries + 1 < NumRetries
             THEN /\ probe' = [probe EXCEPT ![c].tries = @ + 1]
                  /\ UNCHANGED <<pc, i, req>>
             ELSE ask(c, probe[c].srv)
  /\ UNCHANGED <<conns, server_ids, n>>

get_leader_id_fails(c) ==
  /\ pc[c] = "probe"
  /\ ask(c, probe[c].srv)
  /\ UNCHANGED <<conns, leader_id, server_ids, n>>

(* get: next_server() rotates the queue before the RPC is made. *)
next_server(c) ==
  server_ids' = [server_ids EXCEPT ![c] = Append(Tail(@), Head(@))]

get(c) ==
  /\ pc[c] = "idle" /\ n[c] < MaxOps /\ "get" \in Commands[c]
  /\ n' = [n EXCEPT ![c] = @ + 1]
  /\ next_server(c)
  /\ UNCHANGED <<pc, conns, leader_id, i, req, probe>>
=============================================================================
