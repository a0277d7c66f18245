------------------------- MODULE MCReplicatedStore -------------------------
(***************************************************************************)
(* Small instances of ReplicatedStore for TLC.  Server ids are numbers,    *)
(* because the client asks the servers in the order of their ids.          *)
(***************************************************************************)
EXTENDS ReplicatedStore

(* GET_LEADER_NO_LIVE_LEADER *)
NoLiveLeader == -1

(* One caller writes or reads, the other one deletes. *)
WriterAndDeleter ==
  [c \in Client |-> IF c = 1 THEN {"update", "get"} ELSE {"del"}]

Puts == [c \in Client |-> {"put"}]
=============================================================================
