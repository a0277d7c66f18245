------------------------------- MODULE NuRaft -------------------------------
(***************************************************************************)
(* The consensus service the replicas run on, seen through the calls that  *)
(* src/server makes: raft_server::append_entries, get_leader and the       *)
(* commit callbacks.  NuRaft is a submodule whose code is not part of the  *)
(* repository, so this module is external: it states what replica.cpp,     *)
(* server.cpp and splinterdb_state_machine.cpp rely on, for a fixed group  *)
(* of servers that may stop but do not come back.                          *)
(*                                                                         *)
(* One sequence stands for the log of the leader of the highest term.  Its *)
(* committed prefix never changes.  An election cuts what is behind some   *)
(* point; entries that were cut, and entries accepted by a leader that has *)
(* been replaced, are not gone: a later leader may still hold them, until  *)
(* an entry of a newer term is committed.  Every server has an opinion on  *)
(* who the leader is, which may be out of date.                            *)
(***************************************************************************)
EXTENDS Types, Integers, Sequences, FiniteSets, Functions

CONSTANTS FirstLeader,   \* the server that leads at first
          MaxElections   \* bound on leader changes

ASSUME RaftAssumption ==
  /\ FirstLeader \in Server
  /\ MaxElections \in Nat

VARIABLES log,           \* entries of the current leader's log
          lost,          \* entries outside log that a later leader may hold
          commit_idx,    \* length of the committed prefix
          term_start,    \* index of the first entry of the leader's own term
          leader,        \* the leader of the highest term, or NoServer
          view,          \* view[s]: what get_leader() answers on s
          up,            \* servers that are running
          elections      \* leader changes so far

raftVars == <<log, lost, commit_idx, term_start, leader, view, up, elections>>

(* Cluster configuration entries carry no operation of the key-value store. *)
ConfEntry == [kind |-> "conf"]
AppEntry(op, id) == [kind |-> "app", op |-> op, id |-> id]
IsApp(e) == e.kind = "app"

HasMajority(S) == 2 * Cardinality(S) > Cardinality(Server)

(* Sequences without repetition of elements of S. *)
Arrangements(S) == UNION {Injection(1..m, S) : m \in 0..Cardinality(S)}

RaftInit ==
  /\ log = <<>>
  /\ lost = {}
  /\ commit_idx = 0
  /\ term_start = 0
  /\ leader = FirstLeader
  /\ view = [s \in Server |-> FirstLeader]
  /\ up = Server
  /\ elections = 0
-----------------------------------------------------------------------------
(* s wins an election.  Its log has all that was committed and some prefix *)
(* of what the previous leader had; where that prefix ends before the      *)
(* previous leader's term, entries of older terms may follow.  The new     *)
(* leader then appends a configuration entry of its own.                   *)
elect(s) ==
  /\ elections < MaxElections
  /\ s \in up /\ s # leader /\ HasMajority(up)
  /\ \E keep \in commit_idx .. Len(log), back \in Arrangements(lost) :
        /\ back = <<>> \/ keep < term_start
        /\ log' = SubSeq(log, 1, keep) \o back \o <<ConfEntry>>
        /\ lost' = (lost \ Range(back))
                      \cup {log[p] : p \in {q \in keep + 1 .. Len(log) :
                                                IsApp(log[q])}}
        /\ term_start' = keep + Len(back) + 1
  /\ leader' = s
  /\ view' = [view EXCEPT ![s] = s]
  /\ elections' = elections + 1
  /\ UNCHANGED <<commit_idx, up>>

(* A server hears from the leader, or stops hearing from the one it had. *)
observe_leader(s) ==
  /\ s \in up
  /\ leader # NoServer /\ view[s] # leader
  /\ view' = [view EXCEPT ![s] = leader]
  /\ UNCHANGED <<log, lost, commit_idx, term_start, leader, up, elections>>

lose_leader(s) ==
  /\ s \in up
  /\ view[s] # leader /\ view[s] # NoServer
  /\ view' = [view EXCEPT ![s] = NoServer]
  /\ UNCHANGED <<log, lost, commit_idx, term_start, leader, up, elections>>

(* Entries up to one of the leader's own term have reached a majority.     *)
(* From now on no server without them can win an election.                 *)
advance_commit ==
  /\ leader # NoServer /\ HasMajority(up)
  /\ \E m \in commit_idx + 1 .. Len(log) : m >= term_start /\ commit_idx' = m
  /\ lost' = {}
  /\ UNCHANGED <<log, term_start, leader, view, up, elections>>

(* A server process stops.  The rest of the group keeps a majority. *)
stop(s) ==
  /\ s \in up /\ HasMajority(up \ {s})
  /\ up' = up \ {s}
  /\ leader' = IF leader = s THEN NoServer ELSE leader
  /\ UNCHANGED <<log, lost, commit_idx, term_start, view, elections>>

(* append_entries on server s, which takes itself for the leader.  If s    *)
(* has been replaced without knowing it, the entry stays in its own log.   *)
append_entry(s, e) ==
  /\ view[s] = s
  /\ IF s = leader
     THEN log' = Append(log, e) /\ UNCHANGED lost
     ELSE /\ lost' = IF commit_idx < term_start THEN lost \cup {e} ELSE lost
          /\ UNCHANGED log
  /\ UNCHANGED <<commit_idx, term_start, leader, view, up, elections>>
=============================================================================
