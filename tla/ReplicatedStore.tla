--------------------------- MODULE ReplicatedStore ---------------------------
(***************************************************************************)
(* The replicated key-value store: clients (module Client) call the RPC    *)
(* handlers of the servers, the handlers append operations to the Raft log *)
(* (module NuRaft) and block, every server's commit thread applies the     *)
(* committed entries to its SplinterDB (module StateMachine), and the      *)
(* handler turns the outcome into the reply.                               *)
(*                                                                         *)
(* calls holds the RPCs of mutations that are on their way or in a         *)
(* handler, the ones whose client gave up too, and the requests a handler  *)
(* forwarded and no longer waits for.  Handing out a reply and receiving   *)
(* it are one step: a reply that comes too late is a call whose client has *)
(* timed out.  A message that is lost is one that never arrives.           *)
(***************************************************************************)
EXTENDS NuRaft, StateMachine, Client

VARIABLES calls,   \* mutation RPCs not yet answered, and adrift forwards
          acked,   \* operations whose caller was told success
          failed,  \* operations whose caller was told the append failed
          before,  \* <<a, b>>: a was acknowledged before b began
          late,    \* attempts given up while they were being forwarded
          got      \* got[c]: what the last get of c returned

history == <<acked, failed, before, late, got>>
vars == <<raftVars, smVars, clientVars, calls, history>>

(* An operation is named by its client and number, an attempt by these and *)
(* the loop counter.                                                       *)
OpId(c) == [c |-> c, n |-> n[c]]
CallId(c) == [c |-> c, n |-> n[c], i |-> i[c]]
OpOf(id) == [c |-> id.c, n |-> id.n]

NoRead == [idx |-> -1]

(* Faulty variant: a delete becomes a put of nothing. *)
operation_of_puts_only(r) == make_put(r.key, r.value)

(* The operation the PUT, UPDATE and DELETE handlers build: an update is   *)
(* written to the log as a put.                                            *)
operation_of(r) ==
  IF r.rpc = "del" THEN make_delete(r.key) ELSE make_put(r.key, r.value)

Init ==
  /\ RaftInit /\ SmInit /\ ClientInit
  /\ calls = {}
  /\ acked = {} /\ failed = {} /\ before = {} /\ late = {}
  /\ got = [c \in Client |-> NoRead]
-----------------------------------------------------------------------------
(* cmd_result of append_entries, as extract_result looks at it.            *)
NoBuf == -1
RaftResult(acc, has, code, buf) ==
  [accepted |-> acc, has_result |-> has, code |-> code, buf |-> buf]

(* Entries are refused without a known leader, or by a server the request  *)
(* was forwarded to that does not take itself for the leader.              *)
Rejected(code) == RaftResult(FALSE, FALSE, code, NoBuf)

(* What append_entries may return for call r: the state machine's code     *)
(* after the entry was applied; otherwise a time-out, a cancellation after *)
(* a change of leader where the entry is in a log already, or, where the   *)
(* request was forwarded, an answer without a result, which may come       *)
(* before the forward has arrived.                                         *)
RaftResults(r) ==
  IF r.stage = "applied"
  THEN {RaftResult(TRUE, TRUE, OK, r.ret)}
  ELSE {RaftResult(TRUE, TRUE, CMD_RESULT_TIMEOUT, NoBuf)}
         \cup {x \in {Rejected(CMD_RESULT_REQUEST_CANCELLED)} :
                  r.stage = "raft" /\ r.at # leader}
         \cup {x \in {RaftResult(TRUE, FALSE, RESULT_NOT_EXIST_YET, NoBuf)} :
                  r.at # r.srv}

(* Faulty variant: the return code stays 0 where there is no result. *)
extract_result_default_ok(x) ==
  [spl_rc |-> IF x.accepted /\ x.has_result /\ x.buf # NoBuf THEN x.buf ELSE 0,
   raft_rc |-> IF x.accepted /\ x.has_result THEN x.code ELSE OK]

(* extract_result *)
extract_result(x) ==
  [spl_rc |-> IF x.accepted /\ x.has_result /\ x.buf # NoBuf THEN x.buf ELSE 0,
   raft_rc |-> x.code]

(* The reply to call r: its client goes on if it still waits for it. *)
IsWaitingFor(r) ==
  LET c == r.id.c IN pc[c] = "wait" /\ r.id = CallId(c)

(* What the caller of c learns when the answer res ends its operation. *)
Told(c, res) ==
  /\ acked' = IF is_success(returned_result(res))
              THEN acked \cup {[op |-> OpId(c), req |-> req[c]]} ELSE acked
  /\ failed' = IF /\ ~was_accepted(returned_result(res))
                  /\ ~leader_changed(res) /\ pc'[c] = "idle"
               THEN failed \cup {OpId(c)} ELSE failed

reply(r, res) ==
  IF IsWaitingFor(r)
  THEN answer(r.id.c, res) /\ Told(r.id.c, res)
  ELSE UNCHANGED <<clientVars, acked, failed>>
-----------------------------------------------------------------------------
(* Clients *)
Construct(c, host) ==
  /\ host \in up
  /\ \E skipped \in SUBSET (Server \ up) :
        construct(c, Server \ skipped, view[host])
  /\ UNCHANGED <<raftVars, smVars, calls, history>>

Begin(c) ==
  /\ \E k \in Key : \/ \E v \in Value : put(c, k, v) \/ update(c, k, v)
                    \/ del(c, k)
  /\ before' = before \cup {<<a.op, [c |-> c, n |-> n[c] + 1]>> : a \in acked}
  /\ UNCHANGED <<raftVars, smVars, calls, acked, failed, late, got>>

Send(c) ==
  /\ leader_id[c] \in up
  /\ call_leader(c)
  /\ calls' = calls \cup {[id |-> CallId(c), srv |-> leader_id[c],
                           op |-> operation_of(req[c]), stage |-> "sent",
                           at |-> NoServer, idx |-> 0, ret |-> 0]}
  /\ UNCHANGED <<raftVars, smVars, history>>

(* No connection to the leader, or the leader does not run any more. *)
SendThrows(c) ==
  /\ pc[c] = "loop" /\ leader_id[c] \notin conns[c] \cap up
  /\ throw(c)
  /\ UNCHANGED <<raftVars, smVars, calls, history>>

(* rpc::timeout after timeout_ms. *)
RpcTimeout(c) ==
  /\ pc[c] = "wait"
  /\ throw(c)
  /\ UNCHANGED <<raftVars, smVars, calls, history>>

(* get_leader_id asks the next server: it answers, or the RPC fails        *)
(* because the server does not run or takes longer than timeout_ms.        *)
Probe(c) ==
  /\ \/ /\ probe[c].srv \in up
        /\ get_leader_id_answer(c, view[probe[c].srv])
        /\ failed' = IF view[probe[c].srv] # NoServer /\ pc'[c] = "idle"
                     THEN failed \cup {OpId(c)} ELSE failed
     \/ get_leader_id_fails(c) /\ UNCHANGED failed
  /\ UNCHANGED <<raftVars, smVars, calls, acked, before, late, got>>

(* The handler of GET runs at once, or the RPC throws: the server does not *)
(* run or takes longer than timeout_ms.                                    *)
Get(c, k) ==
  /\ get(c)
  /\ LET s == Head(server_ids[c]) IN
       \/ /\ s \in up
          /\ \E rc \in SplReturnCodes(s) :
               got' = [got EXCEPT ![c] = [idx |-> last_committed_idx[s],
                                          srv |-> s, key |-> k,
                                          res |-> read(s, k, rc)]]
       \/ UNCHANGED got
  /\ UNCHANGED <<raftVars, smVars, calls, acked, failed, before, late>>
-----------------------------------------------------------------------------
(* Servers: the mutation handlers *)

TakesItselfForLeader(t) == t \in up /\ view[t] = t

Refusal == extract_result(Rejected(CMD_RESULT_NOT_LEADER))

(* append_entries at server t, where the handler of r waits for the result. *)
Waiting(r, t) ==
  [r EXCEPT !.stage = "raft", !.at = t,
            !.idx = IF t = leader THEN Len(log) + 1 ELSE 0]

(* replica::append_log appends on this server or, with auto_forwarding_,   *)
(* sends the request on to the server it takes for the leader.             *)
append_log(r) ==
  /\ r.stage = "sent" /\ r.srv \in up
  /\ LET t == view[r.srv] IN
       \/ /\ t = r.srv
          /\ append_entry(t, AppEntry(r.op, r.id))
          /\ calls' = (calls \ {r}) \cup {Waiting(r, t)}
          /\ UNCHANGED <<clientVars, acked, failed>>
       \/ /\ t \in Server \ {r.srv}
          /\ calls' = (calls \ {r}) \cup {[r EXCEPT !.stage = "fwd", !.at = t]}
          /\ UNCHANGED <<raftVars, clientVars, acked, failed>>
       \/ /\ t = NoServer
          /\ calls' = calls \ {r}
          /\ reply(r, Refusal)
          /\ UNCHANGED raftVars
  /\ UNCHANGED <<smVars, before, late, got>>

(* A forwarded request arrives; its handler may wait for it no more. *)
forward_arrives(r) ==
  /\ r.stage \in {"fwd", "adrift"} /\ TakesItselfForLeader(r.at)
  /\ append_entry(r.at, AppEntry(r.op, r.id))
  /\ calls' = (calls \ {r}) \cup {w \in {Waiting(r, r.at)} : r.stage = "fwd"}
  /\ UNCHANGED <<smVars, clientVars, history>>

(* The request has reached a server that is not the leader, or none. *)
forward_refused(r) ==
  /\ r.stage = "fwd" /\ r.srv \in up /\ ~TakesItselfForLeader(r.at)
  /\ calls' = calls \ {r}
  /\ reply(r, Refusal)
  /\ UNCHANGED <<raftVars, smVars, before, late, got>>

(* What is left of the calls C when their handlers are gone: the forwards  *)
(* that are still in flight.                                               *)
Adrift(C) == {[r EXCEPT !.stage = "adrift"] :
                r \in {q \in C : q.stage \in {"fwd", "adrift"}}}

(* append_entries returns and the handler replies. *)
handler_return(r) ==
  /\ r.stage \in {"fwd", "raft", "applied"} /\ r.srv \in up
  /\ calls' = (calls \ {r}) \cup Adrift({r})
  /\ late' = late \cup {q.id : q \in Adrift({r})}
  /\ \E x \in RaftResults(r) : reply(r, extract_result(x))
  /\ UNCHANGED <<raftVars, smVars, before, got>>

(* The commit thread of s applies the next committed entry; where s had    *)
(* accepted the entry, the handler that waits for it gets the result.      *)
Commit(s) ==
  /\ s \in up /\ last_committed_idx[s] < commit_idx
  /\ LET idx == last_committed_idx[s] + 1
         e == log[idx]
     IN \/ /\ IsApp(e)
           /\ \E rc \in SplReturnCodes(s) :
                /\ commit(s, idx, e.op, rc)
                /\ calls' = {IF r.stage = "raft" /\ r.at = s /\ r.id = e.id
                             THEN [r EXCEPT !.stage = "applied", !.ret = rc]
                             ELSE r : r \in calls}
        \/ /\ ~IsApp(e)
           /\ commit_config(s, idx)
           /\ UNCHANGED calls
  /\ UNCHANGED <<raftVars, clientVars, history>>

(* A server stops; the handlers it was running are gone. *)
Stop(s) ==
  /\ stop(s)
  /\ LET C == {r \in calls : r.srv = s} IN
       /\ calls' = (calls \ C) \cup Adrift(C)
       /\ late' = late \cup {r.id : r \in Adrift(C)}
  /\ UNCHANGED <<smVars, clientVars, acked, failed, before, got>>

Raft ==
  /\ \/ advance_commit
     \/ \E s \in Server : elect(s) \/ observe_leader(s) \/ lose_leader(s)
  /\ UNCHANGED <<smVars, clientVars, calls, history>>

Next ==
  \/ \E c \in Client : \/ \E host \in Server : Construct(c, host)
                       \/ Begin(c) \/ Send(c) \/ SendThrows(c)
                       \/ RpcTimeout(c) \/ Probe(c)
                       \/ \E k \in Key : Get(c, k)
  \/ \E r \in calls : \/ append_log(r) \/ forward_arrives(r)
                       \/ forward_refused(r) \/ handler_return(r)
  \/ \E s \in Server : Commit(s) \/ Stop(s)
  \/ Raft

Spec == Init /\ [][Next]_vars

(* The client's thread runs on, its RPCs end by an answer or by the        *)
(* timeout it set, and every commit thread makes progress.                 *)
Fairness ==
  /\ \A c \in Client : WF_vars(Send(c) \/ SendThrows(c) \/ RpcTimeout(c) \/ Probe(c))
  /\ \A s \in Server : WF_vars(Commit(s))

FairSpec == Spec /\ Fairness
-----------------------------------------------------------------------------
(* Properties *)

Id == [c : Client, n : Nat, i : Nat]
Entry == {ConfEntry} \cup [kind : {"app"}, op : Operation, id : Id]
Call == [id : Id, srv : Server, op : Operation,
         stage : {"sent", "fwd", "raft", "applied", "adrift"}, at : Server \cup {NoServer},
         idx : Nat, ret : {SPL_OK, SPL_ERR}]

RaftTypeOK ==
  /\ log \in Seq(Entry)
  /\ lost \subseteq {e \in Entry : IsApp(e)}
  /\ commit_idx \in Nat /\ term_start \in Nat /\ elections \in Nat
  /\ leader \in Server \cup {NoServer}
  /\ view \in [Server -> Server \cup {NoServer}]
  /\ up \subseteq Server

SmTypeOK ==
  /\ spl \in [Server -> [Key -> Value \cup {NotFound}]]
  /\ last_committed_idx \in [Server -> Nat]
  /\ commit_thread_initialized \in [Server -> BOOLEAN]

ClientTypeOK ==
  /\ pc \in [Client -> {"new", "idle", "loop", "wait", "probe"}]
  /\ conns \in [Client -> SUBSET Server]
  /\ leader_id \in [Client -> Server \cup {NoServer}]
  /\ server_ids \in [Client -> Seq(Server)]
  /\ \A c \in Client : pc[c] # "new" => server_ids[c] # <<>>
  /\ n \in [Client -> Nat] /\ i \in [Client -> Nat]
  /\ req \in [Client -> Request \cup {NoRequest}]
  /\ \A c \in Client : pc[c] \in {"loop", "wait", "probe"} => req[c] \in Request
  /\ probe \in [Client -> [srv : Server \cup {0}, tries : Nat]]

CallTypeOK ==
  /\ calls \subseteq Call
  /\ acked \subseteq [op : [c : Client, n : Nat], req : Request]
  /\ late \subseteq Id

(* Every variable has the type of the members it stands for; a client that *)
(* is inside a mutation has the arguments of one, and the queue that get   *)
(* takes its server from is never empty.                                   *)
TypeOK == RaftTypeOK /\ SmTypeOK /\ ClientTypeOK /\ CallTypeOK

(* Position p of log lg holds a write to key k. *)
Writes(lg, p, k) == IsApp(lg[p]) /\ lg[p].op.key = k

(* v is what the first m entries of log lg leave under key k: the value of *)
(* the last write to it.                                                   *)
HoldsAfter(lg, k, v, m) ==
  \/ v = NotFound /\ \A p \in 1..m : ~Writes(lg, p, k)
  \/ \E p \in 1..m : /\ Writes(lg, p, k) /\ v = lg[p].op.value
                     /\ \A q \in p + 1 .. m : ~Writes(lg, q, k)

(* Every replica whose SplinterDB does not fail holds exactly the effect   *)
(* of the log up to last_committed_idx_, through elections and with        *)
(* requests retried: replicas at the same index agree.                     *)
ReplicaIsReplay ==
  \A s \in Server \ Faulty :
    /\ last_committed_idx[s] <= commit_idx
    /\ \A k \in Key : HoldsAfter(log, k, spl[s][k], last_committed_idx[s])

(* A mutation whose caller was told success is in the committed log with   *)
(* the key and value it was called with, and stays there whoever leads.    *)
AckedIsCommitted ==
  \A a \in acked :
    \E p \in 1..commit_idx : /\ IsApp(log[p]) /\ OpOf(log[p].id) = a.op
                             /\ log[p].op = operation_of(a.req)

(* No attempt of the retry loop is in the log twice, so a mutation has at  *)
(* most num_retries_ effects.                                              *)
AttemptsOnce ==
  /\ \A p, q \in 1..Len(log) :
        IsApp(log[p]) /\ IsApp(log[q]) /\ log[p].id = log[q].id => p = q
  /\ \A p \in 1..Len(log) : IsApp(log[p]) => log[p].id.i < NumRetries

(* Of an acknowledged mutation, only an attempt that append_log was still  *)
(* forwarding when its handler answered can take effect behind an          *)
(* operation that began after the acknowledgement; every other attempt,    *)
(* the cancelled and timed-out ones included, is in the log before it.     *)
RealTimeOrder ==
  \A p, q \in 1..Len(log) :
    IsApp(log[p]) /\ IsApp(log[q])
      /\ <<OpOf(log[p].id), OpOf(log[q].id)>> \in before
      => p < q \/ log[p].id \in late

(* A get returns what the log held under the key up to the index its       *)
(* server had applied: an old value perhaps, never one that was not        *)
(* committed.                                                              *)
ReadIsCommitted ==
  \A c \in Client :
    LET g == got[c] IN
    g # NoRead /\ g.srv \notin Faulty =>
      /\ g.idx <= commit_idx
      /\ HoldsAfter(log, g.key, g.res[1], g.idx)
      /\ (g.res[2] = SPL_OK) <=> (g.res[1] # NotFound)

(* The store is a replicated history.  Mapped: the history is the          *)
(* committed prefix of the log.                                            *)
History == INSTANCE ReplicatedHistory
             WITH hist <- SubSeq(log, 1, commit_idx),
                  applied <- last_committed_idx, store <- spl

(* Whatever clients, elections and handlers do, the committed log only     *)
(* grows and every replica applies it entry by entry (refinement of        *)
(* ReplicatedHistory; holds where no SplinterDB call fails).               *)
ImplementsHistory == History!HistSpec

(* A mutation the caller was told could not be appended has no effect.     *)
(* spl_client prints "append log failed" for such a result.                *)
FailedMeansNotAppended ==
  \A o \in failed : \A p \in 1..commit_idx :
     IsApp(log[p]) => OpOf(log[p].id) # o

(* The retry loop and the leader search inside it come to an end. *)
OpTerminates == \A c \in Client : []<>(pc[c] \in {"new", "idle"})

(* The replicas that run catch up with what is committed. *)
Converges == \A s \in Server :
  []<>(s \notin up \/ last_committed_idx[s] = commit_idx)
=============================================================================
