----------------------------- MODULE RpcServer -----------------------------
(***************************************************************************)
(* The threads inside one server.  A pool of workers runs the handlers of  *)
(* the client RPCs, one request at a time each; a handler of a mutation    *)
(* encodes the operation and appends it to Raft's log, on this server or,  *)
(* with auto_forwarding_, through another one that leads; its worker is    *)
(* blocked until the entry is applied there, the leader changes or         *)
(* client_req_timeout_ has passed.  The commit thread decodes the entries  *)
(* and applies them to SplinterDB.  Every thread that calls SplinterDB has *)
(* to be registered with it first.                                         *)
(*                                                                         *)
(* Raft is external: log is the log of the server that leads, entries are  *)
(* committed in order and perhaps never, a new leader has any part of the  *)
(* entries that are not committed, and this server applies committed       *)
(* entries at its own pace.                                                *)
(***************************************************************************)
EXTENDS Integers, Sequences

CONSTANTS NumRequests,   \* bound on the requests of clients
          Worker,        \* the nthreads workers of client_srv_
          CommitThread,  \* NuRaft's commit thread
          Call,          \* what requests ask for
          MayAsk,        \* bound: what the r-th request may ask for
          None,          \* no request, no value, no result
          ReturnCodes,   \* of SplinterDB's calls, 0 is success
          MaxElections   \* bound on the changes of leadership

ASSUME RpcAssumption ==
  /\ NumRequests \in Nat /\ CommitThread \notin Worker /\ None \notin Call
  /\ 0 \in ReturnCodes /\ MaxElections \in Nat
  /\ MayAsk \in [1..NumRequests -> SUBSET Call]

Mutations == {"put", "update", "delete"}
Bytes == Seq(Nat)

(* Keys and values are bytes. *)
ASSUME CallAssumption ==
  \A c \in Call : /\ c.rpc \in Mutations => c.key \in Bytes
                  /\ c.rpc \in {"put", "update"} => c.value \in Bytes

(* What append_entries returns, and what the handlers of mutations answer. *)
Codes == {"OK", "CANCELLED", "TIMEOUT", "NOT_LEADER", "NOT_EXIST_YET"}
Result == [code : Codes, buf : ReturnCodes \cup {None}]
Answer == [spl_rc : ReturnCodes, raft_rc : Codes]

ASSUME NoneAssumption == None \notin Bytes /\ None \notin Result /\ None \notin Answer

VARIABLES running,      \* whether run has started the workers
          queue,        \* requests no worker has taken yet
          worker,       \* what the workers do
          registered,   \* threads registered with SplinterDB
          commit_thread_initialized,
          forward,      \* requests sent on to another server
          log,          \* the encoded operations, in the leader's log
          commit_idx,   \* Raft: the committed entries
          spl,          \* SplinterDB
          last_committed_idx,
          leader,       \* whether this server leads
          elections,    \* changes of leadership
          sent,         \* history: what the requests ask for
          before,       \* history: the mutations acknowledged before a request
          at,           \* history: index of the entry of a request
          applied,      \* history: the operations applied, with return code
          answer,       \* history: the answers
          used          \* history: threads that have called SplinterDB

poolVars == <<running, queue, worker>>
smVars == <<commit_thread_initialized, spl, last_committed_idx, applied>>
raftVars == <<log, commit_idx, leader, elections>>
reqVars == <<sent, before>>
vars == <<poolVars, registered, smVars, raftVars, reqVars, forward, at, answer, used>>

Request == 1 .. NumRequests
NoForward == [r \in Request |-> "none"]
Idle == [pc |-> "idle", req |-> None, idx |-> 0, res |-> None]
-----------------------------------------------------------------------------
(* splinterdb_operation and owned_slice: a log entry is the type and then, *)
(* length first, the bytes of the key and of the value if there is one.    *)

PUT == 0
UPDATE == 1
DELETE == 2

make_put(key, value) == [type |-> PUT, key |-> key, value |-> value]
make_delete(key) == [type |-> DELETE, key |-> key, value |-> None]

(* The handlers: UPDATE makes a put. *)
operation_of(call) ==
  IF call.rpc = "delete" THEN make_delete(call.key) ELSE make_put(call.key, call.value)

slice_serialize(data) == <<Len(data)>> \o data

(* The slice at a position of a buffer. *)
slice_deserialize(buf, pos) == SubSeq(buf, pos + 1, pos + buf[pos])

serialize(op) ==
  <<op.type>> \o slice_serialize(op.key)
              \o (IF op.value = None THEN <<>> ELSE slice_serialize(op.value))

(* Faulty variant: only an update has a value. *)
deserialize_update_only(buf) ==
  LET key == slice_deserialize(buf, 2)
  IN [type |-> buf[1], key |-> key,
      value |-> IF buf[1] = UPDATE THEN slice_deserialize(buf, 3 + Len(key)) ELSE None]

deserialize(buf) ==
  LET key == slice_deserialize(buf, 2)
  IN [type |-> buf[1], key |-> key,
      value |-> IF buf[1] \in {PUT, UPDATE} THEN slice_deserialize(buf, 3 + Len(key))
                                            ELSE None]
-----------------------------------------------------------------------------
RpcInit ==
  /\ running = FALSE /\ queue = <<>>
  /\ worker = [w \in Worker |-> [Idle EXCEPT !.pc = "off"]]
  /\ registered = {} /\ commit_thread_initialized = FALSE
  /\ forward = NoForward /\ log = <<>> /\ commit_idx = 0
  /\ spl = {} /\ last_committed_idx = 0
  /\ leader \in BOOLEAN /\ elections = 0
  /\ sent = [r \in Request |-> None] /\ before = [r \in Request |-> {}]
  /\ at = [r \in Request |-> 0]
  /\ applied = <<>> /\ answer = [r \in Request |-> None] /\ used = {}

Acked(r) ==
  /\ sent[r] # None /\ sent[r].rpc \in Mutations
  /\ answer[r] = [spl_rc |-> 0, raft_rc |-> "OK"]

(* Requests are numbered in the order in which they arrive. *)
send(r, call) ==
  /\ sent[r] = None /\ \A q \in 1 .. r - 1 : sent[q] # None
  /\ call \in MayAsk[r]
  /\ sent' = [sent EXCEPT ![r] = call]
  /\ before' = [before EXCEPT ![r] = {q \in Request : Acked(q)}]
  /\ queue' = Append(queue, r)
  /\ UNCHANGED <<running, worker, registered, smVars, raftVars, forward, at, answer, used>>
-----------------------------------------------------------------------------
(* The pool *)

(* server::run: async_run starts the workers ... *)
run ==
  /\ ~running /\ running' = TRUE
  /\ UNCHANGED <<queue, worker, registered, smVars, raftVars, reqVars, forward, at, answer, used>>

(* Faulty variant: no function was given to set_worker_init_func. *)
worker_init_nothing(w) ==
  /\ running /\ worker[w].pc = "off"
  /\ worker' = [worker EXCEPT ![w] = Idle]
  /\ UNCHANGED <<running, queue, registered, smVars, raftVars, reqVars, forward, at, answer, used>>

(* ... each of which calls register_thread before it takes requests. *)
worker_init(w) ==
  /\ running /\ worker[w].pc = "off"
  /\ registered' = registered \cup {w}
  /\ worker' = [worker EXCEPT ![w] = Idle]
  /\ UNCHANGED <<running, queue, smVars, raftVars, reqVars, forward, at, answer, used>>

Takes(w, r) ==
  /\ worker[w].pc = "idle" /\ queue # <<>> /\ r = Head(queue)
  /\ queue' = Tail(queue)

(* RPC_PING, RPC_GET_SRV_ID, RPC_GET_LEADER_ID, RPC_GET_ALL_SERVERS and    *)
(* RPC_GET_SRV_ENDPOINT answer from memory.                                *)
info(w, r) ==
  /\ Takes(w, r) /\ sent[r].rpc = "info"
  /\ answer' = [answer EXCEPT ![r] = "info"]
  /\ UNCHANGED <<running, worker, registered, smVars, raftVars, reqVars, forward, at, used>>

(* RPC_SPLINTERDB_DUMPCACHE and RPC_SPLINTERDB_CLEARCACHE. *)
cache(w, r) ==
  /\ Takes(w, r) /\ sent[r].rpc = "cache"
  /\ used' = used \cup {w}
  /\ answer' = [answer EXCEPT ![r] = "true"]
  /\ UNCHANGED <<running, worker, registered, smVars, raftVars, reqVars, forward, at>>

(* What SplinterDB holds for a key. *)
Values(db, key) == {p[2] : p \in {q \in db : q[1] = key}}

(* RPC_SPLINTERDB_GET with replica::read: the lookup and the access to its *)
(* result may fail.                                                        *)
get(w, r) ==
  /\ Takes(w, r) /\ sent[r].rpc = "get"
  /\ used' = used \cup {w}
  /\ \E rc \in ReturnCodes :
       answer' = [answer EXCEPT ![r] =
                    [found |-> IF rc = 0 THEN Values(spl, sent[r].key) ELSE {},
                     rc |-> rc, idx |-> last_committed_idx]]
  /\ UNCHANGED <<running, worker, registered, smVars, raftVars, reqVars, forward, at>>

(* The leader appends the entry of a request. *)
Appended(r) ==
  /\ log' = Append(log, serialize(operation_of(sent[r])))
  /\ at' = [at EXCEPT ![r] = Len(log) + 1]
  /\ UNCHANGED <<commit_idx, leader, elections>>

(* Faulty variant: append_entries returns before the entry is applied. *)
append_log_async(w, r) ==
  /\ Takes(w, r) /\ sent[r].rpc \in Mutations /\ leader
  /\ Appended(r)
  /\ answer' = [answer EXCEPT ![r] = [spl_rc |-> 0, raft_rc |-> "OK"]]
  /\ UNCHANGED <<running, worker, registered, smVars, reqVars, forward, used>>

(* The handlers of the mutations with replica::append_log: the worker      *)
(* waits for its entry, or for the answer of the server that the request   *)
(* was forwarded to; it is refused at once where no leader is known.       *)
append_log(w, r) ==
  /\ Takes(w, r) /\ sent[r].rpc \in Mutations
  /\ \/ /\ leader
        /\ Appended(r)
        /\ worker' = [worker EXCEPT ![w] = [pc |-> "wait", req |-> r, res |-> None,
                                            idx |-> Len(log) + 1]]
        /\ UNCHANGED <<forward, answer>>
     \/ /\ ~leader
        /\ forward' = [forward EXCEPT ![r] = "sent"]
        /\ worker' = [worker EXCEPT ![w] = [pc |-> "forward", req |-> r, res |-> None,
                                            idx |-> 0]]
        /\ UNCHANGED <<raftVars, at, answer>>
     \/ /\ ~leader
        /\ answer' = [answer EXCEPT ![r] = [spl_rc |-> 0, raft_rc |-> "NOT_LEADER"]]
        /\ UNCHANGED <<worker, raftVars, forward, at>>
  /\ UNCHANGED <<running, registered, smVars, reqVars, used>>

(* extract_result *)
extract_result(res) ==
  [spl_rc |-> IF res.buf = None THEN 0 ELSE res.buf, raft_rc |-> res.code]

Answers(w, res) ==
  /\ answer' = [answer EXCEPT ![worker[w].req] = extract_result(res)]
  /\ worker' = [worker EXCEPT ![w] = Idle]
  /\ UNCHANGED <<running, queue, registered, smVars, raftVars, reqVars, at, used>>

NoResult(code) == [code |-> code, buf |-> None]

(* append_entries returns with a result ... *)
append_returns(w) ==
  /\ worker[w].pc = "wait" /\ worker[w].res # None
  /\ Answers(w, worker[w].res)
  /\ UNCHANGED forward

(* Faulty variant: the handler waits without a limit. *)
append_never_times_out(w) == FALSE /\ append_returns(w)

(* ... or when client_req_timeout_ has passed. *)
append_times_out(w) ==
  /\ worker[w].pc = "wait" /\ worker[w].res = None
  /\ Answers(w, NoResult("TIMEOUT"))
  /\ UNCHANGED forward

(* What a handler that has forwarded a request may get: the leader's       *)
(* result once it has applied the entry; else that it has timed out or     *)
(* that the entry was cancelled; or no result, at any time.                *)
ForwardResults(r) ==
  {NoResult("NOT_EXIST_YET")}
    \cup {NoResult(c) : c \in {d \in {"TIMEOUT", "CANCELLED"} : forward[r] = "done"}}
    \cup {[code |-> "OK", buf |-> rc] : rc \in {x \in ReturnCodes : at[r] \in 1..commit_idx}}

forward_returns(w) ==
  /\ worker[w].pc = "forward"
  /\ \E res \in ForwardResults(worker[w].req) : Answers(w, res)
  /\ UNCHANGED forward

(* The request has reached a server that does not lead. *)
forward_refused(w) ==
  LET r == worker[w].req IN
  /\ worker[w].pc = "forward" /\ forward[r] = "sent"
  /\ forward' = [forward EXCEPT ![r] = "done"]
  /\ Answers(w, NoResult("NOT_LEADER"))

(* The server that leads appends a forwarded request; the handler that     *)
(* sent it may have answered already.                                      *)
forward_arrives(r) ==
  /\ forward[r] = "sent" /\ ~leader
  /\ forward' = [forward EXCEPT ![r] = "done"]
  /\ Appended(r)
  /\ UNCHANGED <<poolVars, registered, smVars, reqVars, answer, used>>
-----------------------------------------------------------------------------
(* The commit thread: splinterdb_state_machine::commit *)

spl_apply(db, op, rc) ==
  IF rc # 0 THEN db
  ELSE {p \in db : p[1] # op.key}
         \cup (IF op.type = DELETE THEN {} ELSE {<<op.key, op.value>>})

(* Every worker that waits without a result gets one, if it is for it. *)
Deliver(For(_), res) ==
  worker' = [w \in Worker |->
               IF worker[w].pc = "wait" /\ worker[w].res = None /\ For(worker[w])
               THEN [worker[w] EXCEPT !.res = res] ELSE worker[w]]

commit ==
  /\ last_committed_idx < commit_idx
  /\ commit_thread_initialized' = TRUE
  /\ registered' = IF commit_thread_initialized THEN registered
                                                ELSE registered \cup {CommitThread}
  /\ used' = used \cup {CommitThread}
  /\ LET idx == last_committed_idx + 1
         op == deserialize(log[idx])
     IN \E rc \in ReturnCodes :
          /\ spl' = spl_apply(spl, op, rc)
          /\ last_committed_idx' = idx
          /\ applied' = Append(applied, [op |-> op, rc |-> rc])
          /\ Deliver(LAMBDA v : v.idx = idx, [code |-> "OK", buf |-> rc])
  /\ UNCHANGED <<running, queue, raftVars, reqVars, forward, at, answer>>
-----------------------------------------------------------------------------
(* Raft *)

advance_commit ==
  /\ commit_idx < Len(log)
  /\ commit_idx' = commit_idx + 1
  /\ UNCHANGED <<poolVars, registered, smVars, log, leader, elections, reqVars, forward,
                 at, answer, used>>

(* A new leader, this server or not, has the committed entries and some of *)
(* the others.  Handlers that wait for an entry of this server are told so.*)
NewTerm(leads) ==
  /\ elections < MaxElections
  /\ leader' = leads /\ elections' = elections + 1
  /\ \E keep \in commit_idx..Len(log) :
       /\ log' = SubSeq(log, 1, keep)
       /\ at' = [r \in Request |-> IF at[r] > keep THEN 0 ELSE at[r]]
  /\ Deliver(LAMBDA v : TRUE, NoResult("CANCELLED"))
  /\ UNCHANGED <<running, queue, registered, smVars, commit_idx, reqVars, forward, answer, used>>

step_down == leader /\ NewTerm(FALSE)
become_leader == ~leader /\ NewTerm(TRUE)
other_leader == ~leader /\ NewTerm(FALSE)
-----------------------------------------------------------------------------
Handler(w) == \E r \in Request : info(w, r) \/ cache(w, r) \/ get(w, r) \/ append_log(w, r)
WorkerStep(w) ==
  \/ worker_init(w) \/ Handler(w) \/ append_returns(w) \/ append_times_out(w)
  \/ forward_returns(w) \/ forward_refused(w)

RpcNext ==
  \/ \E r \in Request, call \in Call : send(r, call)
  \/ run \/ commit
  \/ \E w \in Worker : WorkerStep(w)
  \/ \E r \in Request : forward_arrives(r)
  \/ advance_commit \/ step_down \/ become_leader \/ other_leader

RpcSpec == RpcInit /\ [][RpcNext]_vars

(* The threads of the pool are scheduled and append_entries returns when   *)
(* its timer runs out.  Raft may never commit anything.                    *)
FairRpcSpec ==
  /\ RpcSpec /\ WF_vars(run)
  /\ \A w \in Worker : WF_vars(WorkerStep(w))
-----------------------------------------------------------------------------
(* Properties *)

(* The requests that wait for an answer get one, also if all workers wait  *)
(* for entries that are never committed: a handler gives its worker back.  *)
EveryRequestAnswered ==
  LET Open == {r \in Request : sent[r] # None /\ answer[r] = None}
  IN Open # {} ~> Open = {}

(* No thread calls SplinterDB before it is registered: neither a worker    *)
(* that gets its first request nor the commit thread, which may be the     *)
(* first to run.                                                           *)
RegisteredFirst == used \subseteq registered

(* What the commit thread decodes from an entry is what its request asked  *)
(* for, whatever the lengths of the key and the value.                     *)
AppliedIsRequested ==
  \A r \in Request :
    at[r] \in DOMAIN applied => applied[at[r]].op = operation_of(sent[r])

(* The p-th of the operations ops, applied in order, has changed what is   *)
(* under key.                                                              *)
Writes(ops, p, key) == ops[p].rc = 0 /\ ops[p].op.key = key

(* vs is what the first m operations leave under key: the value of the     *)
(* last of them that changed it.                                           *)
HoldsAfter(ops, key, vs, m) ==
  \/ vs = {} /\ \A p \in 1..m : ~Writes(ops, p, key)
  \/ \E p \in 1..m :
       /\ Writes(ops, p, key) /\ \A q \in p + 1 .. m : ~Writes(ops, q, key)
       /\ vs = IF ops[p].op.type = DELETE THEN {} ELSE {ops[p].op.value}

(* A read that does not fail sees every mutation that this server appended *)
(* itself and acknowledged before the read was sent: its value is the one  *)
(* after the entries applied at that moment, and theirs are among them.    *)
(* What it acknowledged after another server appended it is committed, and *)
(* may be missing here until the commit thread gets to it.                 *)
ReadAfterAck ==
  \A r \in Request :
    sent[r] # None /\ sent[r].rpc = "get" /\ answer[r] # None =>
      /\ \A q \in before[r] :
           at[q] \in 1 .. (IF forward[q] = "none" THEN answer[r].idx ELSE commit_idx)
      /\ answer[r].rc = 0 =>
           HoldsAfter(applied, sent[r].key, answer[r].found, answer[r].idx)
=============================================================================
