------------------------ MODULE ReplicatedStoreProofs ------------------------
(***************************************************************************)
(* Proofs that the replicated store is correct for any number of servers,  *)
(* clients, keys, values, retries, operations and elections.               *)
(***************************************************************************)
EXTENDS ReplicatedStore, FiniteSetTheorems, SequenceTheorems, TLAPS

(* Every operation that was ever sent and can still matter: in the log, in *)
(* the log of a replaced leader, or in a call.                             *)
LogOps == {log[p] : p \in {q \in 1..Len(log) : IsApp(log[q])}}
Issued == LogOps \cup lost \cup {AppEntry(r.op, r.id) : r \in calls}

Busy(c) == pc[c] \in {"loop", "wait", "probe"}

(* Indices lie inside the log. *)
IndexInv ==
  /\ commit_idx <= Len(log) /\ term_start <= Len(log)
  /\ \A s \in Server : last_committed_idx[s] <= commit_idx

(* All attempts of one operation carry the same operation. *)
IssuedInv ==
  /\ \A e \in Issued : e.id.n <= n[e.id.c]
  /\ \A e \in Issued : Busy(e.id.c) /\ e.id.n = n[e.id.c]
                         => e.op = operation_of(req[e.id.c])
  /\ \A e, f \in Issued : OpOf(e.id) = OpOf(f.id) => e.op = f.op

(* The result a handler waits for comes from a committed entry. *)
AppliedInv ==
  \A r \in calls : r.stage = "applied" =>
    \E p \in 1..commit_idx : log[p] = AppEntry(r.op, r.id)
-----------------------------------------------------------------------------
(* Types *)

(* What the client module's building blocks do to the client's types. *)
LEMMA FinishType ==
  ASSUME ClientTypeOK, NEW c \in Client, finish(c), Busy(c),
         UNCHANGED <<conns, server_ids, n>>,
         leader_id' \in [Client -> Server \cup {NoServer}]
  PROVE  ClientTypeOK'
BY DEF ClientTypeOK, finish, NoProbe, Busy

LEMMA NextAttemptType ==
  ASSUME ClientTypeOK, NEW c \in Client, next_attempt(c), Busy(c),
         UNCHANGED <<conns, server_ids, n>>,
         leader_id' \in [Client -> Server \cup {NoServer}]
  PROVE  ClientTypeOK'
<1>1. CASE i[c] + 1 < NumRetries
  <2>1. /\ pc' = [pc EXCEPT ![c] = "loop"]
        /\ i' = [i EXCEPT ![c] = i[c] + 1]
        /\ probe' = [probe EXCEPT ![c] = NoProbe]
        /\ req' = req
    BY <1>1 DEF next_attempt
  <2> QED BY <2>1 DEF ClientTypeOK, NoProbe, Busy
<1>2. CASE ~(i[c] + 1 < NumRetries)
  BY <1>2, FinishType, ClientAssumption DEF ClientTypeOK, next_attempt, finish
<1> QED BY <1>1, <1>2

LEMMA AskType ==
  ASSUME ClientTypeOK, NEW c \in Client, NEW s, ask(c, s), Busy(c),
         UNCHANGED <<conns, leader_id, server_ids, n>>
  PROVE  ClientTypeOK'
<1>1. CASE finish(c)
  BY <1>1, FinishType DEF ClientTypeOK
<1>2. CASE ~finish(c)
  <2>1. PICK t \in conns[c] :
          /\ pc' = [pc EXCEPT ![c] = "probe"]
          /\ probe' = [probe EXCEPT ![c] = [srv |-> t, tries |-> 0]]
          /\ i' = i /\ req' = req
    BY <1>2 DEF ask
  <2>2. t \in Server
    BY DEF ClientTypeOK
  <2> QED BY <2>1, <2>2 DEF ClientTypeOK, Busy
<1> QED BY <1>1, <1>2

LEMMA BeginType ==
  ASSUME ClientTypeOK, NEW c \in Client, NEW r \in Request, begin(c, r)
  PROVE  ClientTypeOK'
BY DEF ClientTypeOK, begin

LEMMA ConstructType ==
  ASSUME ClientTypeOK, NEW c \in Client, NEW R \in SUBSET Server, R # {},
         NEW l \in Server \cup {NoServer}, construct(c, R, l)
  PROVE  ClientTypeOK'
<1>1. Cardinality(R) \in Nat \ {0}
  BY FS_Subset, FS_CardinalityType, FS_EmptySet, ServerAssumption
<1>2. PICK q \in [1..Cardinality(R) -> R] :
        server_ids' = [server_ids EXCEPT ![c] = q]
  BY DEF construct
<1>3. q \in Seq(Server)
  BY <1>1
<1>4. server_ids' \in [Client -> Seq(Server)]
  BY <1>2, <1>3 DEF ClientTypeOK
<1>5. q # <<>>
  BY <1>1, <1>3
<1>6. \A d \in Client : pc'[d] # "new" => server_ids'[d] # <<>>
  BY <1>2, <1>5 DEF ClientTypeOK, construct
<1> QED BY <1>4, <1>6 DEF ClientTypeOK, construct

LEMMA AnswerType ==
  ASSUME ClientTypeOK, NEW c \in Client, NEW res, answer(c, res)
  PROVE  ClientTypeOK'
<1>1. Busy(c) /\ UNCHANGED <<conns, leader_id, server_ids, n>>
  BY DEF answer, Busy
<1>2. finish(c) \/ ask(c, 0) \/ next_attempt(c)
  BY DEF answer
<1> QED BY <1>1, <1>2, FinishType, AskType, NextAttemptType DEF ClientTypeOK

LEMMA LeaderIdType ==
  ASSUME ClientTypeOK, NEW c \in Client, NEW l \in Server \cup {NoServer},
         get_leader_id_answer(c, l)
  PROVE  ClientTypeOK'
<1>1. Busy(c) /\ UNCHANGED <<conns, server_ids, n>>
  BY DEF get_leader_id_answer, Busy
<1>2. CASE l # NoServer
  <2>1. leader_id' = [leader_id EXCEPT ![c] = l] /\ next_attempt(c)
    BY <1>2 DEF get_leader_id_answer
  <2> QED BY <1>1, <2>1, NextAttemptType DEF ClientTypeOK
<1>3. CASE l = NoServer
  <2>1. leader_id' = leader_id
    BY <1>3 DEF get_leader_id_answer
  <2>2. CASE probe[c].tries + 1 < NumRetries
    <3>1. /\ probe' = [probe EXCEPT ![c] = [probe[c] EXCEPT !.tries = @ + 1]]
          /\ pc' = pc /\ i' = i /\ req' = req
      BY <1>3, <2>2 DEF get_leader_id_answer
    <3>0. probe[c] \in [srv : Server \cup {0}, tries : Nat]
      BY DEF ClientTypeOK
    <3>2. [probe[c] EXCEPT !.tries = @ + 1] \in [srv : Server \cup {0}, tries : Nat]
      BY <3>0
    <3>3. probe' \in [Client -> [srv : Server \cup {0}, tries : Nat]]
      BY <3>1, <3>2 DEF ClientTypeOK
    <3> QED BY <1>1, <2>1, <3>1, <3>3 DEF ClientTypeOK
  <2>3. CASE ~(probe[c].tries + 1 < NumRetries)
    <3>1. ask(c, probe[c].srv)
      BY <1>3, <2>3 DEF get_leader_id_answer
    <3> QED BY <1>1, <2>1, <3>1, AskType
  <2> QED BY <2>2, <2>3
<1> QED BY <1>2, <1>3

LEMMA GetType ==
  ASSUME ClientTypeOK, NEW c \in Client, get(c)
  PROVE  ClientTypeOK'
<1>0. server_ids[c] # <<>>
  BY DEF ClientTypeOK, get
<1>1. server_ids[c] \in Seq(Server)
  BY DEF ClientTypeOK
<1>2. Append(Tail(server_ids[c]), Head(server_ids[c])) \in Seq(Server)
  BY <1>0, <1>1
<1>3. server_ids' = [server_ids EXCEPT
                       ![c] = Append(Tail(server_ids[c]), Head(server_ids[c]))]
  BY DEF get, next_server
<1>4. server_ids' \in [Client -> Seq(Server)]
  BY <1>2, <1>3 DEF ClientTypeOK
<1>5. /\ n' = [n EXCEPT ![c] = n[c] + 1]
      /\ UNCHANGED <<pc, conns, leader_id, i, req, probe>>
  BY DEF get
<1>6. n' \in [Client -> Nat]
  BY <1>5 DEF ClientTypeOK
<1>7. \A d \in Client : pc[d] # "new" => server_ids'[d] # <<>>
  BY <1>2, <1>3 DEF ClientTypeOK
<1> QED BY <1>4, <1>5, <1>6, <1>7 DEF ClientTypeOK

(* NuRaft's steps. *)
LEMMA ArrangementsAreSeqs ==
  ASSUME NEW S, NEW q \in Arrangements(S)
  PROVE  /\ q \in Seq(S)
         /\ \A a, b \in 1..Len(q) : q[a] = q[b] => a = b
<1>1. PICK m \in 0..Cardinality(S) : q \in Injection(1..m, S)
  BY DEF Arrangements
<1>2. m \in Nat
  OBVIOUS
<1>3. q \in [1..m -> S]
  BY <1>1 DEF Injection, IsInjective
<1> QED BY <1>1, <1>2, <1>3 DEF Injection, IsInjective

(* The log a new leader starts from. *)
LEMMA ElectLog ==
  ASSUME RaftTypeOK, NEW keep \in commit_idx .. Len(log),
         NEW back \in Arrangements(lost),
         NEW new, new = SubSeq(log, 1, keep) \o back \o <<ConfEntry>>
  PROVE  /\ new \in Seq(Entry)
         /\ Len(new) = keep + Len(back) + 1
         /\ \A p \in 1..keep : new[p] = log[p]
         /\ \A p \in keep + 1 .. keep + Len(back) : new[p] = back[p - keep]
         /\ new[keep + Len(back) + 1] = ConfEntry
         /\ back \in Seq(lost) /\ Len(back) \in Nat /\ keep \in Nat
<1>1. back \in Seq(lost) /\ back \in Seq(Entry)
  BY ArrangementsAreSeqs DEF RaftTypeOK
<1>2. keep \in Nat /\ keep <= Len(log) /\ Len(log) \in Nat
  BY DEF RaftTypeOK
<1>3. ConfEntry \in Entry
  BY DEF Entry
<1> DEFINE pre == SubSeq(log, 1, keep)
<1>4. pre \in Seq(Entry) /\ Len(pre) = keep /\ \A p \in 1..keep : pre[p] = log[p]
  BY <1>2 DEF RaftTypeOK
<1> HIDE DEF pre
<1>5. /\ pre \o back \in Seq(Entry) /\ Len(pre \o back) = keep + Len(back)
      /\ \A p \in 1 .. keep + Len(back) :
            (pre \o back)[p] = IF p <= keep THEN pre[p] ELSE back[p - keep]
  BY <1>1, <1>4, ConcatProperties
<1> DEFINE one == <<ConfEntry>>
           old == pre \o back
<1>6. one \in Seq(Entry) /\ Len(one) = 1 /\ one[1] = ConfEntry
  BY <1>3
<1>7. new = old \o one
  BY DEF pre
<1>8. /\ old \in Seq(Entry) /\ Len(old) = keep + Len(back)
      /\ \A p \in 1 .. keep + Len(back) :
            old[p] = IF p <= keep THEN pre[p] ELSE back[p - keep]
  BY <1>5
<1> HIDE DEF one, old
<1>10. /\ old \o one \in Seq(Entry) /\ Len(old \o one) = Len(old) + Len(one)
       /\ \A p \in 1 .. Len(old) + Len(one) :
            (old \o one)[p] = IF p <= Len(old) THEN old[p] ELSE one[p - Len(old)]
  <2>1. one \in Seq(Entry) /\ old \in Seq(Entry)
    BY <1>6, <1>8
  <2> QED BY ONLY <2>1, ConcatProperties
<1>11. /\ new \in Seq(Entry) /\ Len(new) = Len(old) + Len(one)
       /\ \A p \in 1 .. Len(old) + Len(one) :
            new[p] = IF p <= Len(old) THEN old[p] ELSE one[p - Len(old)]
  BY ONLY <1>7, <1>10, Zenon
<1>12. Len(back) \in Nat
  BY <1>1
<1>13. new[keep + Len(back) + 1] = ConfEntry
  <2> DEFINE z == keep + Len(back) + 1
  <2>1. z \in 1 .. Len(old) + Len(one)
    BY <1>2, <1>6, <1>8, <1>12
  <2>2. ~(z <= Len(old)) /\ z - Len(old) = 1
    BY <1>2, <1>8, <1>12
  <2> HIDE DEF z
  <2>3. new[z] = IF z <= Len(old) THEN old[z] ELSE one[z - Len(old)]
    BY ONLY <2>1, <1>11, Zenon
  <2>4. new[z] = one[1]
    BY ONLY <2>2, <2>3, Zenon
  <2>5. new[z] = ConfEntry
    BY ONLY <2>4, <1>6, Zenon
  <2> QED BY <2>5 DEF z
<1>14. \A p \in 1 .. keep + Len(back) : new[p] = old[p]
  <2> TAKE p \in 1 .. keep + Len(back)
  <2>1. p \in 1 .. Len(old) + Len(one) /\ p <= Len(old)
    BY <1>2, <1>6, <1>8, <1>12
  <2> QED BY <2>1, <1>11
<1>15. \A p \in 1..keep : new[p] = log[p]
  BY <1>2, <1>4, <1>8, <1>12, <1>14
<1>16. \A p \in keep + 1 .. keep + Len(back) : new[p] = back[p - keep]
  <2> TAKE p \in keep + 1 .. keep + Len(back)
  <2>1. p \in 1 .. keep + Len(back) /\ ~(p <= keep)
    BY <1>2, <1>12
  <2> QED BY <2>1, <1>8, <1>14
<1> QED BY <1>1, <1>2, <1>6, <1>8, <1>12, <1>13, <1>15, <1>16, <1>11

LEMMA ElectType ==
  ASSUME RaftTypeOK, NEW s \in Server, elect(s)
  PROVE  RaftTypeOK'
<1>1. PICK keep \in commit_idx .. Len(log), back \in Arrangements(lost) :
        /\ log' = SubSeq(log, 1, keep) \o back \o <<ConfEntry>>
        /\ lost' = (lost \ Range(back))
                      \cup {log[p] : p \in {q \in keep + 1 .. Len(log) :
                                                IsApp(log[q])}}
        /\ term_start' = keep + Len(back) + 1
  BY DEF elect
<1>2. log' \in Seq(Entry) /\ Len(back) \in Nat /\ keep \in Nat
  BY <1>1, ElectLog
<1>3. term_start' \in Nat
  BY <1>1, <1>2
<1>4. lost' \subseteq {e \in Entry : IsApp(e)}
  BY <1>1, <1>2 DEF RaftTypeOK
<1>5. /\ leader' = s /\ view' = [view EXCEPT ![s] = s]
      /\ elections' = elections + 1 /\ UNCHANGED <<commit_idx, up>>
  BY DEF elect
<1> QED BY <1>2, <1>3, <1>4, <1>5 DEF RaftTypeOK

LEMMA RaftType ==
  ASSUME RaftTypeOK, Raft
  PROVE  RaftTypeOK'
<1>1. CASE advance_commit
  BY <1>1 DEF RaftTypeOK, advance_commit
<1>2. ASSUME NEW s \in Server, observe_leader(s) \/ lose_leader(s)
      PROVE  RaftTypeOK'
  BY <1>2 DEF RaftTypeOK, observe_leader, lose_leader
<1> QED BY <1>1, <1>2, ElectType DEF Raft

LEMMA AppendType ==
  ASSUME RaftTypeOK, NEW s \in Server, NEW e \in Entry, IsApp(e),
         append_entry(s, e)
  PROVE  RaftTypeOK'
BY DEF RaftTypeOK, append_entry

LEMMA CommitType ==
  ASSUME TypeOK, NEW s \in Server, Commit(s), IndexInv
  PROVE  TypeOK'
<1> DEFINE idx == last_committed_idx[s] + 1
           e == log[idx]
<1>1. idx \in 1..Len(log) /\ idx \in Nat
  <2>1. last_committed_idx[s] \in Nat /\ commit_idx \in Nat /\ Len(log) \in Nat
    BY DEF TypeOK, RaftTypeOK, SmTypeOK
  <2>2. last_committed_idx[s] < commit_idx /\ commit_idx <= Len(log)
    BY DEF IndexInv, Commit
  <2> QED BY <2>1, <2>2
<1>2. e \in Entry
  BY <1>1 DEF TypeOK, RaftTypeOK
<1>3. UNCHANGED <<raftVars, clientVars, history>>
  BY DEF Commit
<1> HIDE DEF idx, e
<1>4. CASE IsApp(e)
  <2>1. e.op \in Operation
    BY <1>2, <1>4 DEF Entry, IsApp, ConfEntry
  <2>2. PICK rc \in SplReturnCodes(s) :
          /\ commit(s, idx, e.op, rc)
          /\ calls' = {IF r.stage = "raft" /\ r.at = s /\ r.id = e.id
                       THEN [r EXCEPT !.stage = "applied", !.ret = rc]
                       ELSE r : r \in calls}
    BY <1>4 DEF Commit, idx, e
  <2>3. rc \in {SPL_OK, SPL_ERR}
    BY DEF SplReturnCodes
  <2>4. SmTypeOK'
    BY <1>1, <2>1, <2>2 DEF TypeOK, SmTypeOK, commit, SplApply, Operation
  <2>5. CallTypeOK'
    BY <1>3, <2>2, <2>3, ZenonT(30) DEF TypeOK, CallTypeOK, Call, history
  <2> QED BY <1>3, <2>4, <2>5
        DEF TypeOK, raftVars, clientVars, RaftTypeOK, ClientTypeOK
<1>5. CASE ~IsApp(e)
  <2>1. commit_config(s, idx) /\ calls' = calls
    BY <1>5 DEF Commit, idx, e
  <2>2. SmTypeOK'
    BY <1>1, <2>1 DEF TypeOK, SmTypeOK, commit_config
  <2> QED BY <1>3, <2>1, <2>2
        DEF TypeOK, raftVars, clientVars, history, RaftTypeOK, ClientTypeOK, CallTypeOK
<1> QED BY <1>4, <1>5

LEMMA ReplyType ==
  ASSUME TypeOK, NEW r \in calls, NEW res, reply(r, res)
  PROVE  ClientTypeOK' /\ acked' \subseteq [op : [c : Client, n : Nat], req : Request]
<1>1. r.id.c \in Client
  BY DEF TypeOK, CallTypeOK, Call, Id
<1>2. CASE IsWaitingFor(r)
  <2>1. pc[r.id.c] = "wait" /\ answer(r.id.c, res) /\ Told(r.id.c, res)
    BY <1>2 DEF reply, IsWaitingFor
  <2>2. req[r.id.c] \in Request /\ OpId(r.id.c) \in [c : Client, n : Nat]
    BY <1>1, <2>1 DEF TypeOK, ClientTypeOK, OpId
  <2>3. acked' \in {acked, acked \cup {[op |-> OpId(r.id.c), req |-> req[r.id.c]]}}
    BY <2>1 DEF Told
  <2> QED BY <1>1, <2>1, <2>2, <2>3, AnswerType DEF TypeOK, CallTypeOK
<1>3. CASE ~IsWaitingFor(r)
  BY <1>3 DEF reply, clientVars, TypeOK, ClientTypeOK, CallTypeOK
<1> QED BY <1>2, <1>3

(* What a step does with a call: its entry enters the log of server t, it  *)
(* is forwarded, or its handler replies, which may leave a forward adrift. *)
Enters(r, t) ==
  /\ r.stage \in {"sent", "fwd", "adrift"}
  /\ append_entry(t, AppEntry(r.op, r.id))
  /\ calls' = (calls \ {r}) \cup {w \in {Waiting(r, t)} : r.stage # "adrift"}
  /\ UNCHANGED <<smVars, clientVars, history>>

Forwards(r, t) ==
  /\ r.stage = "sent"
  /\ calls' = (calls \ {r}) \cup {[r EXCEPT !.stage = "fwd", !.at = t]}
  /\ UNCHANGED <<raftVars, smVars, clientVars, history>>

Replies(r, res) ==
  /\ r.stage # "adrift" /\ reply(r, res)
  /\ \E A \in SUBSET Adrift({r}) :
       calls' = (calls \ {r}) \cup A /\ late' = late \cup {q.id : q \in A}
  /\ UNCHANGED <<raftVars, smVars, before, got>>

Handles(r) == \/ append_log(r) \/ forward_arrives(r)
              \/ forward_refused(r) \/ handler_return(r)

LEMMA HandlerKinds ==
  ASSUME TypeOK, NEW r \in calls, Handles(r)
  PROVE  \/ \E t \in Server : Enters(r, t) \/ Forwards(r, t)
         \/ Replies(r, Refusal)
         \/ handler_return(r) /\ \E x \in RaftResults(r) : Replies(r, extract_result(x))
<1>1. r \in Call /\ r.srv \in Server /\ r.at \in Server \cup {NoServer}
  BY DEF TypeOK, CallTypeOK, Call
<1>2. ASSUME append_log(r), view[r.srv] = r.srv PROVE Enters(r, r.srv)
  <2>1. r.srv # NoServer
    BY <1>1, ServerAssumption
  <2>2. /\ append_entry(r.srv, AppEntry(r.op, r.id))
        /\ calls' = (calls \ {r}) \cup {Waiting(r, r.srv)}
        /\ UNCHANGED <<clientVars, acked, failed>>
    BY <1>2, <2>1 DEF append_log
  <2>3. r.stage = "sent" /\ UNCHANGED <<smVars, before, late, got>>
    BY <1>2 DEF append_log
  <2>4. {w \in {Waiting(r, r.srv)} : r.stage # "adrift"} = {Waiting(r, r.srv)}
    BY <2>3
  <2> QED BY <2>2, <2>3, <2>4 DEF Enters, history
<1>3. ASSUME append_log(r), view[r.srv] \in Server \ {r.srv} PROVE Forwards(r, view[r.srv])
  <2>1. view[r.srv] # NoServer
    BY <1>3, ServerAssumption
  <2>2. /\ calls' = (calls \ {r}) \cup {[r EXCEPT !.stage = "fwd", !.at = view[r.srv]]}
        /\ UNCHANGED <<raftVars, clientVars, acked, failed>>
    BY <1>3, <2>1 DEF append_log
  <2> QED BY <1>3, <2>2 DEF append_log, Forwards, history
<1>4. ASSUME append_log(r), view[r.srv] = NoServer PROVE Replies(r, Refusal)
  <2>1. NoServer \notin Server
    BY ServerAssumption
  <2>2. calls' = calls \ {r} /\ reply(r, Refusal) /\ UNCHANGED raftVars
    BY <1>1, <1>4, <2>1 DEF append_log
  <2>3. r.stage = "sent" /\ UNCHANGED <<smVars, before, late, got>>
    BY <1>4 DEF append_log
  <2>4. {} \in SUBSET Adrift({r}) /\ calls' = (calls \ {r}) \cup {}
        /\ late' = late \cup {q.id : q \in {}}
    BY <2>2, <2>3
  <2>5. \E A \in SUBSET Adrift({r}) :
          calls' = (calls \ {r}) \cup A /\ late' = late \cup {q.id : q \in A}
    BY <2>4
  <2> QED BY <2>2, <2>3, <2>5 DEF Replies
<1>5. view[r.srv] \in Server \cup {NoServer}
  BY <1>1 DEF TypeOK, RaftTypeOK
<1>6. ASSUME forward_arrives(r) PROVE r.at \in Server /\ Enters(r, r.at)
  <2>1. r.at \in Server /\ r.stage \in {"fwd", "adrift"}
    BY <1>6 DEF forward_arrives, TakesItselfForLeader, TypeOK, RaftTypeOK
  <2>2. {w \in {Waiting(r, r.at)} : r.stage # "adrift"}
          = {w \in {Waiting(r, r.at)} : r.stage = "fwd"}
    BY <2>1
  <2> QED BY <1>6, <2>1, <2>2 DEF forward_arrives, Enters
<1>7. ASSUME forward_refused(r) PROVE Replies(r, Refusal)
  <2>1. calls' = calls \ {r} /\ reply(r, Refusal) /\ UNCHANGED raftVars
        /\ r.stage = "fwd" /\ UNCHANGED <<smVars, before, late, got>>
    BY <1>7 DEF forward_refused
  <2>2. {} \in SUBSET Adrift({r}) /\ calls' = (calls \ {r}) \cup {}
        /\ late' = late \cup {q.id : q \in {}}
    BY <2>1
  <2>3. \E A \in SUBSET Adrift({r}) :
          calls' = (calls \ {r}) \cup A /\ late' = late \cup {q.id : q \in A}
    BY <2>2
  <2> QED BY <2>1, <2>3 DEF Replies
<1>8. ASSUME handler_return(r)
      PROVE  \E x \in RaftResults(r) : Replies(r, extract_result(x))
  <2>1. PICK x \in RaftResults(r) : reply(r, extract_result(x))
    BY <1>8 DEF handler_return
  <2>2. /\ r.stage # "adrift" /\ UNCHANGED <<raftVars, smVars, before, got>>
        /\ calls' = (calls \ {r}) \cup Adrift({r})
        /\ late' = late \cup {q.id : q \in Adrift({r})}
    BY <1>8 DEF handler_return
  <2> QED BY <2>1, <2>2 DEF Replies
<1> QED BY <1>2, <1>3, <1>4, <1>5, <1>6, <1>7, <1>8 DEF Handles

(* The calls a handler leaves adrift. *)
LEMMA AdriftCalls ==
  ASSUME TypeOK, NEW C \in SUBSET calls, NEW x \in Adrift(C)
  PROVE  /\ x \in Call /\ x.stage = "adrift"
         /\ \E r \in C : /\ r.stage \in {"fwd", "adrift"} /\ x.id = r.id /\ x.op = r.op
                         /\ x = [r EXCEPT !.stage = "adrift"]
                         /\ r.stage = "adrift" => x = r
<1>1. PICK r \in C : r.stage \in {"fwd", "adrift"} /\ x = [r EXCEPT !.stage = "adrift"]
  BY DEF Adrift
<1>2. r \in Call
  BY DEF TypeOK, CallTypeOK
<1>3. x \in Call /\ x.stage = "adrift" /\ x.id = r.id /\ x.op = r.op
  BY <1>1, <1>2 DEF Call
<1>4. r.stage = "adrift" => x = r
  BY <1>1, <1>2, <1>3 DEF Call
<1> QED BY <1>1, <1>3, <1>4

LEMMA WaitingType ==
  ASSUME TypeOK, NEW r \in calls, NEW t \in Server
  PROVE  /\ Waiting(r, t) \in Call /\ Waiting(r, t).id = r.id
         /\ Waiting(r, t).op = r.op /\ Waiting(r, t).stage = "raft"
         /\ [r EXCEPT !.stage = "fwd", !.at = t] \in Call
         /\ [r EXCEPT !.stage = "fwd", !.at = t].id = r.id
         /\ [r EXCEPT !.stage = "fwd", !.at = t].op = r.op
         /\ [r EXCEPT !.stage = "fwd", !.at = t].stage = "fwd"
<1> DEFINE j == IF t = leader THEN Len(log) + 1 ELSE 0
<1>1. j \in Nat /\ r \in Call
  BY DEF TypeOK, RaftTypeOK, CallTypeOK
<1>2. Waiting(r, t) = [r EXCEPT !.stage = "raft", !.at = t, !.idx = j]
  BY DEF Waiting
<1> HIDE DEF j
<1> QED BY <1>1, <1>2 DEF Call

LEMMA HandlerType ==
  ASSUME TypeOK, NEW r \in calls, Handles(r)
  PROVE  TypeOK'
<1>1. r \in Call /\ r.srv \in Server /\ r.id \in Id /\ r.id.c \in Client
  BY DEF TypeOK, CallTypeOK, Call, Id
<1>2. ASSUME NEW t \in Server, Enters(r, t)
      PROVE  TypeOK'
  <2>1. AppEntry(r.op, r.id) \in Entry /\ IsApp(AppEntry(r.op, r.id))
    BY <1>1 DEF AppEntry, Entry, IsApp, Call
  <2>2. RaftTypeOK'
    BY <1>2, <2>1, AppendType DEF TypeOK, Enters
  <2>3. CallTypeOK'
    BY <1>2, WaitingType DEF TypeOK, CallTypeOK, history, Enters
  <2> QED BY <1>2, <2>2, <2>3
        DEF Enters, TypeOK, clientVars, ClientTypeOK, smVars, SmTypeOK
<1>3. ASSUME NEW t \in Server, Forwards(r, t)
      PROVE  TypeOK'
  <2>1. CallTypeOK'
    BY <1>3, WaitingType DEF TypeOK, CallTypeOK, history, Forwards
  <2> QED BY <1>3, <2>1 DEF Forwards, TypeOK, clientVars, ClientTypeOK, smVars, SmTypeOK,
                            raftVars, RaftTypeOK
<1>4. ASSUME NEW res, Replies(r, res)
      PROVE  TypeOK'
  <2>1. ClientTypeOK' /\ acked' \subseteq [op : [c : Client, n : Nat], req : Request]
    BY <1>4, ReplyType DEF Replies
  <2>2. PICK A \in SUBSET Adrift({r}) :
          calls' = (calls \ {r}) \cup A /\ late' = late \cup {q.id : q \in A}
    BY <1>4 DEF Replies
  <2>3. \A q \in A : q \in Call /\ q.id \in Id
    BY <2>2, AdriftCalls DEF Call
  <2>4. CallTypeOK'
    BY <2>1, <2>2, <2>3 DEF TypeOK, CallTypeOK
  <2> QED BY <1>4, <2>1, <2>4 DEF Replies, TypeOK, smVars, SmTypeOK, raftVars, RaftTypeOK
<1> QED BY <1>2, <1>3, <1>4, HandlerKinds

LEMMA TypeInit == Init => TypeOK /\ IndexInv
<1> SUFFICES ASSUME Init PROVE TypeOK /\ IndexInv
  OBVIOUS
<1>1. RaftTypeOK
  BY RaftAssumption DEF Init, RaftInit, RaftTypeOK
<1>2. SmTypeOK
  BY DEF Init, SmInit, SmTypeOK
<1>3. ClientTypeOK
  BY DEF Init, ClientInit, ClientTypeOK, NoProbe
<1>4. CallTypeOK
  BY DEF Init, CallTypeOK
<1>5. IndexInv
  BY DEF Init, RaftInit, SmInit, IndexInv
<1> QED BY <1>1, <1>2, <1>3, <1>4, <1>5 DEF TypeOK

LEMMA TypeStep == TypeOK /\ IndexInv /\ [Next]_vars => TypeOK'
<1> SUFFICES ASSUME TypeOK, IndexInv, [Next]_vars PROVE TypeOK'
  OBVIOUS
<1> USE DEF TypeOK
<1>1. ASSUME NEW c \in Client, NEW host \in Server, Construct(c, host)
      PROVE  TypeOK'
  <2>1. PICK skipped \in SUBSET (Server \ up) :
          construct(c, Server \ skipped, view[host])
    BY <1>1 DEF Construct
  <2>2. /\ Server \ skipped \in SUBSET Server /\ Server \ skipped # {}
        /\ view[host] \in Server \cup {NoServer}
    BY <1>1 DEF Construct, RaftTypeOK
  <2> QED BY <1>1, <2>1, <2>2, ConstructType
        DEF Construct, raftVars, smVars, history, RaftTypeOK, SmTypeOK, CallTypeOK
<1>2. ASSUME NEW c \in Client, Begin(c)
      PROVE  TypeOK'
  <2>1. PICK r \in Request : begin(c, r)
    BY <1>2 DEF Begin, put, update, del, Request
  <2> QED BY <1>2, <2>1, BeginType
        DEF Begin, raftVars, smVars, RaftTypeOK, SmTypeOK, CallTypeOK
<1>3. ASSUME NEW c \in Client, Send(c)
      PROVE  TypeOK'
  <2>1. pc[c] = "loop" /\ leader_id[c] \in conns[c] /\ req[c] \in Request
    BY <1>3 DEF Send, call_leader, ClientTypeOK
  <2>2. operation_of(req[c]) \in Operation
    BY <2>1 DEF operation_of, Request, Operation, make_put, make_delete
  <2>3. [id |-> CallId(c), srv |-> leader_id[c], op |-> operation_of(req[c]),
         stage |-> "sent", at |-> NoServer, idx |-> 0, ret |-> 0] \in Call
    BY <2>1, <2>2 DEF Call, CallId, Id, ClientTypeOK, SPL_OK
  <2>4. CallTypeOK'
    BY <1>3, <2>3 DEF Send, CallTypeOK, history
  <2>5. ClientTypeOK'
    BY <1>3, <2>1 DEF Send, call_leader, ClientTypeOK
  <2> QED BY <1>3, <2>4, <2>5 DEF Send, raftVars, smVars, RaftTypeOK, SmTypeOK
<1>4. ASSUME NEW c \in Client, SendThrows(c) \/ RpcTimeout(c)
      PROVE  TypeOK'
  <2>1. Busy(c) /\ finish(c) /\ UNCHANGED <<conns, leader_id, server_ids, n>>
    BY <1>4 DEF SendThrows, RpcTimeout, throw, Busy
  <2>2. ClientTypeOK'
    BY <2>1, FinishType DEF ClientTypeOK
  <2>3. UNCHANGED <<raftVars, smVars, calls, history>>
    BY <1>4 DEF SendThrows, RpcTimeout
  <2> QED BY <2>2, <2>3 DEF raftVars, smVars, history, RaftTypeOK, SmTypeOK, CallTypeOK
<1>5. ASSUME NEW c \in Client, Probe(c)
      PROVE  TypeOK'
  <2>1. UNCHANGED <<raftVars, smVars, calls, acked, late>> /\ pc[c] = "probe"
    BY <1>5 DEF Probe, get_leader_id_answer, get_leader_id_fails
  <2>2. ClientTypeOK'
    <3>1. CASE probe[c].srv \in up /\ get_leader_id_answer(c, view[probe[c].srv])
      <4>2. view[probe[c].srv] \in Server \cup {NoServer}
        BY <3>1 DEF RaftTypeOK
      <4> QED BY <3>1, <4>2, LeaderIdType
    <3>2. CASE get_leader_id_fails(c)
      <4>2. Busy(c) /\ ask(c, probe[c].srv) /\ UNCHANGED <<conns, leader_id, server_ids, n>>
        BY <2>1, <3>2 DEF get_leader_id_fails, Busy
      <4> QED BY <4>2, AskType
    <3> QED BY <1>5, <3>1, <3>2 DEF Probe
  <2> QED BY <2>1, <2>2 DEF raftVars, smVars, RaftTypeOK, SmTypeOK, CallTypeOK
<1>6. ASSUME NEW c \in Client, NEW k \in Key, Get(c, k)
      PROVE  TypeOK'
  BY <1>6, GetType DEF Get, raftVars, smVars, RaftTypeOK, SmTypeOK, CallTypeOK
<1>7. ASSUME NEW r \in calls, Handles(r)
      PROVE  TypeOK'
  BY <1>7, HandlerType
<1>8. ASSUME NEW s \in Server, Stop(s)
      PROVE  TypeOK'
  <2> DEFINE C == {r \in calls : r.srv = s}
  <2>1. /\ UNCHANGED <<smVars, clientVars, acked>>
        /\ calls' = (calls \ C) \cup Adrift(C) /\ late' = late \cup {r.id : r \in Adrift(C)}
    BY <1>8 DEF Stop
  <2>2. RaftTypeOK'
    BY <1>8 DEF Stop, stop, RaftTypeOK
  <2>3. C \in SUBSET calls
    OBVIOUS
  <2> HIDE DEF C
  <2>4. \A x \in Adrift(C) : x \in Call /\ x.id \in Id
    BY <2>3, AdriftCalls DEF Call
  <2>5. CallTypeOK'
    BY <2>1, <2>4 DEF CallTypeOK
  <2> QED BY <2>1, <2>2, <2>5 DEF smVars, clientVars, SmTypeOK, ClientTypeOK
<1>9. CASE Raft
  BY <1>9, RaftType
     DEF Raft, smVars, clientVars, history, SmTypeOK, ClientTypeOK, CallTypeOK
<1>10. CASE UNCHANGED vars
  BY <1>10 DEF vars, raftVars, smVars, clientVars, history,
               RaftTypeOK, SmTypeOK, ClientTypeOK, CallTypeOK
<1> QED
  BY <1>1, <1>2, <1>3, <1>4, <1>5, <1>6, <1>7, <1>8, <1>9, <1>10,
     CommitType DEF Next, Handles
-----------------------------------------------------------------------------
(* The committed prefix of the log *)

(* What is committed stays committed, at the same index. *)
PrefixKept ==
  /\ commit_idx <= commit_idx'
  /\ \A p \in 1..commit_idx : log'[p] = log[p]

(* The steps that change the log, the commit index or a replica. *)
LEMMA StepKinds ==
  ASSUME TypeOK, Next
  PROVE  \/ \E r \in calls, t \in Server : Enters(r, t) /\ UNCHANGED smVars
         \/ \E s \in Server : Commit(s) /\ UNCHANGED raftVars
         \/ \E s \in Server : elect(s) /\ UNCHANGED <<smVars, calls>>
         \/ advance_commit /\ UNCHANGED <<smVars, calls>>
         \/ UNCHANGED <<log, lost, commit_idx, term_start, smVars>>
<1>1. ASSUME NEW r \in calls, Handles(r)
      PROVE  \/ \E t \in Server : Enters(r, t) /\ UNCHANGED smVars
             \/ UNCHANGED <<raftVars, smVars>>
  BY <1>1, HandlerKinds DEF Enters, Forwards, Replies
<1>2. CASE \E r \in calls : Handles(r)
  BY <1>1, <1>2 DEF raftVars
<1>3. CASE ~\E r \in calls : Handles(r)
  BY <1>3, ZenonT(30)
     DEF Next, Handles, Construct, Begin, Send, SendThrows, RpcTimeout, Probe, Get,
         Commit, Stop, stop, Raft, observe_leader, lose_leader, raftVars, smVars
<1> QED BY <1>2, <1>3

LEMMA ElectPrefix ==
  ASSUME TypeOK, IndexInv, NEW s \in Server, elect(s), UNCHANGED smVars
  PROVE  IndexInv' /\ PrefixKept
<1>1. PICK keep \in commit_idx .. Len(log), back \in Arrangements(lost) :
        /\ log' = SubSeq(log, 1, keep) \o back \o <<ConfEntry>>
        /\ term_start' = keep + Len(back) + 1
  BY DEF elect
<1>2. /\ Len(log') = keep + Len(back) + 1 /\ Len(back) \in Nat /\ keep \in Nat
      /\ \A p \in 1..keep : log'[p] = log[p]
  BY <1>1, ElectLog DEF TypeOK
<1>3. commit_idx' = commit_idx /\ commit_idx \in Nat /\ commit_idx <= keep
  BY DEF elect, TypeOK, RaftTypeOK
<1> QED BY <1>1, <1>2, <1>3 DEF IndexInv, PrefixKept, smVars

LEMMA IndexStep ==
  ASSUME TypeOK, IndexInv, [Next]_vars
  PROVE  IndexInv' /\ PrefixKept
<1>1. commit_idx \in Nat /\ term_start \in Nat /\ Len(log) \in Nat /\ log \in Seq(Entry)
  BY DEF TypeOK, RaftTypeOK
<1>2. ASSUME NEW r \in calls, NEW t \in Server, Enters(r, t), UNCHANGED smVars
      PROVE  IndexInv' /\ PrefixKept
  <2>1. UNCHANGED <<commit_idx, term_start>>
    BY <1>2 DEF Enters, append_entry
  <2>2. log' = log \/ log' = Append(log, AppEntry(r.op, r.id))
    BY <1>2 DEF Enters, append_entry
  <2> QED BY <1>1, <1>2, <2>1, <2>2 DEF smVars, IndexInv, PrefixKept
<1>3. ASSUME NEW s \in Server, Commit(s), UNCHANGED raftVars
      PROVE  IndexInv' /\ PrefixKept
  <2>1. last_committed_idx' = [last_committed_idx EXCEPT ![s] = last_committed_idx[s] + 1]
    BY <1>3 DEF Commit, commit, commit_config
  <2>2. last_committed_idx[s] < commit_idx /\ last_committed_idx \in [Server -> Nat]
    BY <1>3 DEF Commit, TypeOK, SmTypeOK
  <2> QED BY <1>1, <1>3, <2>1, <2>2 DEF raftVars, IndexInv, PrefixKept
<1>4. CASE advance_commit /\ UNCHANGED smVars
  <2>1. PICK m \in commit_idx + 1 .. Len(log) : commit_idx' = m
    BY <1>4 DEF advance_commit
  <2>2. UNCHANGED <<log, term_start, last_committed_idx>>
    BY <1>4 DEF advance_commit, smVars
  <2>3. \A s \in Server : last_committed_idx[s] \in Nat
    BY DEF TypeOK, SmTypeOK
  <2> QED BY <1>1, <2>1, <2>2, <2>3 DEF IndexInv, PrefixKept
<1>5. CASE UNCHANGED <<log, lost, commit_idx, term_start, smVars>>
  BY <1>1, <1>5 DEF IndexInv, PrefixKept, smVars
<1> QED BY <1>2, <1>3, <1>4, <1>5, ElectPrefix, StepKinds DEF vars, raftVars

(* The types of all variables, for every step of every actor. *)
THEOREM TypeCorrect == Spec => []TypeOK
<1>1. TypeOK /\ IndexInv /\ [Next]_vars => (TypeOK /\ IndexInv)'
  BY TypeStep, IndexStep
<1> QED BY <1>1, TypeInit, PTL DEF Spec

LEMMA IndexCorrect == Spec => [](TypeOK /\ IndexInv)
<1>1. TypeOK /\ IndexInv /\ [Next]_vars => (TypeOK /\ IndexInv)'
  BY TypeStep, IndexStep
<1> QED BY <1>1, TypeInit, PTL DEF Spec
-----------------------------------------------------------------------------
(* Replicas *)

(* What a committed prefix leaves under a key does not change any more. *)
LEMMA HoldsKept ==
  ASSUME NEW lg, NEW new, NEW k, NEW v, NEW m \in Nat, HoldsAfter(lg, k, v, m),
         \A p \in 1..m : new[p] = lg[p]
  PROVE  HoldsAfter(new, k, v, m)
<1>1. \A p \in 1..m : Writes(new, p, k) <=> Writes(lg, p, k)
  BY DEF Writes, IsApp
<1>2. CASE v = NotFound /\ \A p \in 1..m : ~Writes(lg, p, k)
  BY <1>1, <1>2 DEF HoldsAfter
<1>3. CASE \E p \in 1..m : /\ Writes(lg, p, k) /\ v = lg[p].op.value
                           /\ \A q \in p + 1 .. m : ~Writes(lg, q, k)
  <2>1. PICK p \in 1..m : /\ Writes(lg, p, k) /\ v = lg[p].op.value
                          /\ \A q \in p + 1 .. m : ~Writes(lg, q, k)
    BY <1>3
  <2>2. /\ Writes(new, p, k) /\ v = new[p].op.value
        /\ \A q \in p + 1 .. m : ~Writes(new, q, k)
    BY <1>1, <2>1
  <2> QED BY <2>2 DEF HoldsAfter
<1> QED BY <1>2, <1>3 DEF HoldsAfter

(* One more entry. *)
LEMMA HoldsNext ==
  ASSUME NEW lg, NEW k, NEW v, NEW m \in Nat, HoldsAfter(lg, k, v, m)
  PROVE  /\ Writes(lg, m + 1, k) => HoldsAfter(lg, k, lg[m + 1].op.value, m + 1)
         /\ ~Writes(lg, m + 1, k) => HoldsAfter(lg, k, v, m + 1)
<1>1. ASSUME Writes(lg, m + 1, k)
      PROVE  HoldsAfter(lg, k, lg[m + 1].op.value, m + 1)
  <2>1. m + 1 \in 1 .. m + 1 /\ \A q \in (m + 1) + 1 .. m + 1 : FALSE
    OBVIOUS
  <2> QED BY <1>1, <2>1 DEF HoldsAfter
<1>2. ASSUME ~Writes(lg, m + 1, k)
      PROVE  HoldsAfter(lg, k, v, m + 1)
  <2>1. \A p \in 1 .. m + 1 : p \in 1..m \/ p = m + 1
    OBVIOUS
  <2>2. CASE v = NotFound /\ \A p \in 1..m : ~Writes(lg, p, k)
    BY <1>2, <2>1, <2>2 DEF HoldsAfter
  <2>3. CASE \E p \in 1..m : /\ Writes(lg, p, k) /\ v = lg[p].op.value
                             /\ \A q \in p + 1 .. m : ~Writes(lg, q, k)
    <3>1. PICK p \in 1..m : /\ Writes(lg, p, k) /\ v = lg[p].op.value
                            /\ \A q \in p + 1 .. m : ~Writes(lg, q, k)
      BY <2>3
    <3>2. p \in 1 .. m + 1 /\ \A q \in p + 1 .. m + 1 : ~Writes(lg, q, k)
      BY <1>2, <3>1
    <3> QED BY <3>1, <3>2 DEF HoldsAfter
  <2> QED BY <2>2, <2>3 DEF HoldsAfter
<1> QED BY <1>1, <1>2

LEMMA ReplayStep ==
  ASSUME TypeOK, IndexInv, ReplicaIsReplay, [Next]_vars
  PROVE  ReplicaIsReplay'
<1>1. IndexInv' /\ PrefixKept
  BY IndexStep
<1>2. commit_idx \in Nat /\ last_committed_idx \in [Server -> Nat]
  BY DEF TypeOK, RaftTypeOK, SmTypeOK
<1> SUFFICES ASSUME NEW t \in Server \ Faulty, NEW k \in Key
             PROVE  HoldsAfter(log', k, spl'[t][k], last_committed_idx'[t])
  BY <1>1 DEF IndexInv, ReplicaIsReplay
<1> DEFINE m == last_committed_idx[t]
<1>3. m \in Nat /\ m <= commit_idx /\ HoldsAfter(log, k, spl[t][k], m)
  BY <1>2 DEF ReplicaIsReplay
<1>4. HoldsAfter(log', k, spl[t][k], m)
  BY <1>1, <1>2, <1>3, HoldsKept DEF PrefixKept
<1>5. CASE spl'[t] = spl[t] /\ last_committed_idx'[t] = last_committed_idx[t]
  BY <1>4, <1>5
<1>6. CASE Commit(t)
  <2>1. log' = log
    BY <1>6 DEF Commit, raftVars
  <2>2. CASE IsApp(log[m + 1])
    <3>1. commit(t, m + 1, log[m + 1].op, SPL_OK)
      BY <1>6, <2>2 DEF Commit, SplReturnCodes
    <3>2. /\ last_committed_idx'[t] = m + 1
          /\ spl'[t] = [spl[t] EXCEPT ![log[m + 1].op.key] = log[m + 1].op.value]
      BY <3>1 DEF commit, SplApply, TypeOK, SmTypeOK
    <3>3. spl'[t][k] = IF Writes(log, m + 1, k) THEN log[m + 1].op.value ELSE spl[t][k]
      BY <2>2, <3>2 DEF Writes, TypeOK, SmTypeOK
    <3> QED BY <1>3, <2>1, <3>2, <3>3, HoldsNext
  <2>3. CASE ~IsApp(log[m + 1])
    <3>1. commit_config(t, m + 1)
      BY <1>6, <2>3 DEF Commit
    <3>2. last_committed_idx'[t] = m + 1 /\ spl' = spl
      BY <3>1 DEF commit_config, TypeOK, SmTypeOK
    <3>3. ~Writes(log, m + 1, k)
      BY <2>3 DEF Writes
    <3> QED BY <1>3, <2>1, <3>2, <3>3, HoldsNext
  <2> QED BY <2>2, <2>3
<1>7. ASSUME NEW s \in Server, s # t, Commit(s)
      PROVE  spl'[t] = spl[t] /\ last_committed_idx'[t] = last_committed_idx[t]
  BY <1>7 DEF Commit, commit, commit_config, TypeOK, SmTypeOK
<1>8. CASE UNCHANGED smVars
  BY <1>5, <1>8 DEF smVars
<1> QED BY <1>5, <1>6, <1>7, <1>8, StepKinds DEF vars

(* Replicas whose SplinterDB does not fail are the replay of the log up to *)
(* their commit index, and so agree wherever their indices do.             *)
THEOREM ReplayCorrect == Spec => []ReplicaIsReplay
<1>1. Init => ReplicaIsReplay
  <2> SUFFICES ASSUME Init PROVE ReplicaIsReplay
    OBVIOUS
  <2>1. commit_idx = 0 /\ \A s \in Server : last_committed_idx[s] = 0
    BY DEF Init, RaftInit, SmInit
  <2>2. \A s \in Server, k \in Key : spl[s][k] = NotFound
    BY DEF Init, SmInit
  <2> QED BY <2>1, <2>2 DEF ReplicaIsReplay, HoldsAfter
<1>2. ReplicaIsReplay /\ (TypeOK /\ IndexInv) /\ [Next]_vars => ReplicaIsReplay'
  BY ReplayStep
<1> QED BY <1>1, <1>2, IndexCorrect, PTL DEF Spec
-----------------------------------------------------------------------------
(* How a client moves *)

Still(c) == /\ pc'[c] = pc[c] /\ n'[c] = n[c]
            /\ Busy(c) => i'[c] = i[c] /\ req'[c] = req[c]
Ends(c) == /\ ~Busy(c)' /\ n'[c] \in {n[c], n[c] + 1}
Begins(c) == pc[c] = "idle" /\ pc'[c] = "loop" /\ n'[c] = n[c] + 1 /\ i'[c] = 0
Sends(c) == /\ pc[c] = "loop" /\ pc'[c] = "wait"
            /\ n'[c] = n[c] /\ i'[c] = i[c] /\ req'[c] = req[c]
Asks(c) == /\ pc[c] = "wait" /\ pc'[c] = "probe"
           /\ n'[c] = n[c] /\ i'[c] = i[c] /\ req'[c] = req[c]
Retries(c) == /\ pc[c] \in {"wait", "probe"} /\ pc'[c] = "loop"
              /\ n'[c] = n[c] /\ i'[c] = i[c] + 1 /\ req'[c] = req[c]
              /\ i'[c] < NumRetries

(* The answer to an RPC, or to one of get_leader_id. *)
Answered(c) == Ends(c) \/ Asks(c) \/ Retries(c)

LEMMA FinishMove ==
  ASSUME ClientTypeOK, NEW c \in Client, finish(c), UNCHANGED n
  PROVE  Ends(c) /\ \A d \in Client \ {c} : Still(d)
BY DEF ClientTypeOK, finish, Ends, Still, Busy

LEMMA AttemptMove ==
  ASSUME ClientTypeOK, NEW c \in Client, next_attempt(c), UNCHANGED n,
         pc[c] \in {"wait", "probe"}
  PROVE  (Ends(c) \/ Retries(c)) /\ \A d \in Client \ {c} : Still(d)
<1>1. CASE i[c] + 1 < NumRetries
  <2>1. /\ pc' = [pc EXCEPT ![c] = "loop"]
        /\ i' = [i EXCEPT ![c] = i[c] + 1] /\ req' = req
    BY <1>1 DEF next_attempt
  <2> QED BY <1>1, <2>1 DEF ClientTypeOK, Retries, Still, Busy
<1>2. CASE ~(i[c] + 1 < NumRetries)
  BY <1>2, FinishMove DEF next_attempt
<1> QED BY <1>1, <1>2

LEMMA AskMove ==
  ASSUME ClientTypeOK, NEW c \in Client, NEW s, ask(c, s), UNCHANGED n,
         pc[c] \in {"wait", "probe"}
  PROVE  /\ Ends(c) \/ (IF pc[c] = "wait" THEN Asks(c) ELSE Still(c))
         /\ \A d \in Client \ {c} : Still(d)
<1>1. CASE finish(c)
  BY <1>1, FinishMove
<1>2. CASE ~finish(c)
  <2>1. /\ pc' = [pc EXCEPT ![c] = "probe"] /\ i' = i /\ req' = req
    BY <1>2 DEF ask
  <2> QED BY <2>1 DEF ClientTypeOK, Asks, Still, Busy
<1> QED BY <1>1, <1>2

LEMMA AnswerMove ==
  ASSUME ClientTypeOK, NEW c \in Client, NEW res, answer(c, res)
  PROVE  /\ pc[c] = "wait" /\ Answered(c) /\ \A d \in Client \ {c} : Still(d)
         /\ was_accepted(res) => Ends(c)
<1>1. pc[c] = "wait" /\ n' = n
  BY DEF answer
<1>2. finish(c) \/ ask(c, 0) \/ next_attempt(c)
  BY DEF answer
<1>3. was_accepted(res) => finish(c)
  BY DEF answer, was_accepted, leader_changed, OK, CMD_RESULT_NOT_LEADER,
         CMD_RESULT_REQUEST_CANCELLED
<1> QED BY <1>1, <1>2, <1>3, FinishMove, AskMove, AttemptMove DEF Answered

LEMMA ProbeMove ==
  ASSUME ClientTypeOK, NEW c \in Client, Probe(c)
  PROVE  /\ pc[c] = "probe" /\ (Ends(c) \/ Retries(c) \/ Still(c))
         /\ \A d \in Client \ {c} : Still(d)
<1>1. pc[c] = "probe"
  BY DEF Probe, get_leader_id_answer, get_leader_id_fails
<1>2. CASE get_leader_id_answer(c, view[probe[c].srv])
  <2>1. \/ next_attempt(c) \/ ask(c, probe[c].srv) \/ UNCHANGED <<pc, i, req>>
    BY <1>2 DEF get_leader_id_answer
  <2>2. n' = n
    BY <1>2 DEF get_leader_id_answer
  <2>3. CASE UNCHANGED <<pc, i, req>>
    BY <1>1, <2>2, <2>3 DEF Still
  <2> QED BY <1>1, <2>1, <2>2, <2>3, AttemptMove, AskMove
<1>3. CASE get_leader_id_fails(c)
  BY <1>1, <1>3, AskMove DEF get_leader_id_fails
<1> QED BY <1>1, <1>2, <1>3 DEF Probe

LEMMA ReplyMove ==
  ASSUME TypeOK, NEW r \in calls, NEW res, reply(r, res)
  PROVE  /\ r.id.c \in Client
         /\ IsWaitingFor(r) =>
              /\ pc[r.id.c] = "wait" /\ Answered(r.id.c)
              /\ \A d \in Client \ {r.id.c} : Still(d)
         /\ ~IsWaitingFor(r) => UNCHANGED <<clientVars, acked, failed>>
<1>1. r.id.c \in Client
  BY DEF TypeOK, CallTypeOK, Call, Id
<1> QED BY <1>1, AnswerMove DEF TypeOK, reply

(* Every step of the system, seen from one client. *)
LEMMA ClientMoves ==
  ASSUME TypeOK, [Next]_vars, NEW d \in Client
  PROVE  \/ Still(d) \/ Ends(d) \/ Begins(d) \/ Sends(d) \/ Answered(d)
<1>0. ClientTypeOK
  BY DEF TypeOK
<1>1. CASE UNCHANGED clientVars
  BY <1>1 DEF clientVars, Still
<1>2. ASSUME NEW c \in Client, NEW host \in Server, Construct(c, host)
      PROVE  Still(d) \/ Ends(d)
  BY <1>0, <1>2 DEF Construct, construct, ClientTypeOK, Still, Ends, Busy
<1>3. ASSUME NEW c \in Client, Begin(c)
      PROVE  Still(d) \/ Begins(d)
  <2>1. PICK r : begin(c, r)
    BY <1>3 DEF Begin, put, update, del
  <2> QED BY <1>0, <2>1 DEF begin, ClientTypeOK, Still, Begins, Busy
<1>4. ASSUME NEW c \in Client, Send(c)
      PROVE  Still(d) \/ Sends(d)
  BY <1>0, <1>4 DEF Send, call_leader, ClientTypeOK, Still, Sends, Busy
<1>5. ASSUME NEW c \in Client, SendThrows(c) \/ RpcTimeout(c)
      PROVE  Still(d) \/ Ends(d)
  <2>1. finish(c) /\ n' = n
    BY <1>5 DEF SendThrows, RpcTimeout, throw
  <2> QED BY <1>0, <2>1, FinishMove
<1>6. ASSUME NEW c \in Client, Probe(c)
      PROVE  Still(d) \/ Answered(d) \/ Ends(d)
  BY <1>0, <1>6, ProbeMove DEF Answered
<1>7. ASSUME NEW c \in Client, NEW k \in Key, Get(c, k)
      PROVE  Still(d) \/ Ends(d)
  BY <1>0, <1>7 DEF Get, get, ClientTypeOK, Still, Ends, Busy
<1>8. ASSUME NEW r \in calls, Handles(r)
      PROVE  Still(d) \/ Answered(d)
  <2>1. \/ UNCHANGED clientVars
        \/ \E res : reply(r, res)
    BY <1>8, HandlerKinds DEF Enters, Forwards, Replies
  <2> QED BY <1>1, <2>1, ReplyMove DEF clientVars, Still
<1>9. ASSUME NEW s \in Server, Commit(s) \/ Stop(s)
      PROVE  UNCHANGED clientVars
  BY <1>9 DEF Commit, Stop
<1>10. CASE Raft
  BY <1>1, <1>10 DEF Raft
<1>11. CASE UNCHANGED vars
  BY <1>1, <1>11 DEF vars
<1> QED BY <1>1, <1>2, <1>3, <1>4, <1>5, <1>6, <1>7, <1>8, <1>9, <1>10, <1>11
      DEF Next, Handles
-----------------------------------------------------------------------------
(* What is issued *)

Entries == LogOps \cup lost
CallOps == {AppEntry(r.op, r.id) : r \in calls}

LEMMA IssuedTypes ==
  ASSUME TypeOK, NEW e \in Issued
  PROVE  /\ e \in Entry /\ IsApp(e) /\ e.op \in Operation /\ e.id \in Id
         /\ e = AppEntry(e.op, e.id) /\ e.id.c \in Client /\ e.id.n \in Nat
         /\ e.id.i \in Nat
<1>1. e \in Entry /\ IsApp(e)
  BY DEF Issued, LogOps, TypeOK, RaftTypeOK, CallTypeOK, Call, AppEntry, IsApp, Entry
<1>2. e \in [kind : {"app"}, op : Operation, id : Id]
  BY <1>1 DEF Entry, IsApp, ConfEntry
<1> QED BY <1>1, <1>2 DEF Id, AppEntry

(* An election moves entries around and makes none. *)
LEMMA ElectEntries ==
  ASSUME TypeOK, NEW s \in Server, elect(s)
  PROVE  Entries' \subseteq Entries
<1>1. PICK keep \in commit_idx .. Len(log), back \in Arrangements(lost) :
        /\ log' = SubSeq(log, 1, keep) \o back \o <<ConfEntry>>
        /\ lost' = (lost \ Range(back))
                      \cup {log[p] : p \in {q \in keep + 1 .. Len(log) :
                                                IsApp(log[q])}}
  BY DEF elect
<1>2. /\ Len(log') = keep + Len(back) + 1
      /\ \A p \in 1..keep : log'[p] = log[p]
      /\ \A p \in keep + 1 .. keep + Len(back) : log'[p] = back[p - keep]
      /\ log'[keep + Len(back) + 1] = ConfEntry
      /\ back \in Seq(lost) /\ Len(back) \in Nat /\ keep \in Nat
  BY <1>1, ElectLog, ZenonT(30) DEF TypeOK
<1>3. keep <= Len(log) /\ Len(log) \in Nat
  BY <1>1 DEF TypeOK, RaftTypeOK
<1>4. lost' \subseteq Entries
  BY <1>1, <1>2, <1>3 DEF Entries, LogOps
<1>5. ASSUME NEW p \in 1..Len(log'), IsApp(log'[p])
      PROVE  log'[p] \in Entries
  <2>1. CASE p \in 1..keep
    BY <1>2, <1>3, <1>5, <2>1 DEF Entries, LogOps
  <2>2. CASE p \in keep + 1 .. keep + Len(back)
    <3>1. p - keep \in 1..Len(back)
      BY <1>2, <2>2
    <3>2. back[p - keep] \in lost
      BY <1>2, <3>1
    <3> QED BY <1>2, <2>2, <3>2 DEF Entries
  <2>3. CASE p = keep + Len(back) + 1
    BY <1>2, <1>5, <2>3 DEF IsApp, ConfEntry
  <2> QED BY <1>2, <2>1, <2>2, <2>3
<1> QED BY <1>4, <1>5 DEF Entries, LogOps

LEMMA AppendEntries ==
  ASSUME TypeOK, NEW t \in Server, NEW e, append_entry(t, e)
  PROVE  Entries' \subseteq Entries \cup {e}
<1>1. lost' \subseteq lost \cup {e}
  BY DEF append_entry
<1>2. CASE log' = log
  BY <1>1, <1>2 DEF Entries, LogOps
<1>3. CASE log' = Append(log, e)
  <2>1. /\ log \in Seq(Entry) /\ Len(log) \in Nat /\ Len(log') = Len(log) + 1
        /\ \A p \in 1..Len(log) : log'[p] = log[p]
        /\ log'[Len(log) + 1] = e
    BY <1>3 DEF TypeOK, RaftTypeOK
  <2> QED BY <1>1, <2>1 DEF Entries, LogOps
<1> QED BY <1>2, <1>3 DEF append_entry

(* The calls and entries of a step other than Send come from those before. *)
LEMMA EntriesStep ==
  ASSUME TypeOK, [Next]_vars
  PROVE  \/ Entries' \subseteq Entries
         \/ \E r \in calls, t \in Server :
              Enters(r, t) /\ Entries' \subseteq Entries \cup {AppEntry(r.op, r.id)}
<1>1. ASSUME NEW r \in calls, NEW t \in Server, Enters(r, t)
      PROVE  Entries' \subseteq Entries \cup {AppEntry(r.op, r.id)}
  BY <1>1, AppendEntries DEF Enters
<1>2. CASE advance_commit
  BY <1>2 DEF advance_commit, Entries, LogOps
<1>3. CASE UNCHANGED <<log, lost>>
  BY <1>3 DEF Entries, LogOps
<1> QED BY <1>1, <1>2, <1>3, ElectEntries, StepKinds DEF vars, raftVars

NewCall(c) == [id |-> CallId(c), srv |-> leader_id[c], op |-> operation_of(req[c]),
               stage |-> "sent", at |-> NoServer, idx |-> 0, ret |-> 0]

(* What a step other than Send may turn call r into: a call with the same  *)
(* id and operation.  A forward that is adrift is not touched.             *)
Becomes(r, x) ==
  /\ x.id = r.id /\ x.op = r.op
  /\ x.stage = "sent" => x = r
  /\ x.stage = "fwd" => r.stage \in {"sent", "fwd"}
  /\ r.stage = "adrift" => x = r
  /\ x.stage = "adrift" => r.stage \in {"fwd", "adrift"} /\ (x = r \/ x.id \in late')

(* Where the calls of the next state come from. *)
CallsMapped ==
  \E f \in [calls -> Call] : /\ calls' \subseteq {f[r] : r \in calls}
                             /\ \A r \in calls : Becomes(r, f[r])

LEMMA OneBecomes ==
  ASSUME TypeOK, NEW r \in calls, NEW g \in Call, Becomes(r, g),
         calls' \subseteq (calls \ {r}) \cup {g}
  PROVE  CallsMapped
<1> DEFINE f == [x \in calls |-> IF x = r THEN g ELSE x]
<1>1. f \in [calls -> Call]
  BY DEF TypeOK, CallTypeOK
<1>2. \A x \in calls : Becomes(x, f[x])
  BY DEF Becomes
<1>3. calls' \subseteq {f[x] : x \in calls}
  OBVIOUS
<1> HIDE DEF f
<1> QED BY <1>1, <1>2, <1>3 DEF CallsMapped

LEMMA NoneBecomes ==
  ASSUME TypeOK, calls' \subseteq calls
  PROVE  CallsMapped
<1> DEFINE f == [x \in calls |-> x]
<1>1. f \in [calls -> Call]
  BY DEF TypeOK, CallTypeOK
<1>2. \A x \in calls : Becomes(x, f[x])
  BY DEF Becomes
<1>3. calls' \subseteq {f[x] : x \in calls}
  OBVIOUS
<1> HIDE DEF f
<1> QED BY <1>1, <1>2, <1>3 DEF CallsMapped

LEMMA CallsStep ==
  ASSUME TypeOK, [Next]_vars
  PROVE  \/ \E c \in Client : Send(c) /\ calls' = calls \cup {NewCall(c)}
         \/ CallsMapped
<1>0. calls \subseteq Call
  BY DEF TypeOK, CallTypeOK
<1>2. ASSUME NEW r \in calls, Handles(r)
      PROVE  CallsMapped
  <2>1. ASSUME NEW t \in Server, Enters(r, t) PROVE CallsMapped
    <3>1. CASE r.stage = "adrift"
      BY <2>1, <3>1, NoneBecomes DEF Enters
    <3>2. CASE r.stage # "adrift"
      <4>1. Becomes(r, Waiting(r, t)) /\ Waiting(r, t) \in Call
        BY <3>2, WaitingType DEF Becomes
      <4> QED BY <2>1, <4>1, OneBecomes DEF Enters
    <3> QED BY <3>1, <3>2
  <2>2. ASSUME NEW t \in Server, Forwards(r, t) PROVE CallsMapped
    <3> DEFINE g == [r EXCEPT !.stage = "fwd", !.at = t]
    <3>1. g \in Call /\ g.id = r.id /\ g.op = r.op /\ g.stage = "fwd"
      BY WaitingType
    <3>2. calls' = (calls \ {r}) \cup {g} /\ r.stage = "sent"
      BY <2>2 DEF Forwards
    <3> HIDE DEF g
    <3>3. Becomes(r, g)
      BY <3>1, <3>2 DEF Becomes
    <3> QED BY <3>1, <3>2, <3>3, OneBecomes
  <2>3. ASSUME NEW res, Replies(r, res) PROVE CallsMapped
    <3>1. PICK A \in SUBSET Adrift({r}) :
            calls' = (calls \ {r}) \cup A /\ late' = late \cup {q.id : q \in A}
      BY <2>3 DEF Replies
    <3>2. CASE A = {}
      BY <3>1, <3>2, NoneBecomes
    <3>3. ASSUME NEW g \in A PROVE CallsMapped
      <4>1. g \in Call /\ g.stage = "adrift" /\ g = [r EXCEPT !.stage = "adrift"]
            /\ g.id = r.id /\ g.op = r.op /\ r.stage \in {"fwd", "adrift"}
        BY <3>1, AdriftCalls
      <4>2. A \subseteq {g}
        BY <3>1, <4>1, AdriftCalls
      <4>3. r.stage # "adrift" /\ g.id \in late'
        BY <2>3, <3>1 DEF Replies
      <4>4. Becomes(r, g)
        BY <4>1, <4>3 DEF Becomes
      <4> QED BY <3>1, <4>1, <4>2, <4>4, OneBecomes
    <3> QED BY <3>2, <3>3
  <2> QED BY <1>2, <2>1, <2>2, <2>3, HandlerKinds
<1>3. ASSUME NEW s \in Server, Commit(s)
      PROVE  CallsMapped
  <2>1. CASE calls' = calls
    BY <2>1, NoneBecomes
  <2>2. ASSUME NEW e, NEW rc \in {SPL_OK, SPL_ERR},
               calls' = {IF r.stage = "raft" /\ r.at = s /\ r.id = e.id
                         THEN [r EXCEPT !.stage = "applied", !.ret = rc]
                         ELSE r : r \in calls}
        PROVE  CallsMapped
    <3> DEFINE f == [r \in calls |-> IF r.stage = "raft" /\ r.at = s /\ r.id = e.id
                                     THEN [r EXCEPT !.stage = "applied", !.ret = rc]
                                     ELSE r]
    <3>1. ASSUME NEW r \in calls
          PROVE  /\ [r EXCEPT !.stage = "applied", !.ret = rc] \in Call
                 /\ [r EXCEPT !.stage = "applied", !.ret = rc].id = r.id
                 /\ [r EXCEPT !.stage = "applied", !.ret = rc].op = r.op
                 /\ [r EXCEPT !.stage = "applied", !.ret = rc].stage = "applied"
      BY <1>0 DEF Call
    <3>2. f \in [calls -> Call]
      BY <1>0, <3>1
    <3>3. \A r \in calls : Becomes(r, f[r])
      BY <3>1 DEF Becomes
    <3>4. calls' = {f[r] : r \in calls}
      BY <2>2
    <3> HIDE DEF f
    <3> QED BY <3>2, <3>3, <3>4 DEF CallsMapped
  <2>3. SplReturnCodes(s) \subseteq {SPL_OK, SPL_ERR}
    BY DEF SplReturnCodes
  <2> QED BY <1>3, <2>1, <2>2, <2>3 DEF Commit
<1>4. ASSUME NEW c \in Client, Send(c)
      PROVE  calls' = calls \cup {NewCall(c)}
  BY <1>4 DEF Send, NewCall
<1>5. UNCHANGED vars => CallsMapped
  BY NoneBecomes DEF vars
<1>7. ASSUME NEW c \in Client,
             \/ \E host \in Server : Construct(c, host)
             \/ Begin(c) \/ SendThrows(c) \/ RpcTimeout(c) \/ Probe(c)
             \/ \E k \in Key : Get(c, k)
      PROVE  CallsMapped
  BY <1>7, NoneBecomes DEF Construct, Begin, SendThrows, RpcTimeout, Probe, Get
<1>9. ASSUME NEW s \in Server, Stop(s)
      PROVE  CallsMapped
  <2> DEFINE C == {r \in calls : r.srv = s}
             f == [r \in calls |-> IF r \in C /\ r.stage = "fwd"
                                   THEN [r EXCEPT !.stage = "adrift"] ELSE r]
  <2>1. /\ calls' = (calls \ C) \cup Adrift(C)
        /\ late' = late \cup {r.id : r \in Adrift(C)} /\ C \in SUBSET calls
    BY <1>9 DEF Stop
  <2> HIDE DEF C
  <2>2. ASSUME NEW r \in calls
        PROVE  /\ [r EXCEPT !.stage = "adrift"] \in Call
               /\ [r EXCEPT !.stage = "adrift"].id = r.id
               /\ [r EXCEPT !.stage = "adrift"].op = r.op
               /\ [r EXCEPT !.stage = "adrift"].stage = "adrift"
    BY <1>0 DEF Call
  <2>3. f \in [calls -> Call]
    BY <1>0, <2>2
  <2>4. ASSUME NEW x \in calls' PROVE \E r \in calls : x = f[r]
    <3>1. CASE x \in calls \ C
      BY <3>1
    <3>2. CASE x \in Adrift(C)
      <4>1. PICK r \in C : /\ r.stage \in {"fwd", "adrift"}
                           /\ x = [r EXCEPT !.stage = "adrift"]
                           /\ r.stage = "adrift" => x = r
        BY <2>1, <3>2, AdriftCalls
      <4> QED BY <2>1, <4>1
    <3> QED BY <2>1, <3>1, <3>2
  <2>5. ASSUME NEW r \in C, r.stage = "fwd" PROVE r.id \in late'
    <3>1. [r EXCEPT !.stage = "adrift"] \in Adrift(C)
      BY <2>5 DEF Adrift
    <3> QED BY <2>1, <2>2, <3>1
  <2>6. \A r \in calls : Becomes(r, f[r])
    BY <2>2, <2>5 DEF Becomes
  <2>7. calls' \subseteq {f[r] : r \in calls}
    BY <2>4
  <2> HIDE DEF f
  <2> QED BY <2>3, <2>6, <2>7 DEF CallsMapped
<1>10. Raft => CallsMapped
  BY NoneBecomes DEF Raft
<1> QED BY <1>2, <1>3, <1>4, <1>5, <1>7, <1>9, <1>10 DEF Next, Handles

LEMMA IssuedStep ==
  ASSUME TypeOK, [Next]_vars
  PROVE  \/ Issued' \subseteq Issued
         \/ \E c \in Client : /\ Send(c)
                              /\ Issued' \subseteq Issued \cup
                                    {AppEntry(operation_of(req[c]), CallId(c))}
<1>1. Entries' \subseteq Issued
  BY EntriesStep DEF Entries, Issued
<1>2. CASE \E c \in Client : Send(c) /\ calls' = calls \cup {NewCall(c)}
  <2>1. PICK c \in Client : Send(c) /\ calls' = calls \cup {NewCall(c)}
    BY <1>2
  <2>2. AppEntry(NewCall(c).op, NewCall(c).id) = AppEntry(operation_of(req[c]), CallId(c))
    BY DEF NewCall
  <2>3. CallOps' \subseteq CallOps \cup {AppEntry(operation_of(req[c]), CallId(c))}
    BY <2>1, <2>2 DEF CallOps
  <2>4. Issued' = Entries' \cup CallOps' /\ CallOps \subseteq Issued
    BY DEF Issued, Entries, CallOps
  <2> QED BY <1>1, <2>1, <2>3, <2>4
<1>3. ASSUME CallsMapped
      PROVE  Issued' \subseteq Issued
  <2>1. ASSUME NEW x \in calls'
        PROVE  AppEntry(x.op, x.id) \in CallOps
    BY <1>3 DEF CallOps, CallsMapped, Becomes
  <2>2. CallOps' \subseteq CallOps
    BY <2>1 DEF CallOps
  <2> QED BY <1>1, <2>2 DEF Issued, Entries, CallOps
<1> QED BY <1>2, <1>3, CallsStep

(* All attempts of one operation carry the same operation. *)
LEMMA IssuedInvStep ==
  ASSUME TypeOK, IssuedInv, [Next]_vars
  PROVE  IssuedInv'
<1>1. ASSUME NEW e \in Issued
      PROVE  /\ e.id.n <= n'[e.id.c]
             /\ Busy(e.id.c)' /\ e.id.n = n'[e.id.c] => e.op = operation_of(req'[e.id.c])
  <2> DEFINE c == e.id.c
  <2>1. c \in Client /\ e.id.n \in Nat /\ n[c] \in Nat /\ e.id.n <= n[c]
    BY IssuedTypes DEF IssuedInv, TypeOK, ClientTypeOK
  <2>2. n'[c] \in {n[c], n[c] + 1}
    BY <2>1, ClientMoves DEF Still, Ends, Begins, Sends, Asks, Retries, Answered
  <2>3. Busy(c)' /\ n'[c] = n[c] => Busy(c) /\ req'[c] = req[c]
    BY <2>1, ClientMoves DEF Still, Ends, Begins, Sends, Asks, Retries, Answered, Busy
  <2> QED BY <2>1, <2>2, <2>3 DEF IssuedInv
<1>2. CASE Issued' \subseteq Issued
  BY <1>1, <1>2 DEF IssuedInv, OpOf
<1>3. ASSUME NEW c \in Client, Send(c),
             Issued' \subseteq Issued \cup {AppEntry(operation_of(req[c]), CallId(c))}
      PROVE  IssuedInv'
  <2> DEFINE new == AppEntry(operation_of(req[c]), CallId(c))
  <2>1. /\ new.op = operation_of(req[c]) /\ new.id.c = c /\ new.id.n = n[c]
        /\ OpOf(new.id) = OpId(c)
    BY DEF AppEntry, CallId, OpOf, OpId
  <2> HIDE DEF new
  <2>2. n' = n /\ req' = req /\ pc[c] = "loop" /\ n[c] \in Nat
    BY <1>3 DEF Send, call_leader, TypeOK, ClientTypeOK
  <2>3. ASSUME NEW e \in Issued, OpOf(e.id) = OpId(c)
        PROVE  e.op = operation_of(req[c])
    BY <2>2, <2>3 DEF IssuedInv, OpOf, OpId, Busy
  <2>4. Issued' \subseteq Issued \cup {new}
    BY <1>3 DEF new
  <2>5. \A e \in Issued' : /\ e.id.n <= n'[e.id.c]
                           /\ Busy(e.id.c)' /\ e.id.n = n'[e.id.c]
                                => e.op = operation_of(req'[e.id.c])
    BY <1>1, <2>1, <2>2, <2>4
  <2>6. \A e, g \in Issued' : OpOf(e.id) = OpOf(g.id) => e.op = g.op
    BY <2>1, <2>3, <2>4 DEF IssuedInv
  <2> QED BY <2>5, <2>6 DEF IssuedInv, OpOf
<1> QED BY <1>2, <1>3, IssuedStep
-----------------------------------------------------------------------------
(* Acknowledged mutations are committed *)

CommittedAs(op, id) == \E p \in 1..commit_idx : log[p] = AppEntry(op, id)

LEMMA CommittedKept ==
  ASSUME TypeOK, PrefixKept, commit_idx' \in Nat, NEW op, NEW id, CommittedAs(op, id)
  PROVE  CommittedAs(op, id)'
<1>1. PICK p \in 1..commit_idx : log[p] = AppEntry(op, id)
  BY DEF CommittedAs
<1>2. commit_idx \in Nat
  BY DEF TypeOK, RaftTypeOK
<1>3. p \in 1..commit_idx' /\ log'[p] = AppEntry(op, id)
  BY <1>1, <1>2 DEF PrefixKept
<1> QED BY <1>3 DEF CommittedAs, AppEntry

(* A handler gets a result only from the commit of its own entry. *)
LEMMA AppliedStep ==
  ASSUME TypeOK, IndexInv, IssuedInv, AppliedInv, [Next]_vars
  PROVE  AppliedInv'
<1>1. PrefixKept /\ commit_idx' \in Nat
  BY IndexStep, TypeStep DEF TypeOK, RaftTypeOK
<1>2. ASSUME NEW x \in calls', x.stage = "applied", x \in calls
      PROVE  CommittedAs(x.op, x.id)'
  <2>1. CommittedAs(x.op, x.id)
    BY <1>2 DEF AppliedInv, CommittedAs
  <2> QED BY <1>1, <2>1, CommittedKept
<1>3. ASSUME NEW s \in Server, Commit(s), NEW x \in calls', x.stage = "applied", x \notin calls
      PROVE  CommittedAs(x.op, x.id)'
  <2> DEFINE idx == last_committed_idx[s] + 1
             e == log[idx]
  <2>1. idx \in 1..commit_idx /\ idx \in 1..Len(log)
    <3>1. last_committed_idx[s] \in Nat /\ commit_idx \in Nat /\ Len(log) \in Nat
      BY DEF TypeOK, RaftTypeOK, SmTypeOK
    <3>2. last_committed_idx[s] < commit_idx /\ commit_idx <= Len(log)
      BY <1>3 DEF IndexInv, Commit
    <3> QED BY <3>1, <3>2
  <2>2. PICK r \in calls :
          /\ IsApp(e) /\ r.id = e.id
          /\ \E rc : x = [r EXCEPT !.stage = "applied", !.ret = rc]
    <3>1. PICK rc : /\ IsApp(e)
                    /\ calls' = {IF r.stage = "raft" /\ r.at = s /\ r.id = e.id
                                 THEN [r EXCEPT !.stage = "applied", !.ret = rc]
                                 ELSE r : r \in calls}
      BY <1>3 DEF Commit
    <3>2. PICK r \in calls : x = IF r.stage = "raft" /\ r.at = s /\ r.id = e.id
                                 THEN [r EXCEPT !.stage = "applied", !.ret = rc]
                                 ELSE r
      BY <3>1
    <3> QED BY <1>3, <3>1, <3>2
  <2>3. x.id = r.id /\ x.op = r.op
    BY <2>2 DEF TypeOK, CallTypeOK, Call
  <2>4. e \in Issued /\ AppEntry(r.op, r.id) \in Issued
    BY <2>1, <2>2 DEF Issued, LogOps
  <2>5. e.op = r.op
    BY <2>2, <2>4 DEF IssuedInv, AppEntry, OpOf
  <2>6. e = AppEntry(r.op, r.id)
    BY <2>2, <2>4, <2>5, IssuedTypes
  <2>7. CommittedAs(x.op, x.id)
    BY <2>1, <2>3, <2>6 DEF CommittedAs
  <2> QED BY <1>1, <2>7, CommittedKept
<1>4. \/ \A x \in calls' : x \in calls \/ x.stage # "applied"
      \/ \E s \in Server : Commit(s)
  <2>1. ASSUME NEW r \in calls, Handles(r)
        PROVE  \A x \in calls' : x \in calls \/ x.stage # "applied"
    <3>1. ASSUME NEW t \in Server, Enters(r, t)
          PROVE  \A x \in calls' : x \in calls \/ x.stage # "applied"
      BY <3>1, WaitingType DEF Enters
    <3>2. ASSUME NEW t \in Server, Forwards(r, t)
          PROVE  \A x \in calls' : x \in calls \/ x.stage # "applied"
      BY <3>2, WaitingType DEF Forwards
    <3>3. ASSUME NEW res, Replies(r, res)
          PROVE  \A x \in calls' : x \in calls \/ x.stage # "applied"
      BY <3>3, AdriftCalls DEF Replies
    <3> QED BY <2>1, <3>1, <3>2, <3>3, HandlerKinds
  <2>2. ASSUME NEW c \in Client, Send(c)
        PROVE  \A x \in calls' : x \in calls \/ x.stage # "applied"
    BY <2>2 DEF Send
  <2>4. ASSUME NEW c \in Client,
               \/ \E host \in Server : Construct(c, host)
               \/ Begin(c) \/ SendThrows(c) \/ RpcTimeout(c) \/ Probe(c)
               \/ \E k \in Key : Get(c, k)
        PROVE  calls' = calls
    BY <2>4 DEF Construct, Begin, SendThrows, RpcTimeout, Probe, Get
  <2>6. ASSUME NEW s \in Server, Stop(s)
        PROVE  \A x \in calls' : x \in calls \/ x.stage # "applied"
    BY <2>6, AdriftCalls DEF Stop
  <2>7. Raft \/ UNCHANGED vars => calls' = calls
    BY DEF Raft, vars
  <2> QED BY <2>1, <2>2, <2>4, <2>6, <2>7 DEF Next, Handles
<1>5. \A x \in calls' : x.stage = "applied" => CommittedAs(x.op, x.id)'
  BY <1>2, <1>3, <1>4
<1> QED BY <1>5 DEF AppliedInv, CommittedAs, AppEntry

(* Who is acknowledged, and when. *)
LEMMA AckedStep ==
  ASSUME TypeOK, IssuedInv, AppliedInv, [Next]_vars
  PROVE  \/ acked' = acked
         \/ \E r \in calls :
              /\ handler_return(r) /\ r.stage = "applied" /\ IsWaitingFor(r)
              /\ r.op = operation_of(req[r.id.c])
              /\ acked' = acked \cup {[op |-> OpOf(r.id), req |-> req[r.id.c]]}
<1>1. ASSUME NEW r \in calls, Handles(r), ~handler_return(r)
      PROVE  acked' = acked
  <2>1. UNCHANGED history \/ reply(r, Refusal)
    BY <1>1, HandlerKinds DEF Enters, Forwards, Replies
  <2>2. ~is_success(returned_result(Refusal))
    BY DEF Refusal, extract_result, Rejected, RaftResult, returned_result, is_success, OK,
           CMD_RESULT_NOT_LEADER, CMD_RESULT_WEIRD_CASE
  <2> QED BY <2>1, <2>2 DEF reply, Told, history
<1>2. ASSUME NEW r \in calls, handler_return(r), acked' # acked
      PROVE  /\ r.stage = "applied" /\ IsWaitingFor(r)
             /\ r.op = operation_of(req[r.id.c])
             /\ acked' = acked \cup {[op |-> OpOf(r.id), req |-> req[r.id.c]]}
  <2> DEFINE c == r.id.c
  <2>1. PICK x \in RaftResults(r) : reply(r, extract_result(x))
    BY <1>2 DEF handler_return
  <2>2. IsWaitingFor(r)
    BY <1>2, <2>1 DEF reply
  <2>3. Told(c, extract_result(x))
    BY <2>1, <2>2 DEF reply
  <2>4. /\ is_success(returned_result(extract_result(x)))
        /\ acked' = acked \cup {[op |-> OpId(c), req |-> req[c]]}
    BY <1>2, <2>3 DEF Told
  <2>5. x.code = OK
    BY <2>1, <2>4 DEF is_success, returned_result, extract_result, RaftResults, Rejected,
          RaftResult, OK, CMD_RESULT_WEIRD_CASE, CMD_RESULT_TIMEOUT,
          CMD_RESULT_REQUEST_CANCELLED, RESULT_NOT_EXIST_YET
  <2>6. r.stage = "applied"
    BY <2>1, <2>5 DEF RaftResults, Rejected, RaftResult, OK, CMD_RESULT_TIMEOUT,
          CMD_RESULT_REQUEST_CANCELLED, RESULT_NOT_EXIST_YET
  <2>7. /\ pc[c] = "wait" /\ r.id = CallId(c) /\ OpOf(r.id) = OpId(c)
        /\ r.id.n = n[c]
    BY <2>2 DEF IsWaitingFor, CallId, OpOf, OpId
  <2>8. r.op = operation_of(req[c])
    <3>1. AppEntry(r.op, r.id) \in Issued
      BY DEF Issued
    <3> QED BY <2>7, <3>1 DEF IssuedInv, Busy, AppEntry
  <2> QED BY <2>2, <2>4, <2>6, <2>7, <2>8
<1>3. ASSUME NEW c \in Client,
             \/ \E host \in Server : Construct(c, host)
             \/ Begin(c) \/ Send(c) \/ SendThrows(c) \/ RpcTimeout(c) \/ Probe(c)
             \/ \E k \in Key : Get(c, k)
      PROVE  acked' = acked
  BY <1>3 DEF Construct, Begin, Send, SendThrows, RpcTimeout, Probe, Get, history
<1>4. ASSUME NEW s \in Server, Commit(s) \/ Stop(s)
      PROVE  acked' = acked
  BY <1>4 DEF Commit, Stop, history
<1>5. Raft \/ UNCHANGED vars => acked' = acked
  BY DEF Raft, vars, history
<1> QED BY <1>1, <1>2, <1>3, <1>4, <1>5 DEF Next, Handles

LEMMA AckedCommittedStep ==
  ASSUME TypeOK, IndexInv, IssuedInv, AppliedInv, AckedIsCommitted, [Next]_vars
  PROVE  AckedIsCommitted'
<1>1. PrefixKept /\ commit_idx' \in Nat /\ commit_idx \in Nat
  BY IndexStep, TypeStep DEF TypeOK, RaftTypeOK
<1>2. ASSUME NEW a \in acked
      PROVE  \E p \in 1..commit_idx' : /\ IsApp(log'[p]) /\ OpOf(log'[p].id) = a.op
                                       /\ log'[p].op = operation_of(a.req)
  <2>1. PICK p \in 1..commit_idx : /\ IsApp(log[p]) /\ OpOf(log[p].id) = a.op
                                   /\ log[p].op = operation_of(a.req)
    BY DEF AckedIsCommitted
  <2>2. p \in 1..commit_idx' /\ log'[p] = log[p]
    BY <1>1, <2>1 DEF PrefixKept
  <2> QED BY <2>1, <2>2
<1>3. ASSUME NEW r \in calls, handler_return(r), r.stage = "applied",
             r.op = operation_of(req[r.id.c])
      PROVE  \E p \in 1..commit_idx' : /\ IsApp(log'[p]) /\ OpOf(log'[p].id) = OpOf(r.id)
                                       /\ log'[p].op = operation_of(req[r.id.c])
  <2>1. PICK p \in 1..commit_idx : log[p] = AppEntry(r.op, r.id)
    BY <1>3 DEF AppliedInv
  <2>2. p \in 1..commit_idx' /\ log'[p] = log[p]
    BY <1>1, <2>1 DEF PrefixKept
  <2>3. IsApp(log[p]) /\ log[p].id = r.id /\ log[p].op = r.op
    BY <2>1 DEF AppEntry, IsApp
  <2> QED BY <1>3, <2>2, <2>3
<1>4. ASSUME NEW a \in acked'
      PROVE  \E p \in 1..commit_idx' : /\ IsApp(log'[p]) /\ OpOf(log'[p].id) = a.op
                                       /\ log'[p].op = operation_of(a.req)
  <2>1. CASE a \in acked
    BY <1>2, <2>1
  <2>2. CASE a \notin acked
    <3>1. PICK r \in calls : /\ handler_return(r) /\ r.stage = "applied"
                             /\ r.op = operation_of(req[r.id.c])
                             /\ a = [op |-> OpOf(r.id), req |-> req[r.id.c]]
      BY <2>2, AckedStep
    <3>2. a.op = OpOf(r.id) /\ a.req = req[r.id.c]
      BY <3>1
    <3> QED BY <1>3, <3>1, <3>2
  <2> QED BY <2>1, <2>2
<1> QED BY <1>4 DEF AckedIsCommitted, OpOf, IsApp, operation_of, make_put, make_delete

SafetyInv == TypeOK /\ IndexInv /\ IssuedInv /\ AppliedInv

LEMMA SafetyInvCorrect == Spec => []SafetyInv
<1>1. Init => SafetyInv
  <2>1. Init => IssuedInv /\ AppliedInv
    BY DEF Init, RaftInit, IssuedInv, AppliedInv, Issued, LogOps
  <2> QED BY <2>1, TypeInit DEF SafetyInv
<1>2. SafetyInv /\ [Next]_vars => SafetyInv'
  BY TypeStep, IndexStep, IssuedInvStep, AppliedStep DEF SafetyInv
<1> QED BY <1>1, <1>2, PTL DEF Spec

(* A mutation that was acknowledged is in the committed log for ever. *)
THEOREM AckedCorrect == Spec => []AckedIsCommitted
<1>1. Init => AckedIsCommitted
  BY DEF Init, AckedIsCommitted
<1>2. AckedIsCommitted /\ SafetyInv /\ [Next]_vars => AckedIsCommitted'
  BY AckedCommittedStep DEF SafetyInv
<1> QED BY <1>1, <1>2, SafetyInvCorrect, PTL DEF Spec
=============================================================================
