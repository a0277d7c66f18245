-------------------------- MODULE RpcServerProofs --------------------------
(***************************************************************************)
(* Proofs about the threads inside one server, for any number of workers,  *)
(* requests and changes of leadership.                                     *)
(***************************************************************************)
EXTENDS RpcServer, SequenceTheorems, TLAPS

WorkerState == [pc : {"off", "idle", "wait", "forward"}, req : Request \cup {None}, idx : Nat,
                res : Result \cup {None}]

(* The operations that requests make, and the keys requests are about. *)
Operation == {operation_of(c) : c \in {d \in Call : d.rpc \in Mutations}}
KeyOfCall == {c.key : c \in {d \in Call : d.rpc \in Mutations \cup {"get"}}}

(* What the variables are; the state machine is behind Raft's commit index *)
(* and that one is inside the log.                                         *)
RpcTypeOK ==
  /\ queue \in Seq(Request) /\ worker \in [Worker -> WorkerState]
  /\ sent \in [Request -> Call \cup {None}] /\ at \in [Request -> Nat]
  /\ before \in [Request -> SUBSET Request]
  /\ forward \in [Request -> {"none", "sent", "done"}]
  /\ answer = [r \in Request |-> answer[r]]
  /\ log \in Seq({serialize(op) : op \in Operation})
  /\ applied \in Seq([op : Operation, rc : ReturnCodes])
  /\ commit_idx \in Nat /\ last_committed_idx \in Nat
  /\ Len(applied) = last_committed_idx
  /\ last_committed_idx <= commit_idx /\ commit_idx <= Len(log)

(* A thread is registered from its start on. *)
RegisteredInv ==
  /\ \A w \in Worker : worker[w].pc # "off" => w \in registered
  /\ commit_thread_initialized => CommitThread \in registered
  /\ used \subseteq registered

Waits(w) == worker[w].pc \in {"wait", "forward"}

(* A request that nobody has taken has no entry and no answer, and was not *)
(* forwarded.                                                              *)
Untouched(r) ==
  /\ at[r] = 0 /\ answer[r] = None /\ forward[r] = "none"
  /\ \A w \in Worker : Waits(w) => worker[w].req # r

(* A request is where exactly one thread can see it: not sent, in the      *)
(* queue once, with one worker, or answered.                               *)
PoolInv ==
  /\ \A r \in Request : sent[r] = None => Untouched(r)
  /\ \A i \in 1..Len(queue), q \in Request :
       queue[i] = q => sent[q] # None /\ Untouched(q)
  /\ \A i, j \in 1..Len(queue) : queue[i] = queue[j] => i = j
  /\ \A w \in Worker : Waits(w) =>
       /\ worker[w].req \in Request /\ answer[worker[w].req] = None
       /\ sent[worker[w].req] # None /\ sent[worker[w].req].rpc \in Mutations
       /\ \A v \in Worker : Waits(v) /\ worker[v].req = worker[w].req => v = w

(* A worker that waits for an entry of this server knows it as long as it  *)
(* may be told that it is applied; the others have forwarded their request.*)
WaitOk(w) ==
  /\ worker[w].pc = "wait" <=> forward[worker[w].req] = "none"
  /\ worker[w].pc = "wait" =>
       /\ worker[w].idx > 0
       /\ worker[w].res = None => at[worker[w].req] = worker[w].idx
       /\ worker[w].res # None /\ worker[w].res.code = "OK" =>
            /\ at[worker[w].req] = worker[w].idx
            /\ worker[w].idx <= last_committed_idx

WaitInv == \A w \in Worker : Waits(w) => WaitOk(w)

(* A forward in flight is of a mutation that has no entry. *)
ForwardInv ==
  \A r \in Request :
    forward[r] = "sent" => at[r] = 0 /\ sent[r] # None /\ sent[r].rpc \in Mutations

(* The entry of a request encodes it, until it is cut off. *)
EntryInv ==
  \A r \in Request :
    /\ at[r] <= Len(log)
    /\ at[r] > 0 => /\ sent[r] # None /\ sent[r].rpc \in Mutations
                    /\ log[at[r]] = serialize(operation_of(sent[r]))

AppliedInv == \A i \in 1..Len(applied) : applied[i].op = deserialize(log[i])

(* How far the entries of acknowledged mutations have got at least. *)
Reached(r) == IF forward[r] = "none" THEN last_committed_idx ELSE commit_idx

(* What this server appended and acknowledged is applied, what it forwarded*)
(* and acknowledged is committed, and both stay acknowledged.              *)
AckedInv ==
  \A r \in Request :
    /\ Acked(r) => at[r] \in 1..Reached(r)
    /\ \A q \in before[r] : Acked(q)

RpcInv ==
  /\ RpcTypeOK /\ PoolInv /\ WaitInv /\ ForwardInv /\ EntryInv /\ AppliedInv
  /\ AckedInv

StateInv == \A key \in KeyOfCall : HoldsAfter(applied, key, Values(spl, key), last_committed_idx)

(* An answer to a read is about entries that are applied. *)
GetInv ==
  \A r \in Request :
    sent[r] # None /\ sent[r].rpc = "get" /\ answer[r] # None =>
      answer[r].idx \in 0..last_committed_idx
-----------------------------------------------------------------------------
(* Encoding *)

LEMMA OperationShape ==
  ASSUME NEW c \in Call, c.rpc \in Mutations
  PROVE  LET op == operation_of(c) IN
         /\ op = [type |-> op.type, key |-> op.key, value |-> op.value]
         /\ op.type \in Nat /\ op.key \in Bytes /\ op.key = c.key
         /\ \/ op.type = PUT /\ op.value \in Bytes /\ op.value # None
            \/ op.type = DELETE /\ op.value = None
<1>1. CASE c.rpc = "delete"
  BY <1>1, CallAssumption DEF operation_of, make_delete, DELETE, Mutations
<1>2. CASE c.rpc # "delete"
  <2>1. c.rpc \in {"put", "update"} /\ c.key \in Bytes /\ c.value \in Bytes
    BY <1>2, CallAssumption DEF Mutations
  <2> QED BY <1>2, <2>1, NoneAssumption DEF operation_of, make_put, PUT
<1> QED BY <1>1, <1>2

LEMMA Joined ==
  ASSUME NEW a \in Bytes, NEW b \in Bytes
  PROVE  /\ a \o b \in Bytes /\ Len(a \o b) = Len(a) + Len(b)
         /\ Len(a) \in Nat /\ Len(b) \in Nat
         /\ \A i \in 1..Len(a) : (a \o b)[i] = a[i]
         /\ \A i \in 1..Len(b) : (a \o b)[Len(a) + i] = b[i]
<1>1. a \in Seq(Nat) /\ b \in Seq(Nat) /\ Len(a) \in Nat /\ Len(b) \in Nat
  BY DEF Bytes
<1>2. PICK n, m \in Nat : n = Len(a) /\ m = Len(b)
  BY <1>1
<1>3. /\ a \o b \in Seq(Nat) /\ Len(a \o b) = Len(a) + Len(b)
      /\ \A i \in 1 .. Len(a) + Len(b) : (a \o b)[i] = IF i <= Len(a) THEN a[i] ELSE b[i - Len(a)]
  BY <1>1, ConcatProperties
<1>4. \A i \in 1..n : (a \o b)[i] = a[i]
  BY <1>2, <1>3
<1>5. \A i \in 1..m : (a \o b)[n + i] = b[i]
  <2> SUFFICES ASSUME NEW i \in 1..m PROVE (a \o b)[n + i] = b[i]
    OBVIOUS
  <2>1. n + i \in 1 .. n + m /\ ~(n + i <= n) /\ (n + i) - n = i
    BY <1>2
  <2> QED BY <1>2, <1>3, <2>1
<1> QED BY <1>1, <1>2, <1>3, <1>4, <1>5 DEF Bytes

LEMMA JoinedThree ==
  ASSUME NEW a \in Bytes, NEW b \in Bytes, NEW c \in Bytes
  PROVE  (a \o b) \o c = a \o (b \o c)
BY ConcatAssociative DEF Bytes

LEMMA Part ==
  ASSUME NEW buf \in Bytes, NEW p \in Nat, NEW n \in Nat, p + n <= Len(buf)
  PROVE  LET r == SubSeq(buf, p + 1, p + n) IN
         r \in Bytes /\ Len(r) = n /\ \A i \in 1..n : r[i] = buf[p + i]
<1>1. buf \in Seq(Nat) /\ Len(buf) \in Nat
  BY DEF Bytes
<1>2. \A i \in p + 1 .. p + n : i \in 1..Len(buf)
  BY <1>1
<1>3. \A i \in p + 1 .. p + n : buf[i] \in Nat
  BY <1>1, <1>2
<1>4. PICK x, y \in Int : x = p + 1 /\ y = p + n
  OBVIOUS
<1>5. /\ SubSeq(buf, x, y) \in Seq(Nat)
      /\ Len(SubSeq(buf, x, y)) = IF x <= y THEN y - x + 1 ELSE 0
      /\ \A i \in 1 .. y - x + 1 : SubSeq(buf, x, y)[i] = buf[x + i - 1]
  BY <1>3, <1>4, SubSeqProperties
<1>6. y - x + 1 = n /\ (x <= y <=> n > 0) /\ \A i \in 1..n : x + i - 1 = p + i
  BY <1>4
<1>7. Len(SubSeq(buf, x, y)) = n
  BY <1>5, <1>6
<1>8. \A i \in 1..n : SubSeq(buf, x, y)[i] = buf[p + i]
  BY <1>5, <1>6
<1> QED BY <1>4, <1>5, <1>7, <1>8 DEF Bytes

(* A slice behind the bytes a is read back as it was. *)
LEMMA SliceRoundTrip ==
  ASSUME NEW s \in Bytes, NEW a \in Bytes, NEW b \in Bytes, NEW buf,
         buf = a \o (slice_serialize(s) \o b)
  PROVE  buf \in Bytes /\ slice_deserialize(buf, Len(a) + 1) = s
<1>1. PICK c, d, n, p : /\ c = slice_serialize(s) /\ d = c \o b /\ n = Len(s) /\ p = Len(a)
  OBVIOUS
<1>2. n \in Nat /\ p \in Nat /\ Len(b) \in Nat
  BY <1>1 DEF Bytes
<1>3. <<n>> \in Bytes /\ Len(<<n>>) = 1 /\ <<n>>[1] = n
  BY <1>2 DEF Bytes
<1>4. c \in Bytes /\ Len(c) = n + 1 /\ c[1] = n /\ \A i \in 1..n : c[i + 1] = s[i]
  <2>1. c = <<n>> \o s
    BY <1>1 DEF slice_serialize
  <2>2. /\ c \in Bytes /\ Len(c) = 1 + n /\ (\A i \in 1..1 : c[i] = <<n>>[i])
        /\ \A i \in 1..n : c[1 + i] = s[i]
    BY <1>1, <1>3, <2>1, Joined
  <2> QED BY <1>2, <1>3, <2>2
<1>5. /\ d \in Bytes /\ Len(d) = n + 1 + Len(b) /\ \A i \in 1 .. n + 1 : d[i] = c[i]
  <2>1. /\ c \o b \in Bytes /\ Len(c \o b) = Len(c) + Len(b)
        /\ \A i \in 1..Len(c) : (c \o b)[i] = c[i]
    BY <1>4, Joined, Zenon
  <2> QED BY <1>1, <1>4, <2>1
<1>6. /\ buf \in Bytes /\ Len(buf) = p + Len(d) /\ \A i \in 1..Len(d) : buf[p + i] = d[i]
  <2>1. /\ a \o d \in Bytes /\ Len(a \o d) = Len(a) + Len(d)
        /\ \A i \in 1..Len(d) : (a \o d)[Len(a) + i] = d[i]
    BY <1>5, Joined, Zenon
  <2>2. buf = a \o d
    BY <1>1
  <2> QED BY <1>1, <2>1, <2>2
<1>7. 1 \in 1..Len(d) /\ \A i \in 1..n : i + 1 \in 1..Len(d) /\ i + 1 \in 1 .. n + 1
  BY <1>2, <1>5
<1>8. buf[p + 1] = n
  BY <1>2, <1>4, <1>5, <1>6, <1>7
<1>9. \A i \in 1..n : buf[(p + 1) + i] = s[i]
  <2> SUFFICES ASSUME NEW i \in 1..n PROVE buf[(p + 1) + i] = s[i]
    OBVIOUS
  <2>1. (p + 1) + i = p + (i + 1)
    BY <1>2
  <2> QED BY <1>4, <1>5, <1>6, <1>7, <2>1
<1>10. p + 1 \in Nat /\ (p + 1) + n <= Len(buf)
  BY <1>2, <1>5, <1>6
<1>11. PICK r : r = SubSeq(buf, (p + 1) + 1, (p + 1) + n)
  OBVIOUS
<1>12. r \in Bytes /\ Len(r) = n /\ \A i \in 1..n : r[i] = buf[(p + 1) + i]
  BY <1>2, <1>6, <1>10, <1>11, Part
<1>13. r = s
  BY <1>1, <1>9, <1>12, SeqEqual DEF Bytes
<1> QED BY <1>1, <1>6, <1>8, <1>11, <1>13 DEF slice_deserialize

(* deserialize undoes serialize. *)
LEMMA RoundTrip ==
  ASSUME NEW c \in Call, c.rpc \in Mutations
  PROVE  deserialize(serialize(operation_of(c))) = operation_of(c)
<1>1. PICK op : op = operation_of(c)
  OBVIOUS
<1>2. /\ op = [type |-> op.type, key |-> op.key, value |-> op.value]
      /\ op.type \in Nat /\ op.key \in Bytes
      /\ \/ op.type = PUT /\ op.value \in Bytes /\ op.value # None
         \/ op.type = DELETE /\ op.value = None
  BY <1>1, OperationShape
<1>3. PICK h, k, v, buf : /\ h = <<op.type>> /\ k = slice_serialize(op.key)
                          /\ v = (IF op.value = None THEN <<>> ELSE slice_serialize(op.value))
                          /\ buf = (h \o k) \o v
  OBVIOUS
<1>4. buf = serialize(op)
  BY <1>3 DEF serialize
<1>5. /\ h \in Bytes /\ Len(h) = 1 /\ h[1] = op.type
      /\ k \in Bytes /\ Len(k) = Len(op.key) + 1
  BY <1>2, <1>3 DEF Bytes, slice_serialize
<1>6. v \in Bytes
  BY <1>2, <1>3 DEF Bytes, slice_serialize
<1>7. buf = h \o (k \o v)
  <2>1. h \in Bytes /\ k \in Bytes /\ v \in Bytes
    BY <1>5, <1>6
  <2>2. (h \o k) \o v = h \o (k \o v)
    BY <2>1, JoinedThree
  <2>3. buf = (h \o k) \o v
    BY <1>3
  <2> QED BY <2>2, <2>3
<1>8. slice_deserialize(buf, 2) = op.key /\ buf \in Bytes
  <2>1. slice_deserialize(buf, Len(h) + 1) = op.key /\ buf \in Bytes
    <3>1. buf = h \o (slice_serialize(op.key) \o v)
      BY <1>3, <1>7
    <3>2. h \in Bytes /\ op.key \in Bytes /\ v \in Bytes
      BY <1>2, <1>5, <1>6
    <3> QED BY <3>1, <3>2, SliceRoundTrip, Zenon
  <2> QED BY <1>5, <2>1
<1>9. buf[1] = op.type
  <2>1. k \o v \in Bytes
    BY <1>5, <1>6, Joined, Zenon
  <2>2. \A i \in 1..Len(h) : (h \o (k \o v))[i] = h[i]
    BY <1>5, <2>1, Joined, Zenon
  <2> QED BY <1>5, <1>7, <2>2
<1>10. op.type = PUT => slice_deserialize(buf, 3 + Len(op.key)) = op.value
  <2> SUFFICES ASSUME op.type = PUT
               PROVE  slice_deserialize(buf, 3 + Len(op.key)) = op.value
    OBVIOUS
  <2>1. op.value \in Bytes /\ v = slice_serialize(op.value)
    BY <1>2, <1>3 DEF PUT, DELETE
  <2>2. PICK a : a = h \o k
    OBVIOUS
  <2>3. a \in Bytes /\ Len(a) = 2 + Len(op.key) /\ Len(op.key) \in Nat
    <3>1. h \o k \in Bytes /\ Len(h \o k) = Len(h) + Len(k)
      BY <1>5, Joined, Zenon
    <3>2. Len(op.key) \in Nat
      BY <1>2 DEF Bytes
    <3> QED BY <1>5, <2>2, <3>1, <3>2
  <2>4. buf = a \o (v \o <<>>) /\ <<>> \in Bytes
    BY <1>3, <1>6, <2>2 DEF Bytes
  <2>5. slice_deserialize(buf, Len(a) + 1) = op.value
    BY <2>1, <2>3, <2>4, SliceRoundTrip
  <2> QED BY <2>3, <2>5
<1>11. deserialize(buf) = [type |-> op.type, key |-> op.key, value |-> op.value]
  BY <1>2, <1>8, <1>9, <1>10 DEF deserialize, PUT, UPDATE, DELETE
<1> QED BY <1>1, <1>2, <1>4, <1>11
-----------------------------------------------------------------------------
(* The actions, by what they change *)

Sends(r, call) ==
  /\ sent[r] = None
  /\ sent' = [sent EXCEPT ![r] = call]
  /\ before' = [before EXCEPT ![r] = {q \in Request : Acked(q)}]
  /\ queue' = Append(queue, r)
  /\ UNCHANGED <<worker, log, commit_idx, spl, last_committed_idx, forward, at, applied, answer>>

Starts(w) ==
  /\ worker[w].pc = "off" /\ worker' = [worker EXCEPT ![w] = Idle]
  /\ UNCHANGED <<queue, sent, before, log, commit_idx, spl, last_committed_idx, forward, at,
                 applied, answer>>

(* The answers to reads. *)
ReadAnswer(r, rc) ==
  [found |-> IF rc = 0 THEN Values(spl, sent[r].key) ELSE {}, rc |-> rc,
   idx |-> last_committed_idx]

(* A request is answered at once, with x. *)
Replies(r, x) ==
  /\ queue # <<>> /\ r = Head(queue) /\ queue' = Tail(queue)
  /\ sent[r].rpc \in Mutations => x = [spl_rc |-> 0, raft_rc |-> "NOT_LEADER"]
  /\ sent[r].rpc = "get" => \E rc \in ReturnCodes : x = ReadAnswer(r, rc)
  /\ answer' = [answer EXCEPT ![r] = x]
  /\ UNCHANGED <<worker, sent, before, log, commit_idx, spl, last_committed_idx, forward, at,
                 applied>>

(* Worker w takes request r and waits as st says. *)
WaitsFor(w, r, st) ==
  /\ queue # <<>> /\ r = Head(queue) /\ queue' = Tail(queue)
  /\ worker[w].pc = "idle" /\ sent[r].rpc \in Mutations
  /\ worker' = [worker EXCEPT ![w] = st]
  /\ UNCHANGED <<sent, before, commit_idx, spl, last_committed_idx, applied, answer>>

AppendsFor(w, r) ==
  /\ WaitsFor(w, r, [pc |-> "wait", req |-> r, res |-> None, idx |-> Len(log) + 1])
  /\ log' = Append(log, serialize(operation_of(sent[r])))
  /\ at' = [at EXCEPT ![r] = Len(log) + 1]
  /\ UNCHANGED forward

Forwards(w, r) ==
  /\ WaitsFor(w, r, [pc |-> "forward", req |-> r, res |-> None, idx |-> 0])
  /\ forward' = [forward EXCEPT ![r] = "sent"]
  /\ UNCHANGED <<log, at>>

Arrives(r) ==
  /\ forward[r] = "sent" /\ forward' = [forward EXCEPT ![r] = "done"]
  /\ log' = Append(log, serialize(operation_of(sent[r])))
  /\ at' = [at EXCEPT ![r] = Len(log) + 1]
  /\ UNCHANGED <<queue, worker, sent, before, commit_idx, spl, last_committed_idx, applied, answer>>

Returns(w, res) ==
  /\ Waits(w) /\ res \in Result
  /\ res.code = "OK" =>
       IF worker[w].pc = "wait" THEN worker[w].res # None /\ res = worker[w].res
                                ELSE at[worker[w].req] \in 1..commit_idx
  /\ answer' = [answer EXCEPT ![worker[w].req] = extract_result(res)]
  /\ worker' = [worker EXCEPT ![w] = Idle]
  /\ \/ UNCHANGED forward
     \/ /\ forward[worker[w].req] = "sent"
        /\ forward' = [forward EXCEPT ![worker[w].req] = "done"]
  /\ UNCHANGED <<queue, sent, before, log, commit_idx, spl, last_committed_idx, at, applied>>

(* The workers of C get a result. *)
Results(C, res) ==
  worker' = [w \in Worker |-> IF w \in C THEN [worker[w] EXCEPT !.res = res] ELSE worker[w]]

(* The workers that wait for an entry of this server, with an index in S. *)
Waiting(S) == {w \in Worker : /\ worker[w].pc = "wait" /\ worker[w].res = None
                              /\ worker[w].idx \in S}

CommitsOne(n, rc) ==
  /\ n = last_committed_idx + 1 /\ n <= commit_idx
  /\ spl' = spl_apply(spl, deserialize(log[n]), rc)
  /\ last_committed_idx' = n
  /\ applied' = Append(applied, [op |-> deserialize(log[n]), rc |-> rc])
  /\ Results(Waiting({n}), [code |-> "OK", buf |-> rc])
  /\ UNCHANGED <<queue, sent, before, log, commit_idx, forward, at, answer>>

Advances ==
  /\ commit_idx < Len(log) /\ commit_idx' = commit_idx + 1
  /\ UNCHANGED <<queue, worker, sent, before, log, spl, last_committed_idx, forward, at, applied,
                 answer>>

(* A new leader keeps the first entries of the log. *)
Keeps(keep) ==
  /\ keep \in commit_idx..Len(log) /\ log' = SubSeq(log, 1, keep)
  /\ at' = [r \in Request |-> IF at[r] > keep THEN 0 ELSE at[r]]
  /\ Results(Waiting(Nat), [code |-> "CANCELLED", buf |-> None])
  /\ UNCHANGED <<queue, sent, before, commit_idx, spl, last_committed_idx, forward, applied, answer>>

Rests ==
  UNCHANGED <<queue, worker, sent, before, log, commit_idx, spl, last_committed_idx, forward, at,
              applied, answer>>

Effect ==
  \/ \E r \in Request, call \in Call : Sends(r, call)
  \/ \E w \in Worker : Starts(w)
  \/ \E r \in Request : \E x : Replies(r, x)
  \/ \E w \in Worker, r \in Request : AppendsFor(w, r) \/ Forwards(w, r)
  \/ \E r \in Request : Arrives(r)
  \/ \E w \in Worker, res \in Result : Returns(w, res)
  \/ \E n \in Nat, rc \in ReturnCodes : CommitsOne(n, rc)
  \/ \E keep \in Nat : Keeps(keep)
  \/ Advances \/ Rests

LEMMA Effects ==
  ASSUME RpcTypeOK, [RpcNext]_vars
  PROVE  Effect
<1>1. ASSUME NEW r \in Request, NEW call \in Call, send(r, call) PROVE Effect
  BY <1>1 DEF send, Sends, Effect, raftVars, smVars
<1>2. CASE run \/ UNCHANGED vars
  <2>1. Rests
    BY <1>2 DEF run, vars, poolVars, smVars, raftVars, reqVars, Rests
  <2> QED BY <2>1 DEF Effect
<1>3. CASE advance_commit
  <2>1. Advances
    BY <1>3 DEF advance_commit, poolVars, smVars, reqVars, Advances
  <2> QED BY <2>1 DEF Effect
<1>4. ASSUME NEW w \in Worker, worker_init(w) PROVE Effect
  <2>1. Starts(w)
    BY <1>4 DEF worker_init, smVars, raftVars, reqVars, Starts
  <2> QED BY <2>1 DEF Effect
<1>5. ASSUME NEW w \in Worker, NEW r \in Request, info(w, r) \/ cache(w, r) \/ get(w, r)
      PROVE Effect
  <2>1. CASE info(w, r)
    <3>1. Replies(r, "info")
      BY <2>1 DEF info, Takes, Replies, smVars, raftVars, reqVars, Mutations
    <3> QED BY <3>1 DEF Effect
  <2>2. CASE cache(w, r)
    <3>1. Replies(r, "true")
      BY <2>2 DEF cache, Takes, Replies, smVars, raftVars, reqVars, Mutations
    <3> QED BY <3>1 DEF Effect
  <2>3. CASE get(w, r)
    <3>0. PICK rc \in ReturnCodes : answer' = [answer EXCEPT ![r] = ReadAnswer(r, rc)]
      BY <2>3 DEF get, ReadAnswer
    <3>1. Replies(r, ReadAnswer(r, rc))
      BY <2>3, <3>0 DEF get, Takes, Replies, smVars, raftVars, reqVars, Mutations
    <3> QED BY <3>1 DEF Effect
  <2> QED BY <1>5, <2>1, <2>2, <2>3
<1>6. ASSUME NEW w \in Worker, NEW r \in Request, append_log(w, r) PROVE Effect
  <2>1. AppendsFor(w, r) \/ Forwards(w, r) \/ Replies(r, [spl_rc |-> 0, raft_rc |-> "NOT_LEADER"])
    BY <1>6 DEF append_log, Takes, Appended, AppendsFor, Forwards, WaitsFor, Replies, smVars,
                raftVars, reqVars, Mutations
  <2> QED BY <2>1 DEF Effect
<1>7. ASSUME NEW w \in Worker, append_returns(w) PROVE Effect
  <2>1. worker[w].res \in Result
    BY <1>7 DEF append_returns, RpcTypeOK, WorkerState
  <2>2. Returns(w, worker[w].res)
    BY <1>7, <2>1 DEF append_returns, Answers, Returns, Waits, smVars, raftVars, reqVars
  <2> QED BY <2>1, <2>2 DEF Effect
<1>8. ASSUME NEW w \in Worker, append_times_out(w) PROVE Effect
  <2>1. PICK res : res = NoResult("TIMEOUT")
    OBVIOUS
  <2>2. res \in Result /\ res.code # "OK"
    BY <2>1 DEF Result, NoResult, Codes
  <2>3. Returns(w, res)
    BY <1>8, <2>1, <2>2 DEF append_times_out, Answers, Returns, Waits, smVars, raftVars, reqVars
  <2> QED BY <2>2, <2>3 DEF Effect
<1>9. CASE commit
  <2>1. PICK n \in Nat : n = last_committed_idx + 1
    BY DEF RpcTypeOK
  <2>2. PICK rc \in ReturnCodes :
          /\ spl' = spl_apply(spl, deserialize(log[n]), rc)
          /\ last_committed_idx' = n
          /\ applied' = Append(applied, [op |-> deserialize(log[n]), rc |-> rc])
          /\ worker' = [w \in Worker |->
                          IF worker[w].pc = "wait" /\ worker[w].res = None /\ worker[w].idx = n
                          THEN [worker[w] EXCEPT !.res = [code |-> "OK", buf |-> rc]]
                          ELSE worker[w]]
    BY <1>9, <2>1 DEF commit, Deliver
  <2>3. Results(Waiting({n}), [code |-> "OK", buf |-> rc])
    BY <2>2 DEF Results, Waiting
  <2>4. n <= commit_idx
    BY <1>9, <2>1 DEF commit, RpcTypeOK
  <2>5. UNCHANGED <<queue, sent, before, log, commit_idx, forward, at, answer>>
    BY <1>9 DEF commit, raftVars, reqVars
  <2>6. CommitsOne(n, rc)
    BY <2>1, <2>2, <2>3, <2>4, <2>5 DEF CommitsOne
  <2> QED BY <2>6 DEF Effect
<1>10. ASSUME NEW leads \in BOOLEAN, NewTerm(leads) PROVE Effect
  <2>1. PICK keep \in commit_idx..Len(log) :
          /\ log' = SubSeq(log, 1, keep)
          /\ at' = [r \in Request |-> IF at[r] > keep THEN 0 ELSE at[r]]
    BY <1>10 DEF NewTerm
  <2>2. Results(Waiting(Nat), [code |-> "CANCELLED", buf |-> None])
    <3>1. \A w \in Worker : worker[w].idx \in Nat
      BY DEF RpcTypeOK, WorkerState
    <3>2. Deliver(LAMBDA v : TRUE, NoResult("CANCELLED"))
      BY <1>10 DEF NewTerm
    <3> QED BY <3>1, <3>2 DEF Deliver, Results, Waiting, NoResult
  <2>3. keep \in Nat /\ Keeps(keep)
    BY <1>10, <2>1, <2>2 DEF NewTerm, Keeps, smVars, reqVars, RpcTypeOK
  <2> QED BY <2>3 DEF Effect
<1>11. CASE step_down \/ become_leader \/ other_leader
  BY <1>10, <1>11 DEF step_down, become_leader, other_leader
<1>12. ASSUME NEW r \in Request, forward_arrives(r) PROVE Effect
  <2>1. Arrives(r)
    BY <1>12 DEF forward_arrives, Appended, Arrives, poolVars, smVars, reqVars
  <2> QED BY <2>1 DEF Effect
<1>13. ASSUME NEW w \in Worker, forward_returns(w) PROVE Effect
  <2>1. PICK res \in ForwardResults(worker[w].req) : Answers(w, res)
    BY <1>13 DEF forward_returns
  <2>2. res \in Result /\ (res.code = "OK" => at[worker[w].req] \in 1..commit_idx)
    <3>1. \/ \E c \in {"NOT_EXIST_YET", "TIMEOUT", "CANCELLED"} : res = NoResult(c)
          \/ /\ at[worker[w].req] \in 1..commit_idx
             /\ \E rc \in ReturnCodes : res = [code |-> "OK", buf |-> rc]
      BY DEF ForwardResults
    <3>2. \A c \in {"NOT_EXIST_YET", "TIMEOUT", "CANCELLED"} :
             NoResult(c) \in Result /\ NoResult(c).code # "OK"
      BY DEF NoResult, Result, Codes
    <3>3. \A rc \in ReturnCodes : [code |-> "OK", buf |-> rc] \in Result
      BY DEF Result, Codes
    <3> QED BY <3>1, <3>2, <3>3
  <2>3. Returns(w, res)
    BY <1>13, <2>1, <2>2 DEF forward_returns, Answers, Returns, Waits, smVars, raftVars, reqVars
  <2> QED BY <2>2, <2>3 DEF Effect
<1>14. ASSUME NEW w \in Worker, forward_refused(w) PROVE Effect
  <2>1. PICK res : res = NoResult("NOT_LEADER")
    OBVIOUS
  <2>2. res \in Result /\ res.code # "OK"
    BY <2>1 DEF Result, NoResult, Codes
  <2>3. Returns(w, res)
    BY <1>14, <2>1, <2>2 DEF forward_refused, Answers, Returns, Waits, smVars, raftVars, reqVars
  <2> QED BY <2>2, <2>3 DEF Effect
<1> QED BY <1>1, <1>2, <1>3, <1>4, <1>5, <1>6, <1>7, <1>8, <1>9, <1>11, <1>12, <1>13, <1>14
        DEF RpcNext, WorkerStep, Handler
-----------------------------------------------------------------------------
(* What holds of the queue, the workers and the log *)

(* The next request of the queue. *)
LEMMA QueueHead ==
  ASSUME queue \in Seq(Request), PoolInv, queue # <<>>, queue' = Tail(queue),
         NEW r, r = Head(queue)
  PROVE  /\ r \in Request /\ sent[r] # None /\ Untouched(r)
         /\ queue' \in Seq(Request) /\ Len(queue') = Len(queue) - 1 /\ Len(queue) \in Nat
         /\ \A i \in 1..Len(queue') : /\ i + 1 \in 1..Len(queue)
                                      /\ queue'[i] = queue[i + 1] /\ queue'[i] # r
         /\ \A i, j \in 1..Len(queue') : queue'[i] = queue'[j] => i = j
<1>1. PICK n \in Nat \ {0} : n = Len(queue)
  OBVIOUS
<1>2. r = queue[1] /\ r \in Request /\ 1 \in 1..n
  BY <1>1
<1>3. sent[r] # None /\ Untouched(r)
  BY <1>1, <1>2 DEF PoolInv
<1>4. /\ queue' \in Seq(Request) /\ Len(queue') = n - 1
      /\ \A i \in 1 .. n - 1 : queue'[i] = queue[i + 1]
  BY <1>1
<1>5. \A i \in 1 .. n - 1 : i + 1 \in 1..n
  BY <1>1
<1>6. \A i, j \in 1..n : queue[i] = queue[j] => i = j
  BY <1>1 DEF PoolInv
<1>7. \A i \in 1 .. n - 1 : queue'[i] # r
  <2> SUFFICES ASSUME NEW i \in 1 .. n - 1, queue'[i] = r PROVE FALSE
    OBVIOUS
  <2>1. queue[i + 1] = queue[1] /\ i + 1 \in 1..n
    BY <1>2, <1>4, <1>5
  <2>2. i + 1 = 1
    BY <1>2, <1>6, <2>1
  <2> QED BY <2>2
<1>8. \A i, j \in 1 .. n - 1 : queue'[i] = queue'[j] => i = j
  <2> SUFFICES ASSUME NEW i \in 1 .. n - 1, NEW j \in 1 .. n - 1, queue'[i] = queue'[j]
               PROVE  i = j
    OBVIOUS
  <2>1. i + 1 \in 1..n /\ j + 1 \in 1..n /\ queue[i + 1] = queue[j + 1]
    BY <1>4, <1>5
  <2>2. i + 1 = j + 1
    BY <1>6, <2>1
  <2> QED BY <2>2
<1> QED BY <1>1, <1>2, <1>3, <1>4, <1>5, <1>7, <1>8

(* An answer in the set Answer is not None. *)
LEMMA AckIsAnswer == None # [spl_rc |-> 0, raft_rc |-> "OK"]
BY NoneAssumption, RpcAssumption DEF Answer, Codes

(* What does not touch a waiting worker, its request or what is applied. *)
LEMMA WaitKept ==
  ASSUME NEW w \in Worker, WaitOk(w), worker'[w] = worker[w],
         at'[worker[w].req] = at[worker[w].req],
         forward'[worker[w].req] = forward[worker[w].req],
         last_committed_idx' = last_committed_idx
  PROVE  WaitOk(w)'
BY DEF WaitOk

LEMMA InvSends ==
  ASSUME RpcInv, NEW r \in Request, NEW call \in Call, Sends(r, call)
  PROVE  RpcInv'
<1>1. RpcTypeOK /\ PoolInv /\ WaitInv /\ ForwardInv /\ EntryInv /\ AppliedInv /\ AckedInv
  BY DEF RpcInv
<1>2. /\ sent[r] = None /\ sent' = [sent EXCEPT ![r] = call]
      /\ before' = [before EXCEPT ![r] = {q \in Request : Acked(q)}]
      /\ queue' = Append(queue, r)
      /\ UNCHANGED <<worker, log, commit_idx, spl, last_committed_idx, forward, at, applied, answer>>
  BY DEF Sends
<1>3. RpcTypeOK'
  BY <1>1, <1>2 DEF RpcTypeOK
<1>4. /\ sent \in [Request -> Call \cup {None}] /\ call # None /\ sent'[r] = call
      /\ \A q \in Request : q # r => sent'[q] = sent[q]
      /\ before \in [Request -> SUBSET Request] /\ queue \in Seq(Request)
  BY <1>1, <1>2, RpcAssumption DEF RpcTypeOK
<1>5. \A q : Untouched(q)' <=> Untouched(q)
  BY <1>2 DEF Untouched, Waits
<1>6. PICK n \in Nat : n = Len(queue)
  BY <1>4
<1>7. /\ Len(queue') = n + 1 /\ queue'[n + 1] = r
      /\ \A i \in 1..n : queue'[i] = queue[i] /\ queue[i] \in Request
  BY <1>2, <1>4, <1>6
<1>8. \A i \in 1..n : sent[queue[i]] # None /\ queue[i] # r
  BY <1>1, <1>2, <1>6, <1>7 DEF PoolInv
<1>9. PoolInv'
  <2>1. \A q \in Request : sent'[q] = None => Untouched(q)'
    BY <1>1, <1>4, <1>5 DEF PoolInv
  <2>2. \A i \in 1 .. n + 1, q \in Request :
          queue'[i] = q => sent'[q] # None /\ Untouched(q)'
    <3> SUFFICES ASSUME NEW i \in 1 .. n + 1, NEW q \in Request, q = queue'[i]
                 PROVE  sent'[q] # None /\ Untouched(q)'
      OBVIOUS
    <3>1. CASE i = n + 1
      BY <1>1, <1>2, <1>4, <1>5, <1>7, <3>1 DEF PoolInv
    <3>2. CASE i \in 1..n
      BY <1>1, <1>4, <1>5, <1>6, <1>7, <1>8, <3>2 DEF PoolInv
    <3>3. i = n + 1 \/ i \in 1..n
      OBVIOUS
    <3> QED BY <3>1, <3>2, <3>3
  <2>3. \A i, j \in 1 .. n + 1 : queue'[i] = queue'[j] => i = j
    <3> SUFFICES ASSUME NEW i \in 1 .. n + 1, NEW j \in 1 .. n + 1, queue'[i] = queue'[j]
                 PROVE  i = j
      OBVIOUS
    <3>1. i = n + 1 \/ i \in 1..n
      OBVIOUS
    <3>2. j = n + 1 \/ j \in 1..n
      OBVIOUS
    <3>3. \A a, b \in 1..n : queue[a] = queue[b] => a = b
      BY <1>1, <1>6 DEF PoolInv
    <3> QED BY <1>7, <1>8, <3>1, <3>2, <3>3
  <2>4. ASSUME NEW w \in Worker, Waits(w)
        PROVE  /\ worker[w].req \in Request /\ answer[worker[w].req] = None
               /\ sent'[worker[w].req] # None /\ sent'[worker[w].req].rpc \in Mutations
               /\ \A v \in Worker : Waits(v) /\ worker[v].req = worker[w].req => v = w
    <3>1. worker[w].req # r
      BY <1>1, <1>2, <2>4 DEF PoolInv, Untouched
    <3> QED BY <1>1, <1>4, <2>4, <3>1 DEF PoolInv
  <2>5. Len(queue') = n + 1
    BY <1>7
  <2>6. \A w \in Worker : Waits(w)' <=> Waits(w)
    BY <1>2 DEF Waits
  <2>7. ASSUME NEW w \in Worker, Waits(w)'
        PROVE  /\ worker'[w].req \in Request /\ answer'[worker'[w].req] = None
               /\ sent'[worker'[w].req] # None /\ sent'[worker'[w].req].rpc \in Mutations
               /\ \A v \in Worker : Waits(v)' /\ worker'[v].req = worker'[w].req => v = w
    BY <1>2, <2>4, <2>6, <2>7
  <2> QED BY <2>1, <2>2, <2>3, <2>5, <2>7 DEF PoolInv
<1>10. WaitInv' /\ AppliedInv'
  BY <1>1, <1>2 DEF WaitInv, WaitOk, AppliedInv, Waits
<1>11. EntryInv' /\ ForwardInv'
  <2>1. \A q \in Request : at[q] > 0 \/ forward[q] = "sent" => q # r
    BY <1>1, <1>2 DEF PoolInv, Untouched
  <2>2. EntryInv'
    BY <1>1, <1>2, <1>4, <2>1 DEF EntryInv
  <2> QED BY <1>1, <1>2, <1>4, <2>1, <2>2 DEF ForwardInv
<1>12. AckedInv'
  <2>1. answer[r] = None
    BY <1>1, <1>2 DEF PoolInv, Untouched
  <2>2. ~Acked(r) /\ ~Acked(r)'
    BY <1>2, <2>1, AckIsAnswer DEF Acked
  <2>3. \A q \in Request : q # r => (Acked(q)' <=> Acked(q))
    BY <1>2, <1>4 DEF Acked
  <2>4. \A p \in Request : \A q \in before'[p] : q \in Request /\ Acked(q)
    BY <1>1, <1>2, <1>4 DEF AckedInv
  <2>5. \A q \in Request : Acked(q)' => at'[q] \in 1..Reached(q)'
    BY <1>1, <1>2, <2>2, <2>3 DEF AckedInv, Reached
  <2>6. \A p \in Request : \A q \in before'[p] : Acked(q)'
    BY <2>2, <2>3, <2>4
  <2> QED BY <2>5, <2>6 DEF AckedInv
<1> QED BY <1>3, <1>9, <1>10, <1>11, <1>12 DEF RpcInv

LEMMA InvStarts ==
  ASSUME RpcInv, NEW w \in Worker, Starts(w)
  PROVE  RpcInv'
<1>1. RpcTypeOK /\ PoolInv /\ WaitInv /\ ForwardInv /\ EntryInv /\ AppliedInv /\ AckedInv
  BY DEF RpcInv
<1>2. /\ worker[w].pc = "off" /\ worker' = [worker EXCEPT ![w] = Idle]
      /\ UNCHANGED <<queue, sent, before, log, commit_idx, spl, last_committed_idx, forward, at,
                     applied, answer>>
  BY DEF Starts
<1>3. Idle \in WorkerState /\ Idle.pc = "idle"
  BY DEF Idle, WorkerState
<1>4. worker \in [Worker -> WorkerState] /\ worker' \in [Worker -> WorkerState]
  BY <1>1, <1>2, <1>3 DEF RpcTypeOK
<1>5. \A v \in Worker : (Waits(v)' <=> Waits(v)) /\ (Waits(v) => worker'[v] = worker[v])
  BY <1>2, <1>3, <1>4 DEF Waits
<1>6. RpcTypeOK'
  BY <1>1, <1>2, <1>4 DEF RpcTypeOK
<1>7. \A q : Untouched(q) => Untouched(q)'
  BY <1>2, <1>5 DEF Untouched
<1>8. PoolInv'
  <2>1. \A q \in Request : sent'[q] = None => Untouched(q)'
    BY <1>1, <1>2, <1>7 DEF PoolInv
  <2>2. \A i \in 1..Len(queue), q \in Request :
          queue[i] = q => sent[q] # None /\ Untouched(q)'
    BY <1>1, <1>7 DEF PoolInv
  <2>3. \A v \in Worker : Waits(v)' =>
       /\ worker'[v].req \in Request /\ answer[worker'[v].req] = None
       /\ sent[worker'[v].req] # None /\ sent[worker'[v].req].rpc \in Mutations
       /\ \A u \in Worker : Waits(u)' /\ worker'[u].req = worker'[v].req => u = v
    BY <1>1, <1>5 DEF PoolInv
  <2> QED BY <1>1, <1>2, <2>1, <2>2, <2>3 DEF PoolInv
<1>9. WaitInv'
  BY <1>1, <1>2, <1>5 DEF WaitInv, WaitOk
<1>10. EntryInv' /\ AppliedInv' /\ ForwardInv'
  BY <1>1, <1>2 DEF EntryInv, AppliedInv, ForwardInv
<1>11. AckedInv'
  BY <1>1, <1>2 DEF AckedInv, Acked, Reached
<1> QED BY <1>6, <1>8, <1>9, <1>10, <1>11 DEF RpcInv

LEMMA InvReplies ==
  ASSUME RpcInv, NEW r \in Request, NEW x, Replies(r, x)
  PROVE  RpcInv'
<1>1. RpcTypeOK /\ PoolInv /\ WaitInv /\ ForwardInv /\ EntryInv /\ AppliedInv /\ AckedInv
  BY DEF RpcInv
<1>2. /\ queue # <<>> /\ r = Head(queue) /\ queue' = Tail(queue)
      /\ sent[r].rpc \in Mutations => x = [spl_rc |-> 0, raft_rc |-> "NOT_LEADER"]
      /\ answer' = [answer EXCEPT ![r] = x]
      /\ UNCHANGED <<worker, sent, before, log, commit_idx, spl, last_committed_idx, forward, at,
                     applied>>
  BY DEF Replies
<1>3. queue \in Seq(Request) /\ answer = [q \in Request |-> answer[q]]
  BY <1>1 DEF RpcTypeOK
<1>4. /\ sent[r] # None /\ Untouched(r) /\ queue' \in Seq(Request)
      /\ \A i \in 1..Len(queue') : i + 1 \in 1..Len(queue) /\ queue'[i] = queue[i + 1]
                                   /\ queue'[i] # r
      /\ \A i, j \in 1..Len(queue') : queue'[i] = queue'[j] => i = j
  BY <1>1, <1>2, <1>3, QueueHead
<1>5. /\ answer'[r] = x /\ \A q \in Request : q # r => answer'[q] = answer[q]
      /\ answer' = [q \in Request |-> answer'[q]]
  BY <1>2, <1>3
<1>6. RpcTypeOK'
  BY <1>1, <1>2, <1>4, <1>5 DEF RpcTypeOK
<1>7. \A w \in Worker : (Waits(w)' <=> Waits(w)) /\ (Waits(w) => worker[w].req # r)
  BY <1>2, <1>4 DEF Waits, Untouched
<1>8. \A q \in Request : q # r /\ Untouched(q) => Untouched(q)'
  BY <1>2, <1>5, <1>7 DEF Untouched
<1>9. PoolInv'
  <2>1. \A q \in Request : sent'[q] = None => Untouched(q)'
    BY <1>1, <1>2, <1>4, <1>8 DEF PoolInv
  <2>2. \A i \in 1..Len(queue'), q \in Request :
          queue'[i] = q => sent'[q] # None /\ Untouched(q)'
    BY <1>1, <1>2, <1>4, <1>8 DEF PoolInv
  <2>3. ASSUME NEW w \in Worker, Waits(w)'
        PROVE  /\ worker'[w].req \in Request /\ answer'[worker'[w].req] = None
               /\ sent'[worker'[w].req] # None /\ sent'[worker'[w].req].rpc \in Mutations
               /\ \A v \in Worker : Waits(v)' /\ worker'[v].req = worker'[w].req => v = w
    BY <1>1, <1>2, <1>5, <1>7, <2>3 DEF PoolInv
  <2> QED BY <1>4, <2>1, <2>2, <2>3 DEF PoolInv
<1>10. WaitInv' /\ EntryInv' /\ AppliedInv' /\ ForwardInv'
  BY <1>1, <1>2, <1>7 DEF WaitInv, WaitOk, EntryInv, AppliedInv, ForwardInv
<1>11. AckedInv'
  <2>1. ~Acked(r) /\ ~Acked(r)'
    <3>1. answer[r] = None
      BY <1>4 DEF Untouched
    <3>2. ~Acked(r)
      BY <3>1, AckIsAnswer DEF Acked
    <3>3. ASSUME sent[r].rpc \in Mutations PROVE x # [spl_rc |-> 0, raft_rc |-> "OK"]
      <4>1. x.raft_rc = "NOT_LEADER"
        BY <1>2, <3>3
      <4> QED BY <4>1
    <3> QED BY <1>2, <1>5, <3>2, <3>3 DEF Acked
  <2>2. \A q \in Request : q # r => (Acked(q)' <=> Acked(q))
    BY <1>2, <1>5 DEF Acked
  <2>3. \A p \in Request : \A q \in before[p] : q \in Request
    BY <1>1 DEF RpcTypeOK
  <2>4. \A p \in Request : \A q \in before[p] : Acked(q)'
    BY <1>1, <2>1, <2>2, <2>3 DEF AckedInv
  <2>5. \A q \in Request : Acked(q)' => at'[q] \in 1..Reached(q)'
    BY <1>1, <1>2, <2>1, <2>2 DEF AckedInv, Reached
  <2> QED BY <1>2, <2>4, <2>5 DEF AckedInv
<1> QED BY <1>6, <1>9, <1>10, <1>11 DEF RpcInv

(* A worker takes the next request and waits. *)
LEMMA PoolTakes ==
  ASSUME RpcTypeOK, PoolInv, NEW w \in Worker, NEW r \in Request, NEW st \in WorkerState,
         st.req = r, st.pc \in {"wait", "forward"}, WaitsFor(w, r, st),
         \A q \in Request : q # r => at'[q] = at[q] /\ forward'[q] = forward[q]
  PROVE  /\ sent[r] \in Call /\ sent[r] # None /\ Untouched(r) /\ queue' \in Seq(Request)
         /\ worker' \in [Worker -> WorkerState] /\ worker'[w] = st
         /\ \A v \in Worker : v # w /\ Waits(v)' =>
              /\ Waits(v) /\ worker'[v] = worker[v]
              /\ worker[v].req # r /\ worker[v].req \in Request
         /\ PoolInv'
<1>2. /\ queue # <<>> /\ r = Head(queue) /\ queue' = Tail(queue)
      /\ worker[w].pc = "idle" /\ sent[r].rpc \in Mutations
      /\ worker' = [worker EXCEPT ![w] = st]
      /\ UNCHANGED <<sent, answer>>
  BY DEF WaitsFor
<1>3. /\ queue \in Seq(Request) /\ worker \in [Worker -> WorkerState]
      /\ sent \in [Request -> Call \cup {None}]
  BY DEF RpcTypeOK
<1>4. /\ sent[r] # None /\ Untouched(r) /\ queue' \in Seq(Request)
      /\ \A i \in 1..Len(queue') : i + 1 \in 1..Len(queue) /\ queue'[i] = queue[i + 1]
                                   /\ queue'[i] # r
      /\ \A i, j \in 1..Len(queue') : queue'[i] = queue'[j] => i = j
  BY <1>2, <1>3, QueueHead
<1>5. /\ worker' \in [Worker -> WorkerState] /\ worker'[w] = st
      /\ \A v \in Worker : v # w => worker'[v] = worker[v]
  BY <1>2, <1>3
<1>6. /\ Waits(w)' /\ ~Waits(w) /\ \A v \in Worker : v # w => (Waits(v)' <=> Waits(v))
      /\ \A v \in Worker : Waits(v) => worker[v].req # r
  BY <1>2, <1>4, <1>5 DEF Waits, Untouched
<1>7. \A q \in Request : q # r /\ Untouched(q) => Untouched(q)'
  BY <1>2, <1>5, <1>6 DEF Untouched
<1>8. PoolInv'
  <2>1. \A q \in Request : sent'[q] = None => Untouched(q)'
    BY <1>2, <1>4, <1>7 DEF PoolInv
  <2>2. \A i \in 1..Len(queue'), q \in Request :
          queue'[i] = q => sent'[q] # None /\ Untouched(q)'
    BY <1>2, <1>4, <1>7 DEF PoolInv
  <2>3. ASSUME NEW v \in Worker, Waits(v)'
        PROVE  /\ worker'[v].req \in Request /\ answer'[worker'[v].req] = None
               /\ sent'[worker'[v].req] # None /\ sent'[worker'[v].req].rpc \in Mutations
               /\ \A u \in Worker : Waits(u)' /\ worker'[u].req = worker'[v].req => u = v
    <3>1. CASE v = w
      <4>1. answer[r] = None
        BY <1>4 DEF Untouched
      <4> QED BY <1>2, <1>4, <1>5, <1>6, <3>1, <4>1
    <3>2. CASE v # w
      BY <1>2, <1>5, <1>6, <2>3, <3>2 DEF PoolInv
    <3> QED BY <3>1, <3>2
  <2> QED BY <1>4, <2>1, <2>2, <2>3 DEF PoolInv
<1>9. \A v \in Worker : Waits(v) => worker[v].req \in Request
  BY DEF PoolInv
<1> QED BY <1>3, <1>4, <1>5, <1>6, <1>8, <1>9

(* The entry of a request is appended, here or by the server that leads. *)
LEMMA LogGrows ==
  ASSUME RpcTypeOK, EntryInv, AppliedInv, NEW r \in Request, at[r] = 0,
         sent[r] \in Call, sent[r] # None, sent[r].rpc \in Mutations,
         log' = Append(log, serialize(operation_of(sent[r]))),
         at' = [at EXCEPT ![r] = Len(log) + 1], UNCHANGED <<sent, applied>>
  PROVE  /\ log' \in Seq({serialize(op) : op \in Operation})
         /\ Len(log) \in Nat /\ Len(log') = Len(log) + 1
         /\ at' \in [Request -> Nat] /\ at'[r] = Len(log) + 1
         /\ \A q \in Request : q # r => at'[q] = at[q]
         /\ EntryInv' /\ AppliedInv'
<1>3. /\ log \in Seq({serialize(op) : op \in Operation}) /\ at \in [Request -> Nat]
      /\ Len(applied) = last_committed_idx
      /\ last_committed_idx \in Nat /\ commit_idx \in Nat
      /\ last_committed_idx <= commit_idx /\ commit_idx <= Len(log)
  BY DEF RpcTypeOK
<1>5. PICK n \in Nat : n = Len(log)
  BY <1>3
<1>6. serialize(operation_of(sent[r])) \in {serialize(op) : op \in Operation}
  BY DEF Operation
<1>7. /\ log' \in Seq({serialize(op) : op \in Operation}) /\ Len(log') = n + 1
      /\ log'[n + 1] = serialize(operation_of(sent[r]))
      /\ \A i \in 1..n : log'[i] = log[i]
  <2>1. PICK e : e = serialize(operation_of(sent[r]))
    OBVIOUS
  <2> QED BY <1>3, <1>5, <1>6, <2>1, AppendProperties
<1>11. /\ at' \in [Request -> Nat] /\ at'[r] = n + 1
       /\ \A q \in Request : q # r => at'[q] = at[q]
  BY <1>3, <1>5
<1>17. EntryInv'
  <2> SUFFICES ASSUME NEW q \in Request
               PROVE  /\ at'[q] <= n + 1
                      /\ at'[q] > 0 => /\ sent[q] # None /\ sent[q].rpc \in Mutations
                                       /\ log'[at'[q]] = serialize(operation_of(sent[q]))
    BY <1>7 DEF EntryInv
  <2>1. CASE q = r
    BY <1>7, <1>11, <2>1
  <2>2. CASE q # r
    <3>1. at'[q] = at[q] /\ at[q] \in Nat /\ at[q] <= n
      BY <1>3, <1>5, <1>11, <2>2 DEF EntryInv
    <3>2. at[q] > 0 => log'[at[q]] = log[at[q]]
      BY <1>7, <3>1
    <3> QED BY <3>1, <3>2 DEF EntryInv
  <2> QED BY <2>1, <2>2
<1>18. AppliedInv'
  <2>1. \A i \in 1..Len(applied) : log'[i] = log[i]
    BY <1>3, <1>5, <1>7
  <2> QED BY <2>1 DEF AppliedInv
<1> QED BY <1>5, <1>7, <1>11, <1>17, <1>18

LEMMA InvAppends ==
  ASSUME RpcInv, NEW w \in Worker, NEW r \in Request, AppendsFor(w, r)
  PROVE  RpcInv'
<1>1. RpcTypeOK /\ PoolInv /\ WaitInv /\ ForwardInv /\ EntryInv /\ AppliedInv /\ AckedInv
  BY DEF RpcInv
<1>0. log \in Seq({serialize(op) : op \in Operation})
  BY <1>1 DEF RpcTypeOK
<1>2. PICK n \in Nat : n = Len(log)
  BY <1>0
<1>3. PICK st : st = [pc |-> "wait", req |-> r, res |-> None, idx |-> n + 1]
  OBVIOUS
<1>4. st \in WorkerState /\ st.pc = "wait" /\ st.req = r /\ st.res = None /\ st.idx = n + 1
  BY <1>3 DEF WorkerState
<1>5. /\ WaitsFor(w, r, st) /\ sent[r].rpc \in Mutations
      /\ log' = Append(log, serialize(operation_of(sent[r])))
      /\ at' = [at EXCEPT ![r] = Len(log) + 1]
      /\ UNCHANGED <<forward, sent, before, commit_idx, spl, last_committed_idx, applied, answer>>
  BY <1>2, <1>3 DEF AppendsFor, WaitsFor
<1>6. \A q \in Request : q # r => at'[q] = at[q] /\ forward'[q] = forward[q]
  BY <1>1, <1>5 DEF RpcTypeOK
<1>7. /\ sent[r] \in Call /\ sent[r] # None /\ Untouched(r) /\ queue' \in Seq(Request)
      /\ worker' \in [Worker -> WorkerState] /\ worker'[w] = st
      /\ \A v \in Worker : v # w /\ Waits(v)' =>
           /\ Waits(v) /\ worker'[v] = worker[v]
           /\ worker[v].req # r /\ worker[v].req \in Request
      /\ PoolInv'
  BY <1>1, <1>4, <1>5, <1>6, PoolTakes
<1>8. at[r] = 0 /\ answer[r] = None /\ forward[r] = "none"
  BY <1>7 DEF Untouched
<1>9. /\ log' \in Seq({serialize(op) : op \in Operation})
      /\ Len(log') = Len(log) + 1 /\ at' \in [Request -> Nat] /\ at'[r] = n + 1
      /\ EntryInv' /\ AppliedInv'
  BY <1>1, <1>2, <1>5, <1>7, <1>8, LogGrows
<1>10. RpcTypeOK'
  BY <1>1, <1>2, <1>5, <1>7, <1>9 DEF RpcTypeOK
<1>11. WaitInv'
  <2> SUFFICES ASSUME NEW v \in Worker, Waits(v)' PROVE WaitOk(v)'
    BY DEF WaitInv
  <2>1. CASE v = w
    BY <1>4, <1>5, <1>7, <1>8, <1>9, <2>1 DEF WaitOk
  <2>2. CASE v # w
    <3>1. /\ Waits(v) /\ worker'[v] = worker[v] /\ worker[v].req # r /\ worker[v].req \in Request
          /\ WaitOk(v)
      BY <1>1, <1>7, <2>2 DEF WaitInv
    <3> QED BY <1>5, <1>6, <3>1, WaitKept
  <2> QED BY <2>1, <2>2
<1>12. ForwardInv'
  BY <1>1, <1>5, <1>6, <1>8 DEF ForwardInv
<1>13. AckedInv'
  <2>1. \A q : Acked(q)' <=> Acked(q)
    BY <1>5 DEF Acked
  <2>2. ~Acked(r)
    BY <1>8, AckIsAnswer DEF Acked
  <2>3. \A q \in Request : Acked(q)' => at'[q] \in 1..Reached(q)'
    BY <1>1, <1>5, <1>6, <2>1, <2>2 DEF AckedInv, Reached
  <2> QED BY <1>1, <1>5, <2>1, <2>3 DEF AckedInv
<1> QED BY <1>7, <1>9, <1>10, <1>11, <1>12, <1>13 DEF RpcInv

LEMMA InvForwards ==
  ASSUME RpcInv, NEW w \in Worker, NEW r \in Request, Forwards(w, r)
  PROVE  RpcInv'
<1>1. RpcTypeOK /\ PoolInv /\ WaitInv /\ ForwardInv /\ EntryInv /\ AppliedInv /\ AckedInv
  BY DEF RpcInv
<1>2. PICK st : st = [pc |-> "forward", req |-> r, res |-> None, idx |-> 0]
  OBVIOUS
<1>3. st \in WorkerState /\ st.pc = "forward" /\ st.req = r
  BY <1>2 DEF WorkerState
<1>4. /\ WaitsFor(w, r, st) /\ sent[r].rpc \in Mutations
      /\ forward' = [forward EXCEPT ![r] = "sent"]
      /\ UNCHANGED <<log, at, sent, before, commit_idx, spl, last_committed_idx, applied, answer>>
  BY <1>2 DEF Forwards, WaitsFor
<1>5. /\ forward' \in [Request -> {"none", "sent", "done"}] /\ forward'[r] = "sent"
      /\ \A q \in Request : q # r => at'[q] = at[q] /\ forward'[q] = forward[q]
  BY <1>1, <1>4 DEF RpcTypeOK
<1>6. /\ sent[r] \in Call /\ sent[r] # None /\ Untouched(r) /\ queue' \in Seq(Request)
      /\ worker' \in [Worker -> WorkerState] /\ worker'[w] = st
      /\ \A v \in Worker : v # w /\ Waits(v)' =>
           /\ Waits(v) /\ worker'[v] = worker[v]
           /\ worker[v].req # r /\ worker[v].req \in Request
      /\ PoolInv'
  BY <1>1, <1>3, <1>4, <1>5, PoolTakes
<1>7. at[r] = 0 /\ answer[r] = None
  BY <1>6 DEF Untouched
<1>8. RpcTypeOK'
  BY <1>1, <1>4, <1>5, <1>6 DEF RpcTypeOK
<1>9. WaitInv'
  <2> SUFFICES ASSUME NEW v \in Worker, Waits(v)' PROVE WaitOk(v)'
    BY DEF WaitInv
  <2>1. CASE v = w
    BY <1>3, <1>5, <1>6, <2>1 DEF WaitOk
  <2>2. CASE v # w
    <3>1. /\ Waits(v) /\ worker'[v] = worker[v] /\ worker[v].req # r /\ worker[v].req \in Request
          /\ WaitOk(v)
      BY <1>1, <1>6, <2>2 DEF WaitInv
    <3> QED BY <1>4, <1>5, <3>1, WaitKept
  <2> QED BY <2>1, <2>2
<1>10. EntryInv' /\ AppliedInv' /\ ForwardInv'
  BY <1>1, <1>4, <1>5, <1>6, <1>7 DEF EntryInv, AppliedInv, ForwardInv
<1>11. AckedInv'
  <2>1. \A q : Acked(q)' <=> Acked(q)
    BY <1>4 DEF Acked
  <2>2. ~Acked(r)
    BY <1>7, AckIsAnswer DEF Acked
  <2>3. \A q \in Request : Acked(q)' => at'[q] \in 1..Reached(q)'
    BY <1>1, <1>4, <1>5, <2>1, <2>2 DEF AckedInv, Reached
  <2> QED BY <1>1, <1>4, <2>1, <2>3 DEF AckedInv
<1> QED BY <1>6, <1>8, <1>9, <1>10, <1>11 DEF RpcInv

LEMMA InvArrives ==
  ASSUME RpcInv, NEW r \in Request, Arrives(r)
  PROVE  RpcInv'
<1>1. RpcTypeOK /\ PoolInv /\ WaitInv /\ ForwardInv /\ EntryInv /\ AppliedInv /\ AckedInv
  BY DEF RpcInv
<1>2. /\ forward[r] = "sent" /\ forward' = [forward EXCEPT ![r] = "done"]
      /\ log' = Append(log, serialize(operation_of(sent[r])))
      /\ at' = [at EXCEPT ![r] = Len(log) + 1]
      /\ UNCHANGED <<queue, worker, sent, before, commit_idx, spl, last_committed_idx, applied,
                     answer>>
  BY DEF Arrives
<1>3. at[r] = 0 /\ sent[r] # None /\ sent[r].rpc \in Mutations /\ sent[r] \in Call
  BY <1>1, <1>2 DEF ForwardInv, RpcTypeOK
<1>4. /\ log' \in Seq({serialize(op) : op \in Operation})
      /\ Len(log) \in Nat /\ Len(log') = Len(log) + 1
      /\ at' \in [Request -> Nat] /\ \A q \in Request : q # r => at'[q] = at[q]
      /\ EntryInv' /\ AppliedInv'
  BY <1>1, <1>2, <1>3, LogGrows
<1>5. /\ forward' \in [Request -> {"none", "sent", "done"}] /\ forward'[r] = "done"
      /\ \A q \in Request : q # r => forward'[q] = forward[q]
  BY <1>1, <1>2 DEF RpcTypeOK
<1>6. RpcTypeOK'
  BY <1>1, <1>2, <1>4, <1>5 DEF RpcTypeOK
<1>7. \A v \in Worker : Waits(v)' <=> Waits(v)
  BY <1>2 DEF Waits
<1>8. \A q \in Request : Untouched(q) => Untouched(q)'
  BY <1>2, <1>4, <1>5, <1>7 DEF Untouched
<1>9. PoolInv'
  BY <1>1, <1>2, <1>7, <1>8 DEF PoolInv
<1>10. WaitInv'
  <2> SUFFICES ASSUME NEW v \in Worker, Waits(v) PROVE WaitOk(v)'
    BY <1>7 DEF WaitInv
  <2>1. WaitOk(v) /\ worker'[v] = worker[v] /\ worker[v].req \in Request
    BY <1>1, <1>2 DEF WaitInv, PoolInv
  <2>2. CASE worker[v].req = r
    BY <1>2, <1>5, <2>1, <2>2 DEF WaitOk
  <2>3. CASE worker[v].req # r
    BY <1>2, <1>4, <1>5, <2>1, <2>3, WaitKept
  <2> QED BY <2>2, <2>3
<1>11. ForwardInv'
  BY <1>1, <1>2, <1>4, <1>5 DEF ForwardInv
<1>12. AckedInv'
  <2>1. \A q : Acked(q)' <=> Acked(q)
    BY <1>2 DEF Acked
  <2>2. ~Acked(r)
    BY <1>1, <1>3 DEF AckedInv, RpcTypeOK, Reached
  <2>3. \A q \in Request : Acked(q)' => at'[q] \in 1..Reached(q)'
    BY <1>1, <1>2, <1>4, <1>5, <2>1, <2>2 DEF AckedInv, Reached
  <2> QED BY <1>1, <1>2, <2>1, <2>3 DEF AckedInv
<1> QED BY <1>4, <1>6, <1>9, <1>10, <1>11, <1>12 DEF RpcInv

LEMMA InvReturns ==
  ASSUME RpcInv, NEW w \in Worker, NEW res \in Result, Returns(w, res)
  PROVE  RpcInv'
<1>1. RpcTypeOK /\ PoolInv /\ WaitInv /\ ForwardInv /\ EntryInv /\ AppliedInv /\ AckedInv
  BY DEF RpcInv
<1>2. PICK r : r = worker[w].req
  OBVIOUS
<1>3. /\ Waits(w)
      /\ res.code = "OK" =>
           IF worker[w].pc = "wait" THEN worker[w].res # None /\ res = worker[w].res
                                    ELSE at[r] \in 1..commit_idx
      /\ answer' = [answer EXCEPT ![r] = extract_result(res)]
      /\ worker' = [worker EXCEPT ![w] = Idle]
      /\ \/ UNCHANGED forward
         \/ forward[r] = "sent" /\ forward' = [forward EXCEPT ![r] = "done"]
      /\ UNCHANGED <<queue, sent, before, log, commit_idx, spl, last_committed_idx, at, applied>>
  BY <1>2 DEF Returns
<1>4. Idle \in WorkerState /\ Idle.pc = "idle"
  BY DEF Idle, WorkerState
<1>5. /\ worker \in [Worker -> WorkerState] /\ worker' \in [Worker -> WorkerState]
      /\ worker'[w] = Idle /\ \A v \in Worker : v # w => worker'[v] = worker[v]
  BY <1>1, <1>3, <1>4 DEF RpcTypeOK
<1>0. WaitOk(w)
  BY <1>1, <1>3 DEF WaitInv
<1>6. /\ r \in Request /\ answer[r] = None /\ sent[r] # None /\ sent[r].rpc \in Mutations
      /\ \A v \in Worker : Waits(v) /\ v # w => worker[v].req # r
  BY <1>1, <1>2, <1>3 DEF PoolInv
<1>7. /\ answer'[r] = extract_result(res)
      /\ \A q \in Request : q # r => answer'[q] = answer[q]
      /\ answer' = [q \in Request |-> answer'[q]]
  <2>1. answer = [q \in Request |-> answer[q]]
    BY <1>1 DEF RpcTypeOK
  <2> QED BY <1>3, <1>6, <2>1
<1>15. /\ forward' \in [Request -> {"none", "sent", "done"}]
       /\ \A q \in Request : q # r => forward'[q] = forward[q]
       /\ forward'[r] = "none" <=> forward[r] = "none"
       /\ forward'[r] = "sent" => forward[r] = "sent"
  BY <1>1, <1>3, <1>6 DEF RpcTypeOK
<1>8. RpcTypeOK'
  BY <1>1, <1>3, <1>5, <1>7, <1>15 DEF RpcTypeOK
<1>9. ~Waits(w)' /\ \A v \in Worker : Waits(v)' => Waits(v) /\ v # w /\ worker'[v] = worker[v]
  BY <1>4, <1>5 DEF Waits
<1>10. \A q \in Request : Untouched(q) => q # r /\ Untouched(q)'
  BY <1>2, <1>3, <1>7, <1>9, <1>15 DEF Untouched
<1>11. PoolInv'
  <2>1. \A q \in Request : sent'[q] = None => Untouched(q)'
    BY <1>1, <1>3, <1>10 DEF PoolInv
  <2>2. \A i \in 1..Len(queue'), q \in Request :
          queue'[i] = q => sent'[q] # None /\ Untouched(q)'
    BY <1>1, <1>3, <1>10 DEF PoolInv
  <2>3. ASSUME NEW v \in Worker, Waits(v)'
        PROVE  /\ worker'[v].req \in Request /\ answer'[worker'[v].req] = None
               /\ sent'[worker'[v].req] # None /\ sent'[worker'[v].req].rpc \in Mutations
               /\ \A u \in Worker : Waits(u)' /\ worker'[u].req = worker'[v].req => u = v
    BY <1>1, <1>3, <1>6, <1>7, <1>9, <2>3 DEF PoolInv
  <2> QED BY <1>1, <1>3, <2>1, <2>2, <2>3 DEF PoolInv
<1>12. WaitInv'
  <2> SUFFICES ASSUME NEW v \in Worker, Waits(v)' PROVE WaitOk(v)'
    BY DEF WaitInv
  <2>1. /\ Waits(v) /\ v # w /\ worker'[v] = worker[v] /\ WaitOk(v)
        /\ worker[v].req # r /\ worker[v].req \in Request
    BY <1>1, <1>6, <1>9 DEF WaitInv, PoolInv
  <2> QED BY <1>3, <1>15, <2>1, WaitKept
<1>13. EntryInv' /\ AppliedInv' /\ ForwardInv'
  <2>1. EntryInv' /\ AppliedInv'
    BY <1>1, <1>3 DEF EntryInv, AppliedInv
  <2> QED BY <1>1, <1>3, <1>15, <2>1 DEF ForwardInv
<1>14. AckedInv'
  <2>1. ~Acked(r)
    BY <1>6, AckIsAnswer DEF Acked
  <2>2. Acked(r)' => at[r] \in 1..Reached(r)
    <3> SUFFICES ASSUME answer'[r] = [spl_rc |-> 0, raft_rc |-> "OK"]
                 PROVE  at[r] \in 1..Reached(r)
      BY DEF Acked
    <3>1. extract_result(res).raft_rc = "OK"
      BY <1>7
    <3>2. res.code = "OK"
      BY <3>1 DEF extract_result
    <3>3. CASE worker[w].pc = "wait"
      <4>1. /\ at[r] = worker[w].idx /\ worker[w].idx <= last_committed_idx
            /\ worker[w].idx > 0 /\ forward[r] = "none"
        BY <1>0, <1>2, <1>3, <3>2, <3>3 DEF WaitOk
      <4>2. worker[w].idx \in Nat /\ last_committed_idx \in Nat
        BY <1>1 DEF RpcTypeOK, WorkerState
      <4> QED BY <4>1, <4>2 DEF Reached
    <3>4. CASE worker[w].pc # "wait"
      <4>1. forward[r] # "none" /\ at[r] \in 1..commit_idx
        BY <1>0, <1>2, <1>3, <3>2, <3>4 DEF WaitOk
      <4> QED BY <4>1 DEF Reached
    <3> QED BY <3>3, <3>4
  <2>7. \A q \in Request : Reached(q)' = Reached(q)
    BY <1>3, <1>15 DEF Reached
  <2>3. \A q \in Request : q # r => (Acked(q)' <=> Acked(q))
    BY <1>3, <1>7 DEF Acked
  <2>4. \A q \in Request : Acked(q)' => at'[q] \in 1..Reached(q)'
    BY <1>1, <1>3, <2>2, <2>3, <2>7 DEF AckedInv
  <2>5. \A p \in Request : \A q \in before[p] : q \in Request /\ Acked(q)
    BY <1>1 DEF RpcTypeOK, AckedInv
  <2>6. \A p \in Request : \A q \in before'[p] : Acked(q)'
    BY <1>3, <2>1, <2>3, <2>5
  <2> QED BY <2>4, <2>6 DEF AckedInv
<1> QED BY <1>8, <1>11, <1>12, <1>13, <1>14 DEF RpcInv

LEMMA InvRests ==
  ASSUME RpcInv, Rests
  PROVE  RpcInv'
<1>1. \A q : (Untouched(q)' <=> Untouched(q)) /\ (Acked(q)' <=> Acked(q))
  BY DEF Rests, Untouched, Acked, Waits
<1>2. \A w : Waits(w)' <=> Waits(w)
  BY DEF Rests, Waits
<1>3. RpcTypeOK' /\ EntryInv' /\ AppliedInv' /\ ForwardInv'
  BY DEF RpcInv, Rests, RpcTypeOK, EntryInv, AppliedInv, ForwardInv
<1>4. PoolInv'
  BY <1>1, <1>2 DEF RpcInv, Rests, PoolInv
<1>5. WaitInv'
  BY <1>2 DEF RpcInv, Rests, WaitInv, WaitOk
<1>6. AckedInv'
  BY <1>1 DEF RpcInv, Rests, AckedInv, Reached
<1> QED BY <1>3, <1>4, <1>5, <1>6 DEF RpcInv

LEMMA InvAdvances ==
  ASSUME RpcInv, Advances
  PROVE  RpcInv'
<1>1. \A q : (Untouched(q)' <=> Untouched(q)) /\ (Acked(q)' <=> Acked(q))
  BY DEF Advances, Untouched, Acked, Waits
<1>2. \A w : Waits(w)' <=> Waits(w)
  BY DEF Advances, Waits
<1>3. RpcTypeOK' /\ EntryInv' /\ AppliedInv' /\ ForwardInv'
  BY DEF RpcInv, Advances, RpcTypeOK, EntryInv, AppliedInv, ForwardInv
<1>4. PoolInv'
  BY <1>1, <1>2 DEF RpcInv, Advances, PoolInv
<1>5. WaitInv'
  BY <1>2 DEF RpcInv, Advances, WaitInv, WaitOk
<1>6. AckedInv'
  BY <1>1 DEF RpcInv, RpcTypeOK, Advances, AckedInv, Reached
<1> QED BY <1>3, <1>4, <1>5, <1>6 DEF RpcInv

(* Giving results to workers leaves their requests alone. *)
LEMMA ResultsKeep ==
  ASSUME worker \in [Worker -> WorkerState], NEW C, NEW res \in Result, Results(C, res)
  PROVE  /\ worker' \in [Worker -> WorkerState]
         /\ \A w \in Worker :
              /\ worker'[w].pc = worker[w].pc /\ worker'[w].req = worker[w].req
              /\ worker'[w].idx = worker[w].idx
              /\ worker'[w].res = IF w \in C THEN res ELSE worker[w].res
<1>1. \A w \in Worker : worker'[w] = IF w \in C THEN [worker[w] EXCEPT !.res = res] ELSE worker[w]
  BY DEF Results
<1>2. ASSUME NEW st \in WorkerState
      PROVE  LET new == [st EXCEPT !.res = res] IN
             /\ new \in WorkerState /\ new.pc = st.pc /\ new.req = st.req /\ new.idx = st.idx
             /\ new.res = res
  BY DEF WorkerState
<1>3. \A w \in Worker : worker[w] \in WorkerState
  OBVIOUS
<1>4. \A w \in Worker : worker'[w] \in WorkerState
  BY <1>1, <1>2, <1>3
<1>5. worker' \in [Worker -> WorkerState]
  BY <1>4 DEF Results
<1>6. ASSUME NEW w \in Worker
      PROVE  /\ worker'[w].pc = worker[w].pc /\ worker'[w].req = worker[w].req
             /\ worker'[w].idx = worker[w].idx
             /\ worker'[w].res = IF w \in C THEN res ELSE worker[w].res
  <2>1. CASE w \in C
    BY <1>1, <1>2, <1>3, <2>1
  <2>2. CASE w \notin C
    BY <1>1, <2>2
  <2> QED BY <2>1, <2>2
<1> QED BY <1>5, <1>6

(* ... and with that the pool. *)
LEMMA PoolKept ==
  ASSUME PoolInv, UNCHANGED <<queue, sent, answer, forward>>,
         \A q \in Request : at[q] = 0 => at'[q] = 0,
         \A w \in Worker : /\ worker'[w].pc = worker[w].pc /\ worker'[w].req = worker[w].req
                           /\ worker'[w].idx = worker[w].idx
  PROVE  PoolInv'
<1>1. \A w \in Worker : Waits(w)' <=> Waits(w)
  BY DEF Waits
<1>2. \A q \in Request : Untouched(q) => Untouched(q)'
  BY <1>1 DEF Untouched
<1>3. \A q \in Request : sent'[q] = None => Untouched(q)'
  BY <1>2 DEF PoolInv
<1>4. \A i \in 1..Len(queue'), q \in Request : queue'[i] = q => sent'[q] # None /\ Untouched(q)'
  BY <1>2 DEF PoolInv
<1>5. ASSUME NEW w \in Worker, Waits(w)'
      PROVE  /\ worker'[w].req \in Request /\ answer'[worker'[w].req] = None
             /\ sent'[worker'[w].req] # None /\ sent'[worker'[w].req].rpc \in Mutations
             /\ \A v \in Worker : Waits(v)' /\ worker'[v].req = worker'[w].req => v = w
  BY <1>1, <1>5 DEF PoolInv
<1> QED BY <1>3, <1>4, <1>5 DEF PoolInv

LEMMA InvCommits ==
  ASSUME RpcInv, NEW n \in Nat, NEW rc \in ReturnCodes, CommitsOne(n, rc)
  PROVE  RpcInv'
<1>1. RpcTypeOK /\ PoolInv /\ WaitInv /\ ForwardInv /\ EntryInv /\ AppliedInv /\ AckedInv
  BY DEF RpcInv
<1>2. PICK res : res = [code |-> "OK", buf |-> rc]
  OBVIOUS
<1>3. res \in Result /\ res.code = "OK" /\ res # None
  BY <1>2, NoneAssumption DEF Result, Codes
<1>4. PICK op : op = deserialize(log[n])
  OBVIOUS
<1>5. PICK e : e = [op |-> op, rc |-> rc]
  OBVIOUS
<1>6. /\ n = last_committed_idx + 1 /\ n <= commit_idx
      /\ last_committed_idx' = n /\ applied' = Append(applied, e)
      /\ Results(Waiting({n}), res)
      /\ UNCHANGED <<queue, sent, before, log, commit_idx, forward, at, answer>>
  BY <1>2, <1>4, <1>5 DEF CommitsOne
<1>7. /\ worker \in [Worker -> WorkerState] /\ last_committed_idx \in Nat /\ commit_idx \in Nat
      /\ log \in Seq({serialize(o) : o \in Operation}) /\ commit_idx <= Len(log)
      /\ applied \in Seq([op : Operation, rc : ReturnCodes]) /\ Len(applied) = last_committed_idx
      /\ at \in [Request -> Nat]
  BY <1>1 DEF RpcTypeOK
<1>8. op \in Operation
  <2>1. n \in 1..Len(log)
    BY <1>6, <1>7
  <2>2. PICK o \in Operation : log[n] = serialize(o)
    BY <1>7, <2>1
  <2>3. PICK c \in Call : c.rpc \in Mutations /\ o = operation_of(c)
    BY <2>2 DEF Operation
  <2> QED BY <1>4, <2>2, <2>3, RoundTrip
<1>9. e \in [op : Operation, rc : ReturnCodes] /\ e.op = op
  BY <1>5, <1>8
<1>10. /\ applied' \in Seq([op : Operation, rc : ReturnCodes]) /\ Len(applied') = n
       /\ applied'[n] = e /\ \A i \in 1..Len(applied) : applied'[i] = applied[i]
  BY <1>6, <1>7, <1>9, AppendProperties
<1>11. /\ worker' \in [Worker -> WorkerState]
       /\ \A w \in Worker :
            /\ worker'[w].pc = worker[w].pc /\ worker'[w].req = worker[w].req
            /\ worker'[w].idx = worker[w].idx
            /\ worker'[w].res = IF w \in Waiting({n}) THEN res ELSE worker[w].res
  BY <1>3, <1>6, <1>7, ResultsKeep
<1>12. RpcTypeOK'
  BY <1>1, <1>6, <1>7, <1>10, <1>11 DEF RpcTypeOK
<1>13. PoolInv'
  BY <1>1, <1>6, <1>11, PoolKept
<1>14. WaitInv'
  <2> SUFFICES ASSUME NEW w \in Worker, Waits(w)' PROVE WaitOk(w)'
    BY DEF WaitInv
  <2>1. Waits(w) /\ WaitOk(w) /\ worker[w].idx \in Nat
    BY <1>1, <1>7, <1>11 DEF Waits, WorkerState, WaitInv
  <2>2. CASE w \in Waiting({n})
    <3>1. worker[w].pc = "wait" /\ worker[w].res = None /\ worker[w].idx = n
      BY <2>2 DEF Waiting
    <3>2. at[worker[w].req] = n
      BY <2>1, <3>1 DEF WaitOk
    <3> QED BY <1>3, <1>6, <1>11, <2>1, <2>2, <3>1, <3>2 DEF WaitOk
  <2>3. CASE w \notin Waiting({n})
    <3>1. worker'[w].res = worker[w].res
      BY <1>11, <2>3
    <3> QED BY <1>6, <1>7, <1>11, <2>1, <3>1 DEF WaitOk
  <2> QED BY <2>2, <2>3
<1>15. EntryInv' /\ ForwardInv'
  BY <1>1, <1>6 DEF EntryInv, ForwardInv
<1>16. AppliedInv'
  <2> SUFFICES ASSUME NEW i \in 1..n PROVE applied'[i].op = deserialize(log[i])
    BY <1>6, <1>10 DEF AppliedInv
  <2>1. CASE i = n
    BY <1>4, <1>9, <1>10, <2>1
  <2>2. CASE i # n
    <3>1. i \in 1..Len(applied)
      BY <1>6, <1>7, <2>2
    <3> QED BY <1>1, <1>10, <3>1 DEF AppliedInv
  <2> QED BY <2>1, <2>2
<1>17. AckedInv'
  <2>1. \A q : Acked(q)' <=> Acked(q)
    BY <1>6 DEF Acked
  <2>2. \A q \in Request : Acked(q)' => at'[q] \in 1..Reached(q)'
    BY <1>1, <1>6, <1>7, <2>1 DEF AckedInv, Reached
  <2> QED BY <1>1, <1>6, <2>1, <2>2 DEF AckedInv
<1> QED BY <1>12, <1>13, <1>14, <1>15, <1>16, <1>17 DEF RpcInv

LEMMA InvKeeps ==
  ASSUME RpcInv, NEW keep \in Nat, Keeps(keep)
  PROVE  RpcInv'
<1>1. RpcTypeOK /\ PoolInv /\ WaitInv /\ ForwardInv /\ EntryInv /\ AppliedInv /\ AckedInv
  BY DEF RpcInv
<1>2. PICK res, C : /\ res = [code |-> "CANCELLED", buf |-> None]
                    /\ C = Waiting(Nat)
  OBVIOUS
<1>3. res \in Result /\ res.code # "OK" /\ res # None
  BY <1>2, NoneAssumption DEF Result, Codes
<1>4. /\ keep \in commit_idx..Len(log) /\ log' = SubSeq(log, 1, keep)
      /\ at' = [r \in Request |-> IF at[r] > keep THEN 0 ELSE at[r]]
      /\ Results(C, res)
      /\ UNCHANGED <<queue, sent, before, commit_idx, spl, last_committed_idx, forward, applied,
                     answer>>
  BY <1>2 DEF Keeps
<1>5. /\ worker \in [Worker -> WorkerState] /\ last_committed_idx \in Nat /\ commit_idx \in Nat
      /\ log \in Seq({serialize(o) : o \in Operation}) /\ commit_idx <= Len(log)
      /\ Len(applied) = last_committed_idx /\ last_committed_idx <= commit_idx
      /\ at \in [Request -> Nat]
  BY <1>1 DEF RpcTypeOK
<1>6. /\ log' \in Seq({serialize(o) : o \in Operation}) /\ Len(log') = keep
      /\ \A i \in 1..keep : log'[i] = log[i]
  <2>1. PICK E : E = {serialize(o) : o \in Operation}
    OBVIOUS
  <2>2. PICK c \in Nat : c = keep
    OBVIOUS
  <2>3. log \in Seq(E) /\ Len(log) \in Nat /\ c <= Len(log) /\ log' = SubSeq(log, 1, c)
    BY <1>4, <1>5, <2>1, <2>2
  <2>4. log' \in Seq(E) /\ Len(log') = c /\ \A i \in 1..c : log'[i] = log[i]
    BY <2>2, <2>3
  <2> QED BY <2>1, <2>2, <2>4
<1>7. /\ worker' \in [Worker -> WorkerState]
      /\ \A w \in Worker :
            /\ worker'[w].pc = worker[w].pc /\ worker'[w].req = worker[w].req
            /\ worker'[w].idx = worker[w].idx
            /\ worker'[w].res = IF w \in C THEN res ELSE worker[w].res
  BY <1>3, <1>4, <1>5, ResultsKeep
<1>8. /\ at' \in [Request -> Nat]
      /\ \A q \in Request : /\ at'[q] = (IF at[q] > keep THEN 0 ELSE at[q])
                            /\ at'[q] <= keep
  BY <1>4, <1>5
<1>9. RpcTypeOK'
  BY <1>1, <1>4, <1>5, <1>6, <1>7, <1>8 DEF RpcTypeOK
<1>10. PoolInv'
  <2>1. \A q \in Request : at[q] = 0 => at'[q] = 0
    BY <1>8
  <2> QED BY <1>1, <1>4, <1>7, <2>1, PoolKept
<1>11. WaitInv'
  <2> SUFFICES ASSUME NEW w \in Worker, Waits(w)' PROVE WaitOk(w)'
    BY DEF WaitInv
  <2>1. Waits(w) /\ WaitOk(w) /\ worker[w].idx \in Nat
    BY <1>1, <1>5, <1>7 DEF Waits, WorkerState, WaitInv
  <2>2. worker[w].req \in Request
    BY <1>1, <2>1 DEF PoolInv
  <2>3. CASE w \in C
    BY <1>3, <1>4, <1>7, <2>1, <2>3 DEF WaitOk
  <2>4. CASE w \notin C
    <3>1. worker'[w].res = worker[w].res /\ (worker[w].pc = "wait" => worker[w].res # None)
      BY <1>2, <1>7, <2>1, <2>4 DEF Waiting
    <3>2. worker[w].idx <= last_committed_idx /\ at[worker[w].req] = worker[w].idx =>
             at'[worker[w].req] = worker[w].idx
      BY <1>4, <1>5, <1>8, <2>1, <2>2
    <3> QED BY <1>4, <1>7, <2>1, <3>1, <3>2 DEF WaitOk
  <2> QED BY <2>3, <2>4
<1>12. EntryInv' /\ ForwardInv'
  <2> SUFFICES ASSUME NEW q \in Request
               PROVE  /\ at'[q] <= keep
                      /\ at'[q] > 0 => /\ sent[q] # None /\ sent[q].rpc \in Mutations
                                       /\ log'[at'[q]] = serialize(operation_of(sent[q]))
                      /\ at[q] = 0 => at'[q] = 0
    BY <1>1, <1>4, <1>6 DEF EntryInv, ForwardInv
  <2>1. at[q] \in Nat /\ at'[q] <= keep
    BY <1>5, <1>8
  <2>2. at'[q] > 0 => at'[q] = at[q] /\ at[q] \in 1..keep
    BY <1>5, <1>8, <2>1
  <2>3. at[q] = 0 => at'[q] = 0
    BY <1>8
  <2> QED BY <1>1, <1>6, <2>1, <2>2, <2>3 DEF EntryInv
<1>13. AppliedInv'
  <2>1. \A i \in 1..Len(applied) : log'[i] = log[i]
    BY <1>4, <1>5, <1>6
  <2> QED BY <1>1, <1>4, <2>1 DEF AppliedInv
<1>14. AckedInv'
  <2>1. \A q : Acked(q)' <=> Acked(q)
    BY <1>4 DEF Acked
  <2>2. ASSUME NEW q \in Request, Acked(q)' PROVE at'[q] \in 1..Reached(q)'
    <3>1. at[q] \in 1..Reached(q) /\ Reached(q)' = Reached(q) /\ Reached(q) <= commit_idx
      BY <1>1, <1>4, <1>5, <2>1, <2>2 DEF AckedInv, Reached
    <3>2. PICK c \in Nat : c = Reached(q)
      BY <1>5 DEF Reached
    <3>3. at[q] \in 1..c /\ c <= keep
      BY <1>4, <1>5, <3>1, <3>2
    <3>4. at'[q] = at[q]
      BY <1>8, <3>2, <3>3
    <3> QED BY <3>1, <3>4
  <2> QED BY <1>1, <1>4, <2>1, <2>2 DEF AckedInv
<1> QED BY <1>9, <1>10, <1>11, <1>12, <1>13, <1>14 DEF RpcInv

LEMMA RpcStep ==
  ASSUME RpcInv, [RpcNext]_vars
  PROVE  RpcInv' /\ Effect
<1>1. Effect
  BY Effects DEF RpcInv
<1>2. RpcInv'
  BY <1>1, InvSends, InvStarts, InvReplies, InvAppends, InvForwards, InvArrives, InvReturns,
     InvCommits, InvAdvances, InvKeeps, InvRests DEF Effect
<1> QED BY <1>1, <1>2

LEMMA RpcStart ==
  ASSUME RpcInit
  PROVE  RpcInv /\ RegisteredInv /\ StateInv /\ GetInv /\ ReadAfterAck
<1>1. PICK st : st = [Idle EXCEPT !.pc = "off"]
  OBVIOUS
<1>2. st \in WorkerState /\ st.pc = "off"
  BY <1>1 DEF Idle, WorkerState
<1>3. worker \in [Worker -> WorkerState] /\ \A w \in Worker : worker[w].pc = "off"
  BY <1>1, <1>2 DEF RpcInit
<1>4. RpcTypeOK
  BY <1>3 DEF RpcInit, RpcTypeOK, NoForward
<1>5. \A w \in Worker : ~Waits(w)
  BY <1>3 DEF Waits
<1>6. \A r \in Request : ~Acked(r) /\ Untouched(r) /\ sent[r] = None /\ at[r] = 0 /\ before[r] = {}
                       /\ forward[r] = "none"
  BY <1>5 DEF RpcInit, NoForward, Acked, Untouched
<1>7. queue = <<>> /\ log = <<>> /\ applied = <<>> /\ last_committed_idx = 0 /\ spl = {}
  BY DEF RpcInit
<1>8. PoolInv /\ WaitInv
  BY <1>5, <1>6, <1>7 DEF PoolInv, WaitInv
<1>9. EntryInv /\ ForwardInv /\ AppliedInv /\ AckedInv
  BY <1>6, <1>7 DEF EntryInv, ForwardInv, AppliedInv, AckedInv
<1>10. RegisteredInv
  BY <1>3 DEF RegisteredInv, RpcInit
<1>11. StateInv
  BY <1>7 DEF StateInv, HoldsAfter, Values
<1>12. GetInv /\ ReadAfterAck
  BY <1>6 DEF GetInv, ReadAfterAck
<1> QED BY <1>4, <1>8, <1>9, <1>10, <1>11, <1>12 DEF RpcInv

LEMMA RpcAlways == RpcSpec => []RpcInv
<1>1. RpcInit => RpcInv
  BY RpcStart
<1>2. RpcInv /\ [RpcNext]_vars => RpcInv'
  BY RpcStep
<1> QED BY <1>1, <1>2, PTL DEF RpcSpec
-----------------------------------------------------------------------------
(* The operation applied at the index of a request is the one it asked     *)
(* for: for every key and value the bytes in the log decode to what was    *)
(* encoded, and the entry stays the request's until it is cut off.         *)
THEOREM AppliedCorrect == RpcSpec => []AppliedIsRequested
<1>1. RpcInv => AppliedIsRequested
  <2> SUFFICES ASSUME RpcInv, NEW r \in Request, at[r] \in DOMAIN applied
               PROVE  applied[at[r]].op = operation_of(sent[r])
    BY DEF AppliedIsRequested
  <2>1. RpcTypeOK /\ EntryInv /\ AppliedInv
    BY DEF RpcInv
  <2>2. at[r] \in 1..Len(applied)
    BY <2>1 DEF RpcTypeOK
  <2>3. /\ sent[r] # None /\ sent[r].rpc \in Mutations
        /\ log[at[r]] = serialize(operation_of(sent[r]))
    BY <2>1, <2>2 DEF EntryInv
  <2>4. sent[r] \in Call
    BY <2>1, <2>3 DEF RpcTypeOK
  <2>5. applied[at[r]].op = deserialize(serialize(operation_of(sent[r])))
    BY <2>1, <2>2, <2>3 DEF AppliedInv
  <2> QED BY <2>3, <2>4, <2>5, RoundTrip
<1> QED BY <1>1, RpcAlways, PTL

LEMMA RegisteredStep ==
  ASSUME RpcTypeOK, RegisteredInv, [RpcNext]_vars
  PROVE  RegisteredInv'
<1>1. worker \in [Worker -> WorkerState]
  BY DEF RpcTypeOK
<1>2. CASE \E r \in Request, call \in Call : send(r, call)
  BY <1>2 DEF send, RegisteredInv, smVars
<1>3. CASE run \/ advance_commit \/ (\E r \in Request : forward_arrives(r)) \/ UNCHANGED vars
  BY <1>3 DEF run, forward_arrives, advance_commit, vars, poolVars, smVars, RegisteredInv
<1>4. CASE commit
  <2>1. \A w \in Worker : worker'[w].pc = worker[w].pc
    <3>1. PICK n : n = last_committed_idx + 1
      OBVIOUS
    <3>2. PICK rc \in ReturnCodes : worker' = [w \in Worker |->
            IF worker[w].pc = "wait" /\ worker[w].res = None /\ worker[w].idx = n
            THEN [worker[w] EXCEPT !.res = [code |-> "OK", buf |-> rc]] ELSE worker[w]]
      BY <1>4, <3>1 DEF commit, Deliver
    <3> QED BY <1>1, <3>2 DEF WorkerState
  <2>2. /\ commit_thread_initialized' = TRUE
        /\ registered' = IF commit_thread_initialized THEN registered
                                                      ELSE registered \cup {CommitThread}
        /\ used' = used \cup {CommitThread}
    BY <1>4 DEF commit
  <2> QED BY <2>1, <2>2 DEF RegisteredInv
<1>5. ASSUME NEW leads \in BOOLEAN, NewTerm(leads) PROVE RegisteredInv'
  <2>1. \A w \in Worker : worker'[w].pc = worker[w].pc
    <3>1. worker' = [w \in Worker |->
            IF worker[w].pc = "wait" /\ worker[w].res = None
            THEN [worker[w] EXCEPT !.res = NoResult("CANCELLED")] ELSE worker[w]]
      BY <1>5 DEF NewTerm, Deliver
    <3> QED BY <1>1, <3>1 DEF WorkerState
  <2>2. UNCHANGED <<registered, used, commit_thread_initialized>>
    BY <1>5 DEF NewTerm, smVars
  <2> QED BY <2>1, <2>2 DEF RegisteredInv
<1>10. CASE step_down \/ become_leader \/ other_leader
  BY <1>5, <1>10 DEF step_down, become_leader, other_leader
<1>6. ASSUME NEW w \in Worker, worker_init(w) PROVE RegisteredInv'
  <2>1. /\ registered' = registered \cup {w} /\ worker' = [worker EXCEPT ![w] = Idle]
        /\ UNCHANGED <<used, commit_thread_initialized>>
    BY <1>6 DEF worker_init, smVars
  <2> QED BY <1>1, <2>1 DEF RegisteredInv
<1>7. ASSUME NEW w \in Worker, NEW r \in Request, info(w, r) \/ cache(w, r) \/ get(w, r)
      PROVE  RegisteredInv'
  <2>1. /\ used' \subseteq used \cup {w} /\ worker[w].pc = "idle"
        /\ UNCHANGED <<worker, registered, commit_thread_initialized>>
    BY <1>7 DEF info, cache, get, Takes, smVars
  <2> QED BY <2>1 DEF RegisteredInv
<1>8. ASSUME NEW w \in Worker, NEW r \in Request, append_log(w, r) PROVE RegisteredInv'
  <2>1. \A v \in Worker : worker'[v].pc # "off" => worker[v].pc # "off"
    BY <1>1, <1>8 DEF append_log, Takes
  <2>2. UNCHANGED <<registered, used, commit_thread_initialized>>
    BY <1>8 DEF append_log, smVars
  <2> QED BY <2>1, <2>2 DEF RegisteredInv
<1>9. ASSUME NEW w \in Worker, \/ append_returns(w) \/ append_times_out(w)
                              \/ forward_returns(w) \/ forward_refused(w)
      PROVE  RegisteredInv'
  <2>1. worker[w].pc # "off" /\ worker' = [worker EXCEPT ![w] = Idle]
        /\ UNCHANGED <<registered, used, commit_thread_initialized>>
    BY <1>9 DEF append_returns, append_times_out, forward_returns, forward_refused, Answers,
                smVars
  <2> QED BY <1>1, <2>1 DEF RegisteredInv
<1> QED BY <1>2, <1>3, <1>4, <1>6, <1>7, <1>8, <1>9, <1>10 DEF RpcNext, WorkerStep, Handler

(* No thread calls SplinterDB before it is registered: worker_init runs    *)
(* before a worker takes a request, and commit registers the commit thread *)
(* the first time it runs.                                                 *)
THEOREM RegisteredCorrect == RpcSpec => []RegisteredFirst
<1>1. RpcInit => RegisteredInv
  BY RpcStart
<1>2. RegisteredInv /\ RpcInv /\ [RpcNext]_vars => RegisteredInv'
  BY RegisteredStep DEF RpcInv
<1>3. RegisteredInv => RegisteredFirst
  BY DEF RegisteredInv, RegisteredFirst
<1> QED BY <1>1, <1>2, <1>3, RpcAlways, PTL DEF RpcSpec
-----------------------------------------------------------------------------
(* Reads *)

(* What is applied stays applied. *)
LEMMA AppliedGrows ==
  ASSUME RpcInv, Effect
  PROVE  /\ last_committed_idx \in Nat /\ last_committed_idx' \in Nat
         /\ last_committed_idx <= last_committed_idx'
         /\ \A p \in 1..last_committed_idx : applied'[p] = applied[p]
<1>1. /\ last_committed_idx \in Nat /\ Len(applied) = last_committed_idx
      /\ applied \in Seq([op : Operation, rc : ReturnCodes])
  BY DEF RpcInv, RpcTypeOK
<1>2. CASE UNCHANGED <<last_committed_idx, applied>>
  BY <1>1, <1>2
<1>3. ASSUME NEW n \in Nat, NEW rc \in ReturnCodes, CommitsOne(n, rc)
      PROVE  /\ last_committed_idx' \in Nat /\ last_committed_idx <= last_committed_idx'
             /\ \A p \in 1..last_committed_idx : applied'[p] = applied[p]
  <2>1. PICK e : applied' = Append(applied, e) /\ last_committed_idx' = last_committed_idx + 1
    BY <1>3 DEF CommitsOne
  <2>2. \A p \in 1..Len(applied) : applied'[p] = applied[p]
    <3>1. PICK m \in Nat : m = Len(applied)
      BY <1>1
    <3>2. DOMAIN applied = 1..m
      BY <1>1, <3>1
    <3> QED BY <2>1, <3>1, <3>2
  <2> QED BY <1>1, <2>1, <2>2
<1> QED BY <1>1, <1>2, <1>3
        DEF Effect, Sends, Starts, Replies, AppendsFor, Forwards, WaitsFor, Arrives, Returns,
            Advances, Keeps, Rests

(* An acknowledged mutation keeps its entry, and stays one that this       *)
(* server appended or forwarded.                                           *)
LEMMA AckedStays ==
  ASSUME RpcInv, Effect, NEW q \in Request, Acked(q)
  PROVE  at'[q] = at[q] /\ (forward'[q] = "none" <=> forward[q] = "none")
<1>1. /\ at \in [Request -> Nat] /\ last_committed_idx \in Nat /\ commit_idx \in Nat
      /\ last_committed_idx <= commit_idx /\ queue \in Seq(Request)
      /\ forward \in [Request -> {"none", "sent", "done"}]
  BY DEF RpcInv, RpcTypeOK
<1>2. at[q] <= commit_idx /\ at[q] > 0 /\ answer[q] # None
  BY <1>1, AckIsAnswer DEF RpcInv, AckedInv, Reached, Acked
<1>3. ASSUME NEW keep \in Nat, Keeps(keep) PROVE at'[q] = at[q] /\ forward' = forward
  BY <1>1, <1>2, <1>3 DEF Keeps
<1>4. ASSUME NEW w \in Worker, NEW r \in Request, AppendsFor(w, r) \/ Forwards(w, r)
      PROVE  at'[q] = at[q] /\ forward'[q] = forward[q]
  <2>1. answer[r] = None
    BY <1>1, <1>4, QueueHead DEF RpcInv, AppendsFor, Forwards, WaitsFor, Untouched
  <2> QED BY <1>1, <1>2, <1>4, <2>1 DEF AppendsFor, Forwards
<1>5. ASSUME NEW r \in Request, Arrives(r) PROVE at'[q] = at[q] /\ forward'[q] = forward[q]
  <2>1. at[r] = 0
    BY <1>5 DEF Arrives, RpcInv, ForwardInv
  <2> QED BY <1>1, <1>2, <1>5, <2>1 DEF Arrives
<1>6. ASSUME NEW w \in Worker, NEW res \in Result, Returns(w, res)
      PROVE  at'[q] = at[q] /\ forward'[q] = forward[q]
  <2>1. answer[worker[w].req] = None /\ worker[w].req \in Request
    BY <1>6 DEF Returns, RpcInv, PoolInv
  <2> QED BY <1>1, <1>2, <1>6, <2>1 DEF Returns
<1>7. CASE UNCHANGED <<at, forward>>
  BY <1>7
<1> QED BY <1>3, <1>4, <1>5, <1>6, <1>7
        DEF Effect, Sends, Starts, Replies, CommitsOne, Advances, Rests

(* The commit index does not go back. *)
LEMMA CommitGrows ==
  ASSUME RpcInv, Effect
  PROVE  commit_idx \in Nat /\ commit_idx' \in Nat /\ commit_idx <= commit_idx'
<1>1. commit_idx \in Nat
  BY DEF RpcInv, RpcTypeOK
<1>2. commit_idx' = commit_idx \/ commit_idx' = commit_idx + 1
  BY DEF Effect, Sends, Starts, Replies, AppendsFor, Forwards, WaitsFor, Arrives, Returns,
         CommitsOne, Advances, Keeps, Rests
<1> QED BY <1>1, <1>2

(* What the operations applied leave under a key does not change. *)
LEMMA HoldsStays ==
  ASSUME NEW ops, NEW more, NEW key, NEW vs, NEW m \in Nat, HoldsAfter(ops, key, vs, m),
         \A p \in 1..m : more[p] = ops[p]
  PROVE  HoldsAfter(more, key, vs, m)
<1>1. \A p \in 1..m : Writes(more, p, key) <=> Writes(ops, p, key)
  BY DEF Writes
<1>2. CASE vs = {} /\ \A p \in 1..m : ~Writes(ops, p, key)
  BY <1>1, <1>2 DEF HoldsAfter
<1>3. ASSUME NEW p \in 1..m, Writes(ops, p, key), \A q \in p + 1 .. m : ~Writes(ops, q, key),
             vs = IF ops[p].op.type = DELETE THEN {} ELSE {ops[p].op.value}
      PROVE  HoldsAfter(more, key, vs, m)
  <2>1. Writes(more, p, key) /\ \A q \in p + 1 .. m : ~Writes(more, q, key)
    BY <1>1, <1>3
  <2>2. vs = IF more[p].op.type = DELETE THEN {} ELSE {more[p].op.value}
    BY <1>3
  <2> QED BY <2>1, <2>2 DEF HoldsAfter
<1> QED BY <1>2, <1>3 DEF HoldsAfter

(* One operation, applied, in what SplinterDB holds. *)
LEMMA ApplyOne ==
  ASSUME NEW db, NEW op, NEW rc, NEW key
  PROVE  Values(spl_apply(db, op, rc), key) =
           IF rc = 0 /\ op.key = key
           THEN IF op.type = DELETE THEN {} ELSE {op.value}
           ELSE Values(db, key)
<1>1. CASE rc # 0
  BY <1>1 DEF spl_apply
<1>2. CASE rc = 0
  <2>1. PICK new : new = (IF op.type = DELETE THEN {} ELSE {<<op.key, op.value>>})
    OBVIOUS
  <2>2. PICK rest : rest = {p \in db : p[1] # op.key}
    OBVIOUS
  <2>3. spl_apply(db, op, rc) = rest \cup new
    BY <1>2, <2>1, <2>2 DEF spl_apply
  <2>4. \A p \in new : p[1] = op.key /\ p[2] = op.value /\ op.type # DELETE
    BY <2>1
  <2>5. CASE op.key = key
    <3>1. {p \in rest \cup new : p[1] = key} = new
      BY <2>2, <2>4, <2>5
    <3>2. Values(spl_apply(db, op, rc), key) = {p[2] : p \in new}
      BY <2>3, <3>1 DEF Values
    <3>3. {p[2] : p \in new} = IF op.type = DELETE THEN {} ELSE {op.value}
      <4>1. CASE op.type = DELETE
        BY <2>1, <4>1
      <4>2. CASE op.type # DELETE
        <5>1. \E p \in new : TRUE
          BY <2>1, <4>2
        <5> QED BY <2>4, <4>2, <5>1
      <4> QED BY <4>1, <4>2
    <3> QED BY <1>2, <2>5, <3>2, <3>3
  <2>6. CASE op.key # key
    <3>1. {p \in rest \cup new : p[1] = key} = {p \in db : p[1] = key}
      BY <2>2, <2>4, <2>6
    <3>2. Values(spl_apply(db, op, rc), key) = Values(db, key)
      BY <2>3, <3>1 DEF Values
    <3> QED BY <2>6, <3>2
  <2> QED BY <2>5, <2>6
<1> QED BY <1>1, <1>2

LEMMA StateStep ==
  ASSUME RpcInv, StateInv, Effect
  PROVE  StateInv'
<1>1. CASE UNCHANGED <<spl, last_committed_idx, applied>>
  BY <1>1 DEF StateInv, HoldsAfter, Writes
<1>2. ASSUME NEW n \in Nat, NEW rc \in ReturnCodes, CommitsOne(n, rc) PROVE StateInv'
  <2> PICK m \in Nat : m = last_committed_idx
    BY DEF RpcInv, RpcTypeOK
  <2>1. PICK op, db : m = last_committed_idx /\ op = deserialize(log[n]) /\ db = spl
    OBVIOUS
  <2>2. /\ n = m + 1 /\ last_committed_idx' = n /\ spl' = spl_apply(db, op, rc)
        /\ applied' = Append(applied, [op |-> op, rc |-> rc])
    BY <1>2, <2>1 DEF CommitsOne
  <2>3. /\ \A p \in 1..m : applied'[p] = applied[p]
        /\ applied'[n].op = op /\ applied'[n].rc = rc
    <3>1. Len(applied) = m /\ applied \in Seq([op : Operation, rc : ReturnCodes])
      BY <2>1 DEF RpcInv, RpcTypeOK
    <3>2. PICK e : e = [op |-> op, rc |-> rc]
      OBVIOUS
    <3>3. e.op = op /\ e.rc = rc /\ applied' = Append(applied, e) /\ DOMAIN applied = 1..m
      BY <2>2, <3>1, <3>2
    <3> QED BY <2>2, <3>1, <3>3
  <2> SUFFICES ASSUME NEW key \in KeyOfCall, NEW now, now = Values(spl', key)
               PROVE  HoldsAfter(applied', key, now, n)
    BY <2>2 DEF StateInv
  <2>4. PICK vs, us : vs = Values(db, key) /\ us = Values(spl_apply(db, op, rc), key)
    OBVIOUS
  <2>5. HoldsAfter(applied, key, vs, m)
    BY <2>1, <2>4 DEF StateInv
  <2>6. HoldsAfter(applied', key, vs, m)
    BY <2>3, <2>5, HoldsStays
  <2>7. us = IF rc = 0 /\ op.key = key THEN IF op.type = DELETE THEN {} ELSE {op.value} ELSE vs
    BY <2>4, ApplyOne
  <2>8. Writes(applied', n, key) <=> rc = 0 /\ op.key = key
    BY <2>3 DEF Writes
  <2>9. HoldsAfter(applied', key, us, n)
    <3>1. CASE rc = 0 /\ op.key = key
      <4>1. n \in 1..n /\ \A q \in n + 1 .. n : FALSE
        BY <2>2
      <4>2. us = IF applied'[n].op.type = DELETE THEN {} ELSE {applied'[n].op.value}
        BY <2>3, <2>7, <3>1
      <4> QED BY <2>8, <3>1, <4>1, <4>2 DEF HoldsAfter
    <3>2. CASE ~(rc = 0 /\ op.key = key)
      <4>1. us = vs /\ ~Writes(applied', n, key)
        BY <2>7, <2>8, <3>2
      <4>2. CASE vs = {} /\ \A p \in 1..m : ~Writes(applied', p, key)
        <5>1. \A p \in 1..n : ~Writes(applied', p, key)
          BY <2>2, <4>1, <4>2
        <5> QED BY <4>1, <4>2, <5>1 DEF HoldsAfter
      <4>3. ASSUME NEW p \in 1..m, Writes(applied', p, key), \A q \in p + 1 .. m : ~Writes(applied', q, key),
                   vs = IF applied'[p].op.type = DELETE THEN {} ELSE {applied'[p].op.value}
            PROVE  HoldsAfter(applied', key, us, n)
        <5>1. p \in 1..n /\ \A q \in p + 1 .. n : q = n \/ q \in p + 1 .. m
          BY <2>2
        <5>2. \A q \in p + 1 .. n : ~Writes(applied', q, key)
          BY <4>1, <4>3, <5>1
        <5> QED BY <4>1, <4>3, <5>1, <5>2 DEF HoldsAfter
      <4> QED BY <2>6, <4>2, <4>3 DEF HoldsAfter
    <3> QED BY <3>1, <3>2
  <2>10. now = us
    BY <2>2, <2>4
  <2> QED BY <2>9, <2>10
<1> QED BY <1>1, <1>2
        DEF Effect, Sends, Starts, Replies, AppendsFor, Forwards, WaitsFor, Arrives, Returns,
            Advances, Keeps, Rests

(* A read is answered by a handler, and its answer stays. *)
LEMMA ReadAnswered ==
  ASSUME RpcInv, Effect, NEW r \in Request,
         sent'[r] # None, sent'[r].rpc = "get", answer'[r] # None
  PROVE  \/ sent'[r] = sent[r] /\ before'[r] = before[r] /\ answer'[r] = answer[r]
         \/ \E x : Replies(r, x)
<1>1. /\ sent \in [Request -> Call \cup {None}] /\ before \in [Request -> SUBSET Request]
      /\ answer = [q \in Request |-> answer[q]]
  BY DEF RpcInv, RpcTypeOK
<1>2. CASE UNCHANGED <<sent, before, answer>>
  BY <1>2
<1>3. ASSUME NEW q \in Request, NEW call \in Call, Sends(q, call)
      PROVE  sent'[r] = sent[r] /\ before'[r] = before[r] /\ answer'[r] = answer[r]
  <2>1. answer' = answer /\ answer[q] = None
    BY <1>3 DEF Sends, RpcInv, PoolInv, Untouched
  <2>2. q # r
    BY <2>1
  <2> QED BY <1>1, <1>3, <2>1, <2>2 DEF Sends
<1>4. ASSUME NEW q \in Request, NEW x, Replies(q, x), q # r
      PROVE  sent'[r] = sent[r] /\ before'[r] = before[r] /\ answer'[r] = answer[r]
  BY <1>1, <1>4 DEF Replies
<1>5. ASSUME NEW w \in Worker, NEW res \in Result, Returns(w, res)
      PROVE  sent'[r] = sent[r] /\ before'[r] = before[r] /\ answer'[r] = answer[r]
  <2>1. worker[w].req \in Request /\ sent[worker[w].req].rpc \in Mutations /\ sent' = sent
    BY <1>5 DEF Returns, RpcInv, PoolInv
  <2>2. worker[w].req # r
    BY <2>1 DEF Mutations
  <2> QED BY <1>1, <1>5, <2>1, <2>2 DEF Returns
<1> QED BY <1>2, <1>3, <1>4, <1>5
        DEF Effect, Starts, AppendsFor, Forwards, WaitsFor, Arrives, CommitsOne, Advances, Keeps,
            Rests

(* The entries a read has to see. *)
Sees(m, c, q) == at[q] \in 1 .. (IF forward[q] = "none" THEN m ELSE c)

LEMMA ReadStep ==
  ASSUME RpcInv, StateInv, GetInv, ReadAfterAck, Effect
  PROVE  GetInv' /\ ReadAfterAck'
<1> SUFFICES ASSUME NEW r \in Request, sent'[r] # None, sent'[r].rpc = "get", answer'[r] # None,
                    NEW key, key = sent'[r].key, NEW vs, vs = answer'[r].found,
                    NEW m, m = answer'[r].idx
             PROVE  /\ m \in 0..last_committed_idx'
                    /\ \A q \in before'[r] : Sees(m, commit_idx, q)'
                    /\ answer'[r].rc = 0 => HoldsAfter(applied', key, vs, m)
  BY DEF GetInv, ReadAfterAck, Sees
<1>1. /\ last_committed_idx \in Nat /\ last_committed_idx' \in Nat
      /\ last_committed_idx <= last_committed_idx'
      /\ \A p \in 1..last_committed_idx : applied'[p] = applied[p]
  BY AppliedGrows
<1>2. \A q \in before[r] : q \in Request /\ Acked(q) /\ Sees(last_committed_idx, commit_idx, q)
  BY DEF RpcInv, RpcTypeOK, AckedInv, Reached, Sees
<1>3. \A q \in before[r] : at'[q] = at[q] /\ (forward'[q] = "none" <=> forward[q] = "none")
  BY <1>2, AckedStays
<1>4. CASE sent'[r] = sent[r] /\ before'[r] = before[r] /\ answer'[r] = answer[r]
  <2>1. /\ m \in 0..last_committed_idx /\ \A q \in before[r] : Sees(m, commit_idx, q)
        /\ answer'[r].rc = 0 => HoldsAfter(applied, key, vs, m)
    BY <1>4 DEF GetInv, ReadAfterAck, Sees
  <2>2. m \in Nat /\ m \in 0..last_committed_idx' /\ \A p \in 1..m : applied'[p] = applied[p]
    BY <1>1, <2>1
  <2>3. answer'[r].rc = 0 => HoldsAfter(applied', key, vs, m)
    BY <2>1, <2>2, HoldsStays
  <2>4. \A q \in before'[r] : Sees(m, commit_idx, q)'
    BY <1>3, <1>4, <2>1, <2>2, CommitGrows DEF Sees
  <2> QED BY <2>2, <2>3, <2>4
<1>5. ASSUME NEW x, Replies(r, x)
      PROVE  /\ m \in 0..last_committed_idx' /\ \A q \in before'[r] : Sees(m, commit_idx, q)'
             /\ answer'[r].rc = 0 => HoldsAfter(applied', key, vs, m)
  <2>1. UNCHANGED <<sent, before, spl, last_committed_idx, commit_idx, forward, at, applied>>
    BY <1>5 DEF Replies
  <2>2. PICK rc \in ReturnCodes : answer'[r] = ReadAnswer(r, rc)
    BY <1>5, <2>1 DEF Replies, RpcInv, RpcTypeOK
  <2>3. m = last_committed_idx /\ (answer'[r].rc = 0 => vs = Values(spl, key))
    BY <2>1, <2>2 DEF ReadAnswer
  <2>4. key \in KeyOfCall
    <3>1. sent[r] \in Call /\ sent[r].rpc = "get"
      BY <2>1 DEF RpcInv, RpcTypeOK
    <3> QED BY <2>1, <3>1 DEF KeyOfCall
  <2>5. answer'[r].rc = 0 => HoldsAfter(applied, key, vs, m)
    BY <2>3, <2>4 DEF StateInv
  <2>6. answer'[r].rc = 0 => HoldsAfter(applied', key, vs, m)
    BY <1>1, <2>3, <2>5, HoldsStays
  <2>7. \A q \in before'[r] : Sees(m, commit_idx, q)'
    BY <1>2, <2>1, <2>3 DEF Sees
  <2> QED BY <1>1, <2>1, <2>3, <2>6, <2>7
<1> QED BY <1>4, <1>5, ReadAnswered

(* A read that does not fail sees every mutation that this server appended *)
(* itself and acknowledged before the read was sent; what it sees is the   *)
(* state after the entries applied so far.  A mutation it acknowledged     *)
(* after forwarding it is committed, though perhaps not applied here yet.  *)
(* For any number of workers, keys, values and changes of leadership.      *)
THEOREM ReadAfterAckCorrect == RpcSpec => []ReadAfterAck
<1>1. RpcInit => StateInv /\ GetInv /\ ReadAfterAck
  BY RpcStart
<1>2. /\ StateInv /\ GetInv /\ ReadAfterAck /\ RpcInv /\ [RpcNext]_vars
      => StateInv' /\ GetInv' /\ ReadAfterAck'
  BY RpcStep, StateStep, ReadStep
<1> QED BY <1>1, <1>2, RpcAlways, PTL DEF RpcSpec
=============================================================================
