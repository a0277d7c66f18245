------------------------ MODULE ReplicatedOrderProofs ------------------------
(***************************************************************************)
(* Proofs about the retry loop: an attempt is in the log at most once, and *)
(* the log respects the order in which callers saw their operations end    *)
(* and begin, but for attempts that were still being forwarded when their  *)
(* handler answered.  Both rest on how the attempts of one operation are   *)
(* numbered and where their entries can be.                                *)
(***************************************************************************)
EXTENDS ReplicatedStoreProofs

(* A call whose handler may still reply, and one with no entry so far. *)
Live(r) == r.stage # "adrift"
Unseen(r) == r.stage \in {"sent", "fwd"}

(* The attempts that were made and can take effect without a handler: the  *)
(* entries and the forwards that are adrift.                               *)
Past == Entries \cup {AppEntry(r.op, r.id) : r \in {x \in calls : ~Live(x)}}

(* One call with a handler at a time for every operation, and one call for *)
(* every attempt.                                                          *)
OneCall ==
  /\ \A r, x \in calls : OpOf(r.id) = OpOf(x.id) /\ Live(r) /\ Live(x) => r = x
  /\ \A r, x \in calls : r.id = x.id => r = x

(* The call of the mutation a client is in is the one it waits for. *)
CallIsCurrent ==
  \A r \in calls : Live(r) /\ OpOf(r.id) = OpId(r.id.c) /\ Busy(r.id.c)
                     => pc[r.id.c] = "wait" /\ r.id.i = i[r.id.c]

(* A call that no leader has looked at is a later attempt than all earlier *)
(* ones of its operation.                                                  *)
SentIsNewest ==
  \A r \in calls, e \in Past :
    Unseen(r) /\ OpOf(e.id) = OpOf(r.id) => e.id.i < r.id.i

(* Past attempts of the mutation a client is in are ones it has made. *)
EntriesAreOlder ==
  \A e \in Past : OpOf(e.id) = OpId(e.id.c) =>
    /\ pc[e.id.c] = "loop" => e.id.i < i[e.id.c]
    /\ pc[e.id.c] \in {"wait", "probe"} => e.id.i <= i[e.id.c]

(* A forward that is adrift is known as late, and in no log. *)
AdriftInv ==
  \A r \in calls : ~Live(r) => r.id \in late /\ \A e \in Entries : e.id # r.id

CallInv == OneCall /\ CallIsCurrent /\ SentIsNewest /\ EntriesAreOlder /\ AdriftInv

(* No attempt is in the log twice, or in it and in the log of a replaced   *)
(* leader.                                                                 *)
UniqueInv ==
  /\ \A p, q \in 1..Len(log) :
        IsApp(log[p]) /\ IsApp(log[q]) /\ log[p].id = log[q].id => p = q
  /\ \A p \in 1..Len(log), e \in lost : IsApp(log[p]) => log[p].id # e.id

(* The loop counter stays below num_retries_. *)
AttemptInv ==
  /\ \A e \in Issued : e.id.i < NumRetries
  /\ \A c \in Client : Busy(c) => i[c] < NumRetries

(* Attempts of one operation that are not late are behind the ones made    *)
(* before them, after the start of the leader's term and across the commit *)
(* index.                                                                  *)
OrderInv ==
  /\ \A p, q \in 1..Len(log) :
        /\ IsApp(log[p]) /\ IsApp(log[q]) /\ OpOf(log[p].id) = OpOf(log[q].id)
        /\ p < q /\ (term_start < q \/ (p <= commit_idx /\ commit_idx < q))
        => log[p].id.i < log[q].id.i \/ log[q].id \in late
  /\ \A p \in 1..commit_idx, e \in lost :
        IsApp(log[p]) /\ OpOf(log[p].id) = OpOf(e.id)
          => log[p].id.i < e.id.i \/ e.id \in late

(* The part of AckedInv about one operation: it is over, and so are all    *)
(* its attempts that are not late.                                         *)
Over(o) ==
  /\ o.n <= n[o.c]
  /\ o = OpId(o.c) => ~Busy(o.c)
  /\ \A r \in calls : Live(r) => OpOf(r.id) # o
  /\ \A e \in lost : OpOf(e.id) = o => e.id \in late
  /\ \A p \in 1..Len(log) : IsApp(log[p]) /\ OpOf(log[p].id) = o
                              => p <= commit_idx \/ log[p].id \in late

AckedInv == \A a \in acked : Over(a.op)

(* Only what was acknowledged is before another operation. *)
BeforeInv == \A x \in before : \E a \in acked : a.op = x[1]

OrderedInv == /\ SafetyInv /\ CallInv /\ UniqueInv /\ AttemptInv
              /\ OrderInv /\ AckedInv /\ BeforeInv /\ RealTimeOrder
-----------------------------------------------------------------------------
(* Steps *)

LEMMA Ids ==
  ASSUME NEW id \in Id, NEW c
  PROVE  /\ OpOf(id) = OpId(c) <=> id.c = c /\ id.n = n[c]
         /\ OpOf(id) = OpId(c)' <=> id.c = c /\ id.n = n'[c]
         /\ \A x \in Id : OpOf(id) = OpOf(x) <=> id.c = x.c /\ id.n = x.n
BY DEF OpOf, OpId, Id

LEMMA CallTypes ==
  ASSUME TypeOK, NEW r \in calls
  PROVE  /\ r \in Call /\ r.id \in Id /\ r.id.c \in Client /\ r.id.n \in Nat /\ r.id.i \in Nat
         /\ AppEntry(r.op, r.id) \in Issued /\ AppEntry(r.op, r.id).id = r.id
         /\ AppEntry(r.op, r.id).op = r.op
BY DEF TypeOK, CallTypeOK, Call, Id, Issued, AppEntry

LEMMA EntryTypes ==
  ASSUME TypeOK, NEW e \in Entries
  PROVE  /\ e \in Issued /\ e.id \in Id /\ e.id.c \in Client /\ e.id.n \in Nat
         /\ e.id.i \in Nat /\ IsApp(e)
<1>1. e \in Issued
  BY DEF Entries, Issued
<1> QED BY <1>1, IssuedTypes

(* Late attempts stay late. *)
LEMMA LateGrows ==
  ASSUME TypeOK, [Next]_vars
  PROVE  late \subseteq late'
<1>1. ASSUME NEW c \in Client,
             \/ \E host \in Server : Construct(c, host)
             \/ Begin(c) \/ Send(c) \/ SendThrows(c) \/ RpcTimeout(c) \/ Probe(c)
             \/ \E k \in Key : Get(c, k)
      PROVE  late' = late
  BY <1>1 DEF Construct, Begin, Send, SendThrows, RpcTimeout, Probe, Get, history
<1>2. ASSUME NEW r \in calls, Handles(r)
      PROVE  late \subseteq late'
  BY <1>2, HandlerKinds DEF Enters, Forwards, Replies, history
<1>3. ASSUME NEW s \in Server, Commit(s) \/ Stop(s)
      PROVE  late \subseteq late'
  BY <1>3 DEF Commit, Stop, history
<1>4. Raft \/ UNCHANGED vars => late' = late
  BY DEF Raft, vars, history
<1> QED BY <1>1, <1>2, <1>3, <1>4 DEF Next, Handles

(* A client goes on with its mutation only when its call was answered. *)
LEMMA LeavesWait ==
  ASSUME TypeOK, [Next]_vars, NEW d \in Client, pc[d] = "wait", pc'[d] \in {"loop", "probe"}
  PROVE  \E r \in calls : /\ r.id = CallId(d) /\ Live(r)
                          /\ \A x \in calls' : Live(x) => x \in calls /\ x # r
<1>0. ClientTypeOK
  BY DEF TypeOK
<1>1. ASSUME UNCHANGED clientVars PROVE FALSE
  BY <1>1 DEF clientVars
<1>2. ASSUME NEW c \in Client, NEW host \in Server, Construct(c, host) PROVE FALSE
  BY <1>0, <1>2 DEF Construct, construct, ClientTypeOK
<1>3. ASSUME NEW c \in Client, Begin(c) PROVE FALSE
  <2>1. PICK r : begin(c, r)
    BY <1>3 DEF Begin, put, update, del
  <2> QED BY <1>0, <2>1 DEF begin, ClientTypeOK
<1>4. ASSUME NEW c \in Client, Send(c) PROVE FALSE
  BY <1>0, <1>4 DEF Send, call_leader, ClientTypeOK
<1>5. ASSUME NEW c \in Client, SendThrows(c) \/ RpcTimeout(c) PROVE FALSE
  <2>1. finish(c)
    BY <1>5 DEF SendThrows, RpcTimeout, throw
  <2> QED BY <1>0, <2>1 DEF finish, ClientTypeOK
<1>6. ASSUME NEW c \in Client, Probe(c) PROVE FALSE
  <2>1. pc[c] = "probe" /\ \A x \in Client \ {c} : Still(x)
    BY <1>0, <1>6, ProbeMove
  <2> QED BY <2>1 DEF Still
<1>7. ASSUME NEW c \in Client, NEW k \in Key, Get(c, k) PROVE FALSE
  BY <1>7 DEF Get, get
<1>8. ASSUME NEW r \in calls, Handles(r)
      PROVE  /\ r.id = CallId(d) /\ Live(r)
             /\ \A x \in calls' : Live(x) => x \in calls /\ x # r
  <2>1. PICK res : Replies(r, res)
    BY <1>1, <1>8, HandlerKinds DEF Enters, Forwards
  <2>2. IsWaitingFor(r) /\ \A x \in Client \ {r.id.c} : Still(x)
    BY <1>1, <2>1, ReplyMove DEF Replies
  <2>3. r.id.c = d
    BY <2>2 DEF Still
  <2>4. \A x \in calls' : Live(x) => x \in calls /\ x # r
    BY <2>1, AdriftCalls DEF Replies, Live
  <2> QED BY <2>1, <2>2, <2>3, <2>4 DEF IsWaitingFor, Replies, Live
<1>9. ASSUME NEW s \in Server, Commit(s) \/ Stop(s) PROVE FALSE
  BY <1>1, <1>9 DEF Commit, Stop
<1>10. ASSUME Raft \/ UNCHANGED vars PROVE FALSE
  BY <1>1, <1>10 DEF Raft, vars
<1> QED BY <1>2, <1>3, <1>4, <1>5, <1>6, <1>7, <1>8, <1>9, <1>10
      DEF Next, Handles

(* A call of the next state is one of this state, or was just made. *)
LEMMA CallOrigin ==
  ASSUME TypeOK, [Next]_vars, NEW x \in calls'
  PROVE  \/ \E r \in calls : Becomes(r, x)
         \/ \E c \in Client : Send(c) /\ x.id = CallId(c) /\ x.stage = "sent"
<1>1. ASSUME NEW c \in Client, Send(c), calls' = calls \cup {NewCall(c)}
      PROVE  x \in calls \/ (x.id = CallId(c) /\ x.stage = "sent")
  BY <1>1 DEF NewCall
<1>2. x \in calls => Becomes(x, x)
  BY DEF Becomes
<1> QED BY <1>1, <1>2, CallsStep DEF CallsMapped

LEMMA NewEntry ==
  ASSUME TypeOK, [Next]_vars, NEW e \in Entries', e \notin Entries
  PROVE  \E r \in calls, t \in Server :
           Enters(r, t) /\ e = AppEntry(r.op, r.id) /\ e.id = r.id
<1>1. PICK r \in calls, t \in Server :
        Enters(r, t) /\ Entries' \subseteq Entries \cup {AppEntry(r.op, r.id)}
  BY EntriesStep
<1>2. e = AppEntry(r.op, r.id) /\ e.id = r.id
  BY <1>1 DEF AppEntry
<1> QED BY <1>1, <1>2

(* The calls that are left when an entry has entered a log. *)
LEMMA EnteredCalls ==
  ASSUME TypeOK, NEW r \in calls, NEW t \in Server, Enters(r, t), NEW x \in calls'
  PROVE  (x \in calls /\ x # r) \/ (x.stage = "raft" /\ x.id = r.id)
<1> DEFINE w == Waiting(r, t)
<1>1. w.stage = "raft" /\ w.id = r.id
  BY WaitingType
<1> HIDE DEF w
<1>2. calls' \subseteq (calls \ {r}) \cup {w}
  BY DEF Enters, w
<1> QED BY <1>1, <1>2

(* An attempt that joins the past was the one its operation was at, and    *)
(* its call is none any more that waits for a leader.                      *)
LEMMA NewPast ==
  ASSUME TypeOK, CallInv, [Next]_vars, NEW e \in Past', e \notin Past
  PROVE  \E r \in calls : /\ Unseen(r) /\ e.id = r.id
                          /\ \A x \in calls' : x.id = r.id => ~Unseen(x)
<1>1. CASE e \in Entries'
  <2>1. e \notin Entries
    BY DEF Past
  <2>2. PICK r \in calls, t \in Server :
          Enters(r, t) /\ e = AppEntry(r.op, r.id) /\ e.id = r.id
    BY <1>1, <2>1, NewEntry
  <2>3. Unseen(r)
    BY <2>2 DEF Enters, Past, Live, Unseen
  <2>4. ASSUME NEW x \in calls', x.id = r.id PROVE ~Unseen(x)
    BY <2>2, <2>4, EnteredCalls DEF CallInv, OneCall, Unseen
  <2> QED BY <2>2, <2>3, <2>4
<1>2. CASE e \notin Entries'
  <2>1. PICK g \in calls' : ~Live(g) /\ e = AppEntry(g.op, g.id)
    BY <1>2 DEF Past, Live, AppEntry
  <2>2. e.id = g.id /\ g.stage = "adrift"
    BY <2>1 DEF AppEntry, Live
  <2>3. g \notin calls
    BY <2>1 DEF Past
  <2>4. CASE \E c \in Client : Send(c) /\ calls' = calls \cup {NewCall(c)}
    BY <2>1, <2>3, <2>4 DEF NewCall, Live
  <2>5. CASE CallsMapped
    <3>1. PICK f \in [calls -> Call] : /\ calls' \subseteq {f[r] : r \in calls}
                                       /\ \A r \in calls : Becomes(r, f[r])
      BY <2>5 DEF CallsMapped
    <3>2. PICK r \in calls : g = f[r]
      BY <3>1
    <3>3. Unseen(r) /\ e.id = r.id
      BY <2>2, <2>3, <3>1, <3>2 DEF Becomes, Unseen
    <3>4. ASSUME NEW x \in calls', x.id = r.id PROVE ~Unseen(x)
      <4>1. PICK y \in calls : x = f[y]
        BY <3>1
      <4>2. y.id = r.id
        BY <3>1, <3>4, <4>1 DEF Becomes
      <4>3. x = g
        BY <3>2, <4>1, <4>2 DEF CallInv, OneCall
      <4> QED BY <2>2, <4>3 DEF Unseen
    <3> QED BY <3>3, <3>4
  <2> QED BY <2>4, <2>5, CallsStep
<1> QED BY <1>1, <1>2

LEMMA PastTypes ==
  ASSUME TypeOK, NEW e \in Past
  PROVE  /\ e \in Issued /\ e.id \in Id /\ e.id.c \in Client /\ e.id.n \in Nat
         /\ e.id.i \in Nat
<1>1. e \in Issued
  BY DEF Past, Entries, Issued
<1> QED BY <1>1, IssuedTypes

(* A forward that is adrift is one of the past attempts. *)
LEMMA AdriftIsPast ==
  ASSUME NEW r \in calls, ~Live(r)
  PROVE  \E e \in Past : e.id = r.id
<1>1. AppEntry(r.op, r.id) \in Past /\ AppEntry(r.op, r.id).id = r.id
  BY DEF Past, AppEntry
<1> QED BY <1>1

LEMMA OneCallStep ==
  ASSUME TypeOK, CallInv, [Next]_vars
  PROVE  OneCall'
<1> SUFFICES ASSUME NEW x \in calls', NEW y \in calls',
                    \/ OpOf(x.id) = OpOf(y.id) /\ Live(x) /\ Live(y)
                    \/ x.id = y.id
             PROVE  x = y
  BY DEF OneCall, OpOf, Live
<1>1. ASSUME NEW c \in Client, Send(c), calls' = calls \cup {NewCall(c)}
      PROVE  x = y
  <2>1. /\ NewCall(c).id = CallId(c) /\ OpOf(CallId(c)) = OpId(c) /\ pc[c] = "loop"
        /\ CallId(c).c = c /\ CallId(c).i = i[c] /\ i[c] \in Nat
    BY <1>1 DEF NewCall, OpOf, OpId, CallId, Send, call_leader, TypeOK, ClientTypeOK
  <2>2. ASSUME NEW r \in calls, Live(r), OpOf(r.id) = OpId(c) PROVE FALSE
    <3>1. r.id.c = c
      BY <2>2 DEF OpOf, OpId
    <3> QED BY <2>1, <2>2, <3>1 DEF CallInv, CallIsCurrent, Busy
  <2>3. ASSUME NEW r \in calls, r.id = CallId(c) PROVE FALSE
    <3>1. CASE Live(r)
      BY <2>1, <2>2, <2>3, <3>1
    <3>2. CASE ~Live(r)
      <4>1. PICK e \in Past : e.id = CallId(c)
        BY <2>3, <3>2, AdriftIsPast
      <4>2. e.id.i < i[c]
        BY <2>1, <4>1 DEF CallInv, EntriesAreOlder
      <4> QED BY <2>1, <4>1, <4>2
    <3> QED BY <3>1, <3>2
  <2>4. CASE x \in calls /\ y \in calls
    BY <2>4 DEF CallInv, OneCall
  <2> QED BY <1>1, <2>1, <2>2, <2>3, <2>4
<1>2. ASSUME CallsMapped
      PROVE  x = y
  <2>1. PICK f \in [calls -> Call] : /\ calls' \subseteq {f[r] : r \in calls}
                                     /\ \A r \in calls : Becomes(r, f[r])
    BY <1>2 DEF CallsMapped
  <2>2. PICK r \in calls, s \in calls : x = f[r] /\ y = f[s]
    BY <2>1
  <2>3. /\ x.id = r.id /\ y.id = s.id
        /\ Live(x) => Live(r)
        /\ Live(y) => Live(s)
    BY <2>1, <2>2 DEF Becomes, Live
  <2> QED BY <2>2, <2>3 DEF CallInv, OneCall
<1> QED BY <1>1, <1>2, CallsStep

LEMMA CallIsCurrentStep ==
  ASSUME TypeOK, IssuedInv, CallInv, [Next]_vars
  PROVE  CallIsCurrent'
<1> SUFFICES ASSUME NEW x \in calls', Live(x), OpOf(x.id) = OpId(x.id.c)', Busy(x.id.c)'
             PROVE  pc'[x.id.c] = "wait" /\ x.id.i = i'[x.id.c]
  BY DEF CallIsCurrent, OpOf, Live
<1> DEFINE d == x.id.c
<1>1. ASSUME NEW c \in Client, Send(c), x.id = CallId(c)
      PROVE  pc'[d] = "wait" /\ x.id.i = i'[d]
  BY <1>1 DEF Send, call_leader, CallId, TypeOK, ClientTypeOK
<1>2. ASSUME NEW r \in calls, Becomes(r, x)
      PROVE  pc'[d] = "wait" /\ x.id.i = i'[d]
  <2>0. x.id = r.id /\ Live(r)
    BY <1>2 DEF Becomes, Live
  <2>1. /\ d \in Client /\ r.id \in Id /\ n[d] \in Nat /\ r.id.n \in Nat
        /\ r.id.n <= n[d] /\ r.id.n = n'[d]
    <3>1. AppEntry(r.op, r.id) \in Issued /\ AppEntry(r.op, r.id).id = r.id /\ r.id \in Id
      BY CallTypes
    <3>2. r.id.n = n'[d]
      BY <2>0, <3>1, Ids
    <3> QED BY <2>0, <3>1, <3>2 DEF IssuedInv, Id, TypeOK, ClientTypeOK
  <2>2. n'[d] = n[d] => OpOf(r.id) = OpId(d)
    BY <2>0, <2>1, Ids
  <2>3. n'[d] = n[d] /\ Busy(d) => pc[d] = "wait" /\ r.id.i = i[d]
    BY <2>0, <2>2 DEF CallInv, CallIsCurrent
  <2>4. CASE Still(d)
    <3>1. Busy(d)
      BY <2>4 DEF Still, Busy
    <3> QED BY <2>0, <2>3, <2>4, <3>1 DEF Still
  <2>5. ~Ends(d) /\ ~Begins(d)
    BY <2>1 DEF Ends, Begins
  <2>6. ~Sends(d)
    BY <2>3 DEF Sends, Busy
  <2>7. CASE pc[d] = "wait" /\ pc'[d] \in {"loop", "probe"} /\ n'[d] = n[d]
    <3>1. PICK y \in calls : /\ y.id = CallId(d) /\ Live(y) /\ x \in calls /\ x # y
      BY <2>1, <2>7, LeavesWait
    <3>2. OpOf(y.id) = OpId(d) /\ OpOf(x.id) = OpId(d)
      BY <2>0, <2>2, <2>7, <3>1 DEF OpOf, OpId, CallId
    <3> QED BY <3>1, <3>2 DEF CallInv, OneCall
  <2>8. CASE Asks(d)
    BY <2>7, <2>8 DEF Asks
  <2>9. CASE Retries(d)
    BY <2>3, <2>7, <2>9 DEF Retries, Busy
  <2> QED BY <2>1, <2>4, <2>5, <2>6, <2>8, <2>9, ClientMoves DEF Answered
<1> QED BY <1>1, <1>2, CallOrigin

LEMMA SentIsNewestStep ==
  ASSUME TypeOK, CallInv, [Next]_vars
  PROVE  SentIsNewest'
<1> SUFFICES ASSUME NEW x \in calls', NEW e \in Past', Unseen(x),
                    OpOf(e.id) = OpOf(x.id)
             PROVE  e.id.i < x.id.i
  BY DEF SentIsNewest, OpOf, Unseen
<1>1. ASSUME NEW c \in Client, Send(c), x.id = CallId(c)
      PROVE  e.id.i < x.id.i
  <2>1. e \in Past /\ pc[c] = "loop"
    BY <1>1 DEF Send, call_leader, raftVars, Past, Entries, LogOps, Live, AppEntry
  <2>2. OpOf(e.id) = OpId(c) /\ e.id.c = c /\ x.id.i = i[c]
    BY <1>1 DEF OpOf, OpId, CallId
  <2> QED BY <2>1, <2>2 DEF CallInv, EntriesAreOlder
<1>2. ASSUME NEW y \in calls, Becomes(y, x)
      PROVE  e.id.i < x.id.i
  <2>0. x.id = y.id /\ Unseen(y) /\ Live(y)
    BY <1>2 DEF Becomes, Unseen, Live
  <2>1. CASE e \in Past
    BY <2>0, <2>1 DEF CallInv, SentIsNewest
  <2>2. CASE e \notin Past
    <3>1. PICK r \in calls : /\ Unseen(r) /\ e.id = r.id
                             /\ \A z \in calls' : z.id = r.id => ~Unseen(z)
      BY <2>2, NewPast
    <3>2. r = y
      BY <2>0, <3>1 DEF CallInv, OneCall, Unseen, Live
    <3> QED BY <2>0, <3>1, <3>2
  <2> QED BY <2>1, <2>2
<1> QED BY <1>1, <1>2, CallOrigin

LEMMA EntriesAreOlderStep ==
  ASSUME TypeOK, IssuedInv, CallInv, [Next]_vars
  PROVE  EntriesAreOlder'
<1> SUFFICES ASSUME NEW e \in Past', OpOf(e.id) = OpId(e.id.c)'
             PROVE  /\ pc'[e.id.c] = "loop" => e.id.i < i'[e.id.c]
                    /\ pc'[e.id.c] \in {"wait", "probe"} => e.id.i <= i'[e.id.c]
  BY DEF EntriesAreOlder, OpOf
<1> DEFINE d == e.id.c
           Older == /\ pc[d] = "loop" => e.id.i < i[d]
                    /\ pc[d] \in {"wait", "probe"} => e.id.i <= i[d]
<1>1. /\ d \in Client /\ e.id \in Id /\ e.id.i \in Nat /\ n[d] \in Nat /\ e.id.n \in Nat
      /\ e.id.n <= n[d] /\ i[d] \in Nat
  <2>1. \E f \in Issued : f.id = e.id
    <3>1. CASE e \in Past
      BY <3>1, PastTypes
    <3>2. CASE e \notin Past
      BY <3>2, NewPast, CallTypes
    <3> QED BY <3>1, <3>2
  <2> QED BY <2>1, IssuedTypes DEF IssuedInv, TypeOK, ClientTypeOK
<1>2. e.id.n = n'[d] /\ (n'[d] = n[d] => OpOf(e.id) = OpId(d))
  BY <1>1, Ids
<1>3. n'[d] = n[d] => Older
  <2>1. CASE e \in Past
    BY <1>2, <2>1 DEF CallInv, EntriesAreOlder
  <2>2. CASE e \notin Past
    <3>1. PICK r \in calls : Unseen(r) /\ e.id = r.id
      BY <2>2, NewPast
    <3>2. n'[d] = n[d] /\ Busy(d) => pc[d] = "wait" /\ e.id.i = i[d]
      BY <1>2, <3>1 DEF CallInv, CallIsCurrent, Live, Unseen
    <3> QED BY <1>1, <3>2 DEF Busy
  <2> QED BY <2>1, <2>2
<1>4. \/ Still(d) \/ Ends(d) \/ Begins(d) \/ Sends(d) \/ Asks(d) \/ Retries(d)
  BY <1>1, ClientMoves DEF Answered
<1>5. ~Begins(d)
  BY <1>1, <1>2 DEF Begins
<1> QED BY <1>1, <1>3, <1>4, <1>5 DEF Still, Ends, Sends, Asks, Retries, Busy

LEMMA AdriftStep ==
  ASSUME TypeOK, CallInv, [Next]_vars
  PROVE  AdriftInv'
<1> SUFFICES ASSUME NEW x \in calls', ~Live(x)
             PROVE  x.id \in late' /\ \A e \in Entries' : e.id # x.id
  BY DEF AdriftInv, Live
<1>1. PICK r \in calls : Becomes(r, x)
  BY CallOrigin DEF Live
<1>2. x.id = r.id /\ x.stage = "adrift" /\ r.stage \in {"fwd", "adrift"}
  BY <1>1 DEF Becomes, Live
<1>3. r.stage = "adrift" => x = r /\ r.id \in late
  BY <1>1 DEF Becomes, CallInv, AdriftInv, Live
<1>4. x.id \in late'
  BY <1>1, <1>2, <1>3, LateGrows DEF Becomes
<1>5. ASSUME NEW e \in Entries PROVE e.id # x.id
  <2>1. CASE r.stage = "adrift"
    BY <1>2, <2>1 DEF CallInv, AdriftInv, Live
  <2>2. CASE r.stage = "fwd"
    <3>1. OpOf(e.id) = OpOf(r.id) => e.id.i < r.id.i
      BY <2>2 DEF CallInv, SentIsNewest, Past, Unseen
    <3>2. r.id.i \in Nat
      BY CallTypes
    <3> QED BY <1>2, <3>1, <3>2
  <2> QED BY <1>2, <2>1, <2>2
<1>6. ASSUME NEW e \in Entries', e \notin Entries, e.id = x.id PROVE FALSE
  <2>1. PICK y \in calls, t \in Server :
          Enters(y, t) /\ e = AppEntry(y.op, y.id) /\ e.id = y.id
    BY <1>6, NewEntry
  <2>2. x \in calls /\ x # y
    BY <1>2, <2>1, EnteredCalls
  <2> QED BY <1>6, <2>1, <2>2 DEF CallInv, OneCall
<1> QED BY <1>4, <1>5, <1>6

LEMMA CallInvStep ==
  ASSUME TypeOK, IssuedInv, CallInv, [Next]_vars
  PROVE  CallInv'
BY OneCallStep, CallIsCurrentStep, SentIsNewestStep, EntriesAreOlderStep, AdriftStep DEF CallInv

(* The entry that enters a log is new, and the newest of its operation if  *)
(* it is not late.                                                         *)
LEMMA EntersIsNew ==
  ASSUME TypeOK, CallInv, NEW r \in calls, r.stage \in {"sent", "fwd", "adrift"},
         NEW f \in Entries
  PROVE  /\ f.id # r.id
         /\ OpOf(f.id) = OpOf(r.id) => f.id.i < r.id.i \/ r.id \in late
<1>1. CASE Unseen(r)
  <2>1. OpOf(f.id) = OpOf(r.id) => f.id.i < r.id.i
    BY <1>1 DEF CallInv, SentIsNewest, Past
  <2>2. r.id.i \in Nat
    BY CallTypes
  <2> QED BY <2>1, <2>2
<1>2. CASE ~Unseen(r)
  BY <1>2 DEF CallInv, AdriftInv, Live, Unseen
<1> QED BY <1>1, <1>2
-----------------------------------------------------------------------------
(* How the log changes *)

NewLogEntry(r) ==
  \/ log' = Append(log, AppEntry(r.op, r.id)) /\ lost' = lost
  \/ log' = log /\ lost' \subseteq lost \cup {AppEntry(r.op, r.id)}

Appended(r) ==
  /\ r.stage \in {"sent", "fwd", "adrift"} /\ NewLogEntry(r)
  /\ UNCHANGED <<commit_idx, term_start, clientVars, history>>

Advanced ==
  /\ commit_idx' \in commit_idx + 1 .. Len(log) /\ term_start <= commit_idx'
  /\ lost' = {} /\ UNCHANGED <<log, term_start, calls, clientVars, history>>

(* The log of a new leader: a prefix of the old one and lost entries. *)
Elected(keep, back) ==
  /\ commit_idx <= keep /\ keep <= Len(log) /\ back \in Seq(lost)
  /\ Len(log') = keep + Len(back) + 1 /\ term_start' = Len(log')
  /\ \A p \in 1..keep : log'[p] = log[p]
  /\ \A p \in keep + 1 .. keep + Len(back) : log'[p] = back[p - keep]
  /\ ~IsApp(log'[keep + Len(back) + 1])
  /\ \A a, b \in 1..Len(back) : back[a] = back[b] => a = b
  /\ lost' = (lost \ {back[a] : a \in 1..Len(back)})
               \cup {log[p] : p \in {q \in keep + 1 .. Len(log) : IsApp(log[q])}}
  /\ UNCHANGED <<commit_idx, calls, clientVars, history>>

LEMMA ElectKind ==
  ASSUME TypeOK, NEW s \in Server, elect(s), UNCHANGED <<calls, clientVars, history>>
  PROVE  \E keep \in Nat, back \in Seq(lost) : Elected(keep, back)
<1>1. PICK keep \in commit_idx .. Len(log), back \in Arrangements(lost) :
        /\ log' = SubSeq(log, 1, keep) \o back \o <<ConfEntry>>
        /\ lost' = (lost \ Range(back))
                      \cup {log[p] : p \in {q \in keep + 1 .. Len(log) :
                                                IsApp(log[q])}}
        /\ term_start' = keep + Len(back) + 1
  BY DEF elect
<1>2. /\ Len(log') = keep + Len(back) + 1
      /\ \A p \in 1..keep : log'[p] = log[p]
      /\ \A p \in keep + 1 .. keep + Len(back) : log'[p] = back[p - keep]
      /\ log'[keep + Len(back) + 1] = ConfEntry
      /\ back \in Seq(lost) /\ Len(back) \in Nat /\ keep \in Nat
  BY <1>1, ElectLog, ZenonT(30) DEF TypeOK
<1>3. commit_idx <= keep /\ keep <= Len(log) /\ commit_idx' = commit_idx
  BY <1>1 DEF elect, TypeOK, RaftTypeOK
<1>4. Range(back) = {back[a] : a \in 1..Len(back)}
  <2>1. DOMAIN back = 1..Len(back)
    BY <1>2
  <2> QED BY <2>1 DEF Range
<1>5. \A a, b \in 1..Len(back) : back[a] = back[b] => a = b
  BY <1>1, ArrangementsAreSeqs
<1>6. ~IsApp(log'[keep + Len(back) + 1])
  BY <1>2 DEF IsApp, ConfEntry
<1>7. Elected(keep, back)
  BY <1>1, <1>2, <1>3, <1>4, <1>5, <1>6 DEF Elected
<1> QED BY <1>2, <1>7

LEMMA LogKinds ==
  ASSUME TypeOK, [Next]_vars
  PROVE  \/ UNCHANGED <<log, lost, commit_idx, term_start>>
         \/ \E r \in calls : Appended(r)
         \/ Advanced
         \/ \E keep \in Nat, back \in Seq(lost) : Elected(keep, back)
<1>1. ASSUME NEW r \in calls, Handles(r)
      PROVE  UNCHANGED raftVars \/ Appended(r)
  <2>1. ASSUME NEW t \in Server, Enters(r, t) PROVE Appended(r)
    BY <2>1 DEF Enters, append_entry, NewLogEntry, Appended
  <2> QED BY <1>1, <2>1, HandlerKinds DEF Forwards, Replies
<1>2. ASSUME Raft
      PROVE  \/ UNCHANGED <<log, lost, commit_idx, term_start>>
             \/ Advanced
             \/ \E keep \in Nat, back \in Seq(lost) : Elected(keep, back)
  <2>1. UNCHANGED <<calls, clientVars, history>>
    BY <1>2 DEF Raft
  <2>2. ASSUME advance_commit PROVE Advanced
    <3>1. commit_idx \in Nat /\ term_start \in Nat /\ Len(log) \in Nat
      BY DEF TypeOK, RaftTypeOK
    <3> QED BY <2>1, <2>2, <3>1 DEF advance_commit, Advanced
  <2>3. ASSUME NEW s \in Server, observe_leader(s) \/ lose_leader(s)
        PROVE  UNCHANGED <<log, lost, commit_idx, term_start>>
    BY <2>3 DEF observe_leader, lose_leader
  <2> QED BY <1>2, <2>1, <2>2, <2>3, ElectKind DEF Raft
<1>3. ASSUME NEW c \in Client,
             \/ \E host \in Server : Construct(c, host)
             \/ Begin(c) \/ Send(c) \/ SendThrows(c) \/ RpcTimeout(c) \/ Probe(c)
             \/ \E k \in Key : Get(c, k)
      PROVE  UNCHANGED raftVars
  BY <1>3 DEF Construct, Begin, Send, SendThrows, RpcTimeout, Probe, Get
<1>5. ASSUME NEW s \in Server, Commit(s) \/ Stop(s)
      PROVE  UNCHANGED <<log, lost, commit_idx, term_start>>
  BY <1>5 DEF Commit, Stop, stop, raftVars
<1>6. UNCHANGED vars => UNCHANGED raftVars
  BY DEF vars
<1>7. UNCHANGED raftVars => UNCHANGED <<log, lost, commit_idx, term_start>>
  BY DEF raftVars
<1> QED BY <1>1, <1>2, <1>3, <1>5, <1>6, <1>7 DEF Next, Handles

(* Entries with the same attempt number are the same entry. *)
LEMMA SameEntry ==
  ASSUME TypeOK, IssuedInv, NEW e \in Issued, NEW f \in Issued, e.id = f.id
  PROVE  e = f
BY IssuedTypes DEF IssuedInv
-----------------------------------------------------------------------------
(* Attempts are in the log once *)

(* An entry of the log a new leader starts from, and one it leaves behind. *)
LEMMA ElectedEntry ==
  ASSUME TypeOK, NEW keep \in Nat, NEW back \in Seq(lost), Elected(keep, back),
         NEW p \in 1..Len(log'), IsApp(log'[p])
  PROVE  \/ p \in 1..keep /\ p \in 1..Len(log) /\ log'[p] = log[p]
         \/ /\ p - keep \in 1..Len(back) /\ log'[p] = back[p - keep] /\ log'[p] \in lost
            /\ p > keep /\ p # Len(log')
<1>1. Len(back) \in Nat /\ Len(log) \in Nat /\ Len(log') = keep + Len(back) + 1 /\ keep <= Len(log)
  BY DEF Elected, TypeOK, RaftTypeOK
<1>2. CASE p \in 1..keep
  BY <1>1, <1>2 DEF Elected
<1>3. CASE p \in keep + 1 .. keep + Len(back)
  <2>1. p - keep \in 1..Len(back) /\ log'[p] = back[p - keep]
    BY <1>1, <1>3 DEF Elected
  <2> QED BY <1>1, <1>3, <2>1
<1>4. CASE p = keep + Len(back) + 1
  BY <1>4 DEF Elected
<1> QED BY <1>1, <1>2, <1>3, <1>4

LEMMA ElectedLost ==
  ASSUME TypeOK, NEW keep \in Nat, NEW back \in Seq(lost), Elected(keep, back),
         NEW e \in lost'
  PROVE  \/ e \in lost /\ \A a \in 1..Len(back) : e # back[a]
         \/ \E q \in 1..Len(log) : q > keep /\ IsApp(log[q]) /\ e = log[q]
<1>1. Len(log) \in Nat
  BY DEF TypeOK, RaftTypeOK
<1>2. \/ e \in lost \ {back[a] : a \in 1..Len(back)}
      \/ \E q \in keep + 1 .. Len(log) : IsApp(log[q]) /\ e = log[q]
  BY DEF Elected
<1>3. \A q \in keep + 1 .. Len(log) : q \in 1..Len(log) /\ q > keep
  BY <1>1
<1> QED BY <1>2, <1>3

LEMMA InIssued ==
  /\ \A p \in 1..Len(log) : IsApp(log[p]) => log[p] \in Issued /\ log[p] \in Entries
  /\ \A e \in lost : e \in Issued /\ e \in Entries
BY DEF Issued, Entries, LogOps

(* The log with an entry at its end. *)
LEMMA AppendedLog ==
  ASSUME TypeOK, NEW e, log' = Append(log, e)
  PROVE  /\ Len(log) \in Nat /\ Len(log') = Len(log) + 1
         /\ \A p \in 1..Len(log') : \/ p \in 1..Len(log) /\ log'[p] = log[p]
                                    \/ p = Len(log) + 1 /\ log'[p] = e
BY DEF TypeOK, RaftTypeOK

LEMMA UniqueStep ==
  ASSUME TypeOK, IssuedInv, CallInv, UniqueInv, [Next]_vars
  PROVE  UniqueInv'
<1> DEFINE New1 == \A p, q \in 1..Len(log') :
                      IsApp(log'[p]) /\ IsApp(log'[q]) /\ log'[p].id = log'[q].id => p = q
           New2 == \A p \in 1..Len(log'), e \in lost' : IsApp(log'[p]) => log'[p].id # e.id
<1> SUFFICES New1 /\ New2
  BY DEF UniqueInv, IsApp
<1>1. CASE UNCHANGED <<log, lost, commit_idx, term_start>>
  BY <1>1 DEF UniqueInv
<1>2. ASSUME NEW r \in calls, Appended(r)
      PROVE  New1 /\ New2
  <2> DEFINE e == AppEntry(r.op, r.id)
  <2>1. e.id = r.id
    BY CallTypes
  <2>2. \A f \in Entries : f.id # r.id
    BY <1>2, EntersIsNew DEF Appended
  <2> HIDE DEF e
  <2>3. CASE log' = Append(log, e) /\ lost' = lost
    BY <2>1, <2>2, <2>3, AppendedLog, InIssued DEF UniqueInv
  <2>4. CASE log' = log /\ lost' \subseteq lost \cup {e}
    BY <2>1, <2>2, <2>4, InIssued DEF UniqueInv
  <2> QED BY <1>2, <2>3, <2>4 DEF Appended, NewLogEntry, e
<1>3. CASE Advanced
  BY <1>3 DEF Advanced, UniqueInv
<1>4. ASSUME NEW keep \in Nat, NEW back \in Seq(lost), Elected(keep, back)
      PROVE  New1 /\ New2
  <2>1. New1
    <3> SUFFICES ASSUME NEW p \in 1..Len(log'), NEW q \in 1..Len(log'),
                        IsApp(log'[p]), IsApp(log'[q]), log'[p].id = log'[q].id
                 PROVE  p = q
      OBVIOUS
    <3>1. CASE p \in 1..keep /\ q \in 1..keep
      BY <1>4, <3>1, ElectedEntry DEF UniqueInv
    <3>2. CASE p \in 1..keep <=> q \notin 1..keep
      BY <1>4, <3>2, ElectedEntry DEF UniqueInv
    <3>3. CASE p \notin 1..keep /\ q \notin 1..keep
      <4>1. /\ p - keep \in 1..Len(back) /\ log'[p] = back[p - keep] /\ log'[p] \in lost
            /\ q - keep \in 1..Len(back) /\ log'[q] = back[q - keep] /\ log'[q] \in lost
        BY <1>4, <3>3, ElectedEntry
      <4>2. log'[p] = log'[q]
        BY <4>1, InIssued, SameEntry
      <4>3. p - keep = q - keep
        BY <1>4, <4>1, <4>2 DEF Elected
      <4>4. Len(log') \in Nat
        BY <1>4 DEF Elected, TypeOK, RaftTypeOK
      <4> QED BY <4>3, <4>4
    <3> QED BY <3>1, <3>2, <3>3
  <2>2. New2
    <3> SUFFICES ASSUME NEW p \in 1..Len(log'), IsApp(log'[p]), NEW e \in lost',
                        log'[p].id = e.id
                 PROVE  FALSE
      OBVIOUS
    <3>1. CASE p \in 1..keep /\ p \in 1..Len(log) /\ log'[p] = log[p]
      BY <1>4, <3>1, ElectedLost DEF UniqueInv
    <3>2. CASE p - keep \in 1..Len(back) /\ log'[p] = back[p - keep] /\ log'[p] \in lost
      <4>1. e \in lost => e = log'[p]
        BY <3>2, InIssued, SameEntry
      <4> QED BY <1>4, <3>2, <4>1, ElectedLost DEF UniqueInv
    <3> QED BY <1>4, <3>1, <3>2, ElectedEntry
  <2> QED BY <2>1, <2>2
<1> QED BY <1>1, <1>2, <1>3, <1>4, LogKinds

LEMMA AttemptStep ==
  ASSUME TypeOK, AttemptInv, [Next]_vars
  PROVE  AttemptInv'
<1>1. ASSUME NEW c \in Client, Busy(c)' PROVE i'[c] < NumRetries
  <2>1. Still(c) \/ Begins(c) \/ Sends(c) \/ Asks(c) \/ Retries(c)
    BY <1>1, ClientMoves DEF Answered, Ends
  <2> QED BY <1>1, <2>1, ClientAssumption
        DEF AttemptInv, Still, Begins, Sends, Asks, Retries, Busy
<1>2. ASSUME NEW c \in Client, Send(c) PROVE CallId(c).i < NumRetries
  BY <1>2 DEF Send, call_leader, AttemptInv, Busy, CallId
<1>3. \A e \in Issued' : e.id.i < NumRetries
  <2>1. ASSUME NEW c \in Client, Send(c), NEW e,
               e = AppEntry(operation_of(req[c]), CallId(c))
        PROVE  e.id.i < NumRetries
    BY <1>2, <2>1 DEF AppEntry
  <2> QED BY <2>1, IssuedStep DEF AttemptInv
<1> QED BY <1>1, <1>3 DEF AttemptInv
-----------------------------------------------------------------------------
(* The order of the attempts of one operation *)

LEMMA OrderStep ==
  ASSUME TypeOK, IndexInv, CallInv, OrderInv, [Next]_vars
  PROVE  OrderInv'
<1> DEFINE Late(p, q) == term_start' < q \/ (p <= commit_idx' /\ commit_idx' < q)
           New1 == \A p, q \in 1..Len(log') :
                      /\ IsApp(log'[p]) /\ IsApp(log'[q])
                      /\ OpOf(log'[p].id) = OpOf(log'[q].id) /\ p < q /\ Late(p, q)
                      => log'[p].id.i < log'[q].id.i \/ log'[q].id \in late'
           New2 == \A p \in 1..commit_idx', e \in lost' :
                      IsApp(log'[p]) /\ OpOf(log'[p].id) = OpOf(e.id)
                        => log'[p].id.i < e.id.i \/ e.id \in late'
<1>0. /\ commit_idx \in Nat /\ term_start \in Nat /\ Len(log) \in Nat
      /\ commit_idx <= Len(log) /\ Len(log') \in Nat /\ commit_idx' \in Nat
      /\ term_start' \in Nat /\ late \subseteq late'
  BY TypeStep, LateGrows DEF IndexInv, TypeOK, RaftTypeOK
<1> SUFFICES New1 /\ New2
  BY DEF OrderInv, IsApp, OpOf
<1>1. CASE UNCHANGED <<log, lost, commit_idx, term_start>>
  BY <1>0, <1>1 DEF OrderInv
<1>2. ASSUME NEW r \in calls, Appended(r)
      PROVE  New1 /\ New2
  <2> DEFINE e == AppEntry(r.op, r.id)
  <2>1. e.id = r.id /\ commit_idx' = commit_idx /\ term_start' = term_start
    BY <1>2, CallTypes DEF Appended
  <2>2. \A f \in Entries : OpOf(f.id) = OpOf(r.id) => f.id.i < r.id.i \/ r.id \in late'
    BY <1>0, <1>2, EntersIsNew DEF Appended
  <2> HIDE DEF e
  <2>3. CASE log' = Append(log, e) /\ lost' = lost
    <3>1. /\ Len(log') = Len(log) + 1
          /\ \A p \in 1..Len(log') : \/ p \in 1..Len(log) /\ log'[p] = log[p]
                                     \/ p = Len(log) + 1 /\ log'[p] = e
      BY <2>3, AppendedLog
    <3>2. New1
      <4> SUFFICES ASSUME NEW p \in 1..Len(log'), NEW q \in 1..Len(log'),
                          IsApp(log'[p]), IsApp(log'[q]), p < q, Late(p, q),
                          OpOf(log'[p].id) = OpOf(log'[q].id)
                   PROVE  log'[p].id.i < log'[q].id.i \/ log'[q].id \in late'
        OBVIOUS
      <4>1. p \in 1..Len(log) /\ log'[p] = log[p]
        BY <1>0, <3>1
      <4>2. CASE q \in 1..Len(log)
        <5>1. log'[q] = log[q]
          BY <1>0, <3>1, <4>2
        <5> QED BY <1>0, <2>1, <4>1, <4>2, <5>1 DEF OrderInv
      <4>3. CASE q \notin 1..Len(log)
        <5>1. log'[q] = e
          BY <3>1, <4>3
        <5> QED BY <2>1, <2>2, <4>1, <5>1, InIssued
      <4> QED BY <4>2, <4>3
    <3>3. New2
      <4>1. \A p \in 1..commit_idx' : p \in 1..Len(log') /\ p # Len(log) + 1
        BY <1>0, <2>1, <3>1
      <4>2. \A p \in 1..commit_idx' : log'[p] = log[p]
        BY <3>1, <4>1
      <4> QED BY <1>0, <2>1, <2>3, <4>2 DEF OrderInv
    <3> QED BY <3>2, <3>3
  <2>4. CASE log' = log /\ lost' \subseteq lost \cup {e}
    <3>1. New1
      BY <1>0, <2>1, <2>4 DEF OrderInv
    <3>2. \A p \in 1..commit_idx : p \in 1..Len(log)
      BY <1>0
    <3>3. New2
      BY <1>0, <2>1, <2>2, <2>4, <3>2, InIssued DEF OrderInv
    <3> QED BY <3>1, <3>3
  <2> QED BY <1>2, <2>3, <2>4 DEF Appended, NewLogEntry, e
<1>3. CASE Advanced
  <2>1. /\ log' = log /\ lost' = {} /\ term_start' = term_start /\ term_start <= commit_idx'
    BY <1>3 DEF Advanced
  <2>2. \A p, q \in 1..Len(log) : Late(p, q) => term_start < q
    BY <1>0, <2>1
  <2> QED BY <1>0, <2>1, <2>2 DEF OrderInv
<1>4. ASSUME NEW keep \in Nat, NEW back \in Seq(lost), Elected(keep, back)
      PROVE  New1 /\ New2
  <2>1. commit_idx' = commit_idx /\ commit_idx <= keep /\ term_start' = Len(log') /\ keep <= Len(log)
    BY <1>4 DEF Elected
  <2>2. ASSUME NEW p \in 1..commit_idx
        PROVE  p \in 1..keep /\ p \in 1..Len(log) /\ log'[p] = log[p]
    BY <1>0, <1>4, <2>1 DEF Elected
  <2>3. New1
    <3> SUFFICES ASSUME NEW p \in 1..Len(log'), NEW q \in 1..Len(log'),
                        IsApp(log'[p]), IsApp(log'[q]), p < q, Late(p, q),
                        OpOf(log'[p].id) = OpOf(log'[q].id)
                 PROVE  log'[p].id.i < log'[q].id.i \/ log'[q].id \in late'
      OBVIOUS
    <3>1. p \in 1..commit_idx /\ commit_idx < q
      BY <1>0, <2>1
    <3>2. p \in 1..Len(log) /\ log'[p] = log[p]
      BY <2>2, <3>1
    <3>3. CASE q \in 1..Len(log) /\ log'[q] = log[q]
      <4>1. p <= commit_idx
        BY <1>0, <3>1
      <4> QED BY <1>0, <3>1, <3>2, <3>3, <4>1 DEF OrderInv
    <3>4. CASE log'[q] \in lost
      BY <1>0, <3>1, <3>2, <3>4 DEF OrderInv
    <3> QED BY <1>4, <3>3, <3>4, ElectedEntry
  <2>4. New2
    <3> SUFFICES ASSUME NEW p \in 1..commit_idx, NEW e \in lost', IsApp(log'[p]),
                        OpOf(log'[p].id) = OpOf(e.id)
                 PROVE  log'[p].id.i < e.id.i \/ e.id \in late'
      BY <2>1
    <3>1. CASE e \in lost
      BY <1>0, <2>2, <3>1 DEF OrderInv
    <3>2. ASSUME NEW q \in 1..Len(log), q > keep, IsApp(log[q]), e = log[q]
          PROVE  log'[p].id.i < e.id.i \/ e.id \in late'
      <4>1. p < q /\ p <= commit_idx /\ commit_idx < q
        BY <1>0, <2>1, <2>2, <3>2
      <4> QED BY <1>0, <2>2, <3>2, <4>1 DEF OrderInv
    <3> QED BY <1>4, <3>1, <3>2, ElectedLost
  <2> QED BY <2>3, <2>4
<1> QED BY <1>1, <1>2, <1>3, <1>4, LogKinds
-----------------------------------------------------------------------------
(* Acknowledged operations are over *)

(* A client's operation count only grows. *)
LEMMA CountGrows ==
  ASSUME TypeOK, [Next]_vars, NEW c \in Client
  PROVE  n[c] \in Nat /\ n'[c] \in {n[c], n[c] + 1}
BY ClientMoves DEF Still, Ends, Begins, Sends, Asks, Retries, Answered, TypeOK, ClientTypeOK

LEMMA OverStep ==
  ASSUME TypeOK, IndexInv, CallInv, [Next]_vars, NEW o \in [c : Client, n : Nat], Over(o)
  PROVE  Over(o)'
<1>0. /\ commit_idx \in Nat /\ Len(log) \in Nat /\ commit_idx <= Len(log)
      /\ o.c \in Client /\ o.n \in Nat /\ n[o.c] \in Nat /\ o.n <= n[o.c]
      /\ late \subseteq late'
  BY CountGrows, LateGrows DEF IndexInv, TypeOK, RaftTypeOK, Over
<1>1. o.n <= n'[o.c]
  BY <1>0, CountGrows
<1>2. ASSUME o = OpId(o.c)' PROVE ~Busy(o.c)'
  <2>1. n'[o.c] = n[o.c]
    <3>1. n'[o.c] = o.n
      BY <1>2 DEF OpId
    <3> QED BY <1>0, <3>1, CountGrows
  <2>2. ~Busy(o.c)
    BY <1>2, <2>1 DEF OpId, Over
  <2>3. ~Begins(o.c)
    BY <1>0, <2>1 DEF Begins
  <2> QED BY <1>0, <2>2, <2>3, ClientMoves
        DEF Still, Ends, Sends, Asks, Retries, Answered, Busy
<1>3. ASSUME NEW x \in calls', Live(x) PROVE OpOf(x.id) # o
  <2>1. ASSUME NEW c \in Client, Send(c), x.id = CallId(c) PROVE OpOf(x.id) # o
    <3>1. OpOf(x.id) = OpId(c) /\ OpId(c).c = c /\ Busy(c)
      BY <2>1 DEF OpOf, CallId, OpId, Send, call_leader, Busy
    <3> QED BY <3>1 DEF Over
  <2>2. ASSUME NEW r \in calls, Becomes(r, x) PROVE OpOf(x.id) # o
    BY <1>3, <2>2 DEF Becomes, Live, Over
  <2> QED BY <2>1, <2>2, CallOrigin
<1> DEFINE NewLost == \A e \in lost' : OpOf(e.id) = o => e.id \in late'
           NewLog == \A p \in 1..Len(log') :
                       IsApp(log'[p]) /\ OpOf(log'[p].id) = o
                         => p <= commit_idx' \/ log'[p].id \in late'
<1>4. NewLost /\ NewLog
  <2>1. CASE UNCHANGED <<log, lost, commit_idx, term_start>>
    BY <1>0, <2>1 DEF Over
  <2>2. ASSUME NEW r \in calls, Appended(r) PROVE NewLost /\ NewLog
    <3> DEFINE e == AppEntry(r.op, r.id)
    <3>1. e.id = r.id /\ (OpOf(e.id) = o => e.id \in late') /\ commit_idx' = commit_idx
      BY <1>0, <2>2, CallTypes DEF Appended, Over, CallInv, AdriftInv, Live
    <3> HIDE DEF e
    <3>2. CASE log' = Append(log, e) /\ lost' = lost
      BY <1>0, <3>1, <3>2, AppendedLog DEF Over
    <3>3. CASE log' = log /\ lost' \subseteq lost \cup {e}
      BY <1>0, <3>1, <3>3 DEF Over
    <3> QED BY <2>2, <3>2, <3>3 DEF Appended, NewLogEntry, e
  <2>3. CASE Advanced
    <3>1. log' = log /\ lost' = {} /\ commit_idx' \in Nat /\ commit_idx <= commit_idx'
      BY <1>0, <2>3 DEF Advanced
    <3> QED BY <1>0, <3>1 DEF Over
  <2>4. ASSUME NEW keep \in Nat, NEW back \in Seq(lost), Elected(keep, back)
        PROVE  NewLost /\ NewLog
    <3>1. commit_idx' = commit_idx /\ commit_idx <= keep
      BY <2>4 DEF Elected
    <3>2. NewLog
      BY <1>0, <2>4, <3>1, ElectedEntry DEF Over
    <3>3. ASSUME NEW q \in 1..Len(log), q > keep, IsApp(log[q])
          PROVE  OpOf(log[q].id) = o => log[q].id \in late'
      BY <1>0, <3>1, <3>3 DEF Over
    <3> QED BY <1>0, <2>4, <3>2, <3>3, ElectedLost DEF Over
  <2> QED BY <2>1, <2>2, <2>3, <2>4, LogKinds
<1> QED BY <1>1, <1>2, <1>3, <1>4 DEF Over, OpOf, IsApp, Live

(* The operation whose success is reported now is over too: its attempt is *)
(* committed and was the last one.                                         *)
LEMMA AckOver ==
  ASSUME TypeOK, IndexInv, IssuedInv, AppliedInv, CallInv, OrderInv, [Next]_vars,
         NEW r \in calls, handler_return(r), r.stage = "applied", IsWaitingFor(r)
  PROVE  Over(OpOf(r.id))'
<1> DEFINE d == r.id.c
           o == OpOf(r.id)
<1>1. /\ d \in Client /\ r.id \in Id /\ pc[d] = "wait" /\ r.id = CallId(d) /\ o = OpId(d)
      /\ o.c = d /\ o.n = n[d] /\ r.id.i = i[d] /\ r.id.i \in Nat
  BY CallTypes DEF IsWaitingFor, CallId, OpId, OpOf
<1>2. UNCHANGED raftVars /\ \A x \in calls' : Live(x) => x \in calls /\ x # r
  BY AdriftCalls DEF handler_return, Live
<1>0. late \subseteq late'
  BY LateGrows
<1>3. Ends(d)
  <2>1. PICK x \in RaftResults(r) : reply(r, extract_result(x))
    BY DEF handler_return
  <2>2. was_accepted(extract_result(x))
    BY <2>1 DEF RaftResults, RaftResult, extract_result, was_accepted
  <2>3. answer(d, extract_result(x))
    BY <2>1 DEF reply
  <2> QED BY <1>1, <2>2, <2>3, AnswerMove DEF TypeOK
<1>4. PICK p \in 1..commit_idx : log[p] = AppEntry(r.op, r.id)
  BY DEF AppliedInv
<1>5. /\ commit_idx \in Nat /\ Len(log) \in Nat /\ commit_idx <= Len(log)
      /\ p \in 1..Len(log) /\ IsApp(log[p]) /\ log[p].id = r.id
  BY <1>4 DEF IndexInv, TypeOK, RaftTypeOK, AppEntry, IsApp
<1>6. ASSUME NEW e \in Entries, OpOf(e.id) = o PROVE e.id.i <= r.id.i /\ e.id.i \in Nat
  <2>1. e.id.c = d /\ e.id.i \in Nat
    BY <1>1, <1>6, EntryTypes, Ids
  <2> QED BY <1>1, <1>6, <2>1 DEF CallInv, EntriesAreOlder, Past
<1> HIDE DEF d, o
<1>7. ASSUME NEW e \in lost, OpOf(e.id) = o PROVE e.id \in late
  <2>1. log[p].id.i < e.id.i \/ e.id \in late
    BY <1>5, <1>7 DEF OrderInv, o
  <2> QED BY <1>1, <1>5, <1>6, <1>7, <2>1, InIssued
<1>8. ASSUME NEW q \in 1..Len(log), IsApp(log[q]), OpOf(log[q].id) = o
      PROVE  q <= commit_idx \/ log[q].id \in late
  <2> SUFFICES ASSUME commit_idx < q PROVE log[q].id \in late
    BY <1>5
  <2>1. p < q /\ p <= commit_idx
    BY <1>5
  <2>2. log[p].id.i < log[q].id.i \/ log[q].id \in late
    BY <1>5, <1>8, <2>1 DEF OrderInv, o
  <2>3. log[q].id.i <= r.id.i /\ log[q].id.i \in Nat
    BY <1>6, <1>8, InIssued
  <2> QED BY <1>1, <1>5, <2>2, <2>3
<1>9. \A x \in calls' : Live(x) => OpOf(x.id) # o
  BY <1>2 DEF CallInv, OneCall, o, Live
<1>10. o.n <= n'[d] /\ n[d] \in Nat
  BY <1>1, CountGrows
<1>11. /\ o.n <= n'[o.c] /\ ~Busy(o.c)' /\ \A x \in calls' : Live(x) => OpOf(x.id) # o
       /\ \A e \in lost' : OpOf(e.id) = o => e.id \in late'
       /\ \A q \in 1..Len(log') : IsApp(log'[q]) /\ OpOf(log'[q].id) = o
                                   => q <= commit_idx' \/ log'[q].id \in late'
  BY <1>0, <1>1, <1>2, <1>3, <1>7, <1>8, <1>9, <1>10 DEF raftVars, Ends
<1> QED BY <1>11 DEF Over, o, OpOf, IsApp, Live

LEMMA AckedInvStep ==
  ASSUME SafetyInv, CallInv, OrderInv, AckedInv, [Next]_vars
  PROVE  AckedInv'
<1>0. TypeOK /\ IndexInv /\ IssuedInv /\ AppliedInv
  BY DEF SafetyInv
<1>1. ASSUME NEW a \in acked PROVE Over(a.op)'
  <2>1. a.op \in [c : Client, n : Nat]
    BY <1>0 DEF TypeOK, CallTypeOK
  <2>2. Over(a.op)
    BY DEF AckedInv, Over
  <2> QED BY <1>0, <2>1, <2>2, OverStep
<1>2. ASSUME NEW a \in acked', a \notin acked PROVE Over(a.op)'
  <2>1. PICK r \in calls :
              /\ handler_return(r) /\ r.stage = "applied" /\ IsWaitingFor(r)
              /\ acked' = acked \cup {[op |-> OpOf(r.id), req |-> req[r.id.c]]}
    BY <1>0, <1>2, AckedStep
  <2>2. a.op = OpOf(r.id)
    BY <1>2, <2>1
  <2>3. Over(OpOf(r.id))'
    BY <1>0, <2>1, AckOver
  <2> QED BY <2>2, <2>3 DEF Over, OpId, OpOf, IsApp, Busy, Live
<1>3. \A a \in acked' : Over(a.op)'
  BY <1>1, <1>2
<1> QED BY <1>3 DEF AckedInv, Over, Live
-----------------------------------------------------------------------------
(* Real time *)

LEMMA BeforeStep ==
  ASSUME TypeOK, IssuedInv, AppliedInv, [Next]_vars
  PROVE  /\ acked \subseteq acked'
         /\ \/ before' = before
            \/ \E c \in Client :
                 /\ UNCHANGED raftVars
                 /\ before' = before \cup {<<a.op, [c |-> c, n |-> n[c] + 1]>> : a \in acked}
<1>1. acked \subseteq acked'
  BY AckedStep
<1>2. ASSUME NEW c \in Client, Begin(c)
      PROVE  /\ UNCHANGED raftVars
             /\ before' = before \cup {<<a.op, [c |-> c, n |-> n[c] + 1]>> : a \in acked}
  BY <1>2 DEF Begin
<1>3. ASSUME NEW c \in Client,
             \/ \E host \in Server : Construct(c, host)
             \/ Send(c) \/ SendThrows(c) \/ RpcTimeout(c) \/ Probe(c)
             \/ \E k \in Key : Get(c, k)
      PROVE  before' = before
  BY <1>3 DEF Construct, Send, SendThrows, RpcTimeout, Probe, Get, history
<1>4. ASSUME NEW r \in calls, Handles(r)
      PROVE  before' = before
  BY <1>4, HandlerKinds DEF Enters, Forwards, Replies, history
<1>5. ASSUME NEW s \in Server, Commit(s) \/ Stop(s)
      PROVE  before' = before
  BY <1>5 DEF Commit, Stop, history
<1>6. Raft \/ UNCHANGED vars => before' = before
  BY DEF Raft, vars, history
<1> QED BY <1>1, <1>2, <1>3, <1>4, <1>5, <1>6 DEF Next, Handles

LEMMA BeforeInvStep ==
  ASSUME TypeOK, IssuedInv, AppliedInv, BeforeInv, [Next]_vars
  PROVE  BeforeInv'
<1>1. ASSUME NEW c, NEW x \in {<<a.op, [c |-> c, n |-> n[c] + 1]>> : a \in acked}
      PROVE  \E a \in acked : a.op = x[1]
  OBVIOUS
<1> QED BY <1>1, BeforeStep DEF BeforeInv

LEMMA RealTimeStep ==
  ASSUME TypeOK, IndexInv, IssuedInv, AppliedInv, CallInv, AckedInv, BeforeInv, RealTimeOrder,
         [Next]_vars
  PROVE  RealTimeOrder'
<1> SUFFICES ASSUME NEW p \in 1..Len(log'), NEW q \in 1..Len(log'),
                    IsApp(log'[p]), IsApp(log'[q]),
                    <<OpOf(log'[p].id), OpOf(log'[q].id)>> \in before'
             PROVE  p < q \/ log'[p].id \in late'
  BY DEF RealTimeOrder, IsApp, OpOf
<1>0. commit_idx \in Nat /\ Len(log) \in Nat /\ late \subseteq late'
  BY LateGrows DEF TypeOK, RaftTypeOK
<1>1. ASSUME NEW c \in Client, UNCHANGED raftVars,
             before' = before \cup {<<a.op, [c |-> c, n |-> n[c] + 1]>> : a \in acked}
      PROVE  p < q \/ log'[p].id \in late'
  <2>1. log' = log
    BY <1>1 DEF raftVars
  <2>2. ASSUME OpOf(log[q].id) = [c |-> c, n |-> n[c] + 1] PROVE FALSE
    <3>1. log[q] \in Issued
      BY <2>1, InIssued
    <3>2. log[q].id.c = c /\ log[q].id.n = n[c] + 1
      BY <2>2 DEF OpOf
    <3> QED BY <3>1, <3>2 DEF IssuedInv, TypeOK, ClientTypeOK
  <2>3. <<OpOf(log[p].id), OpOf(log[q].id)>> \in before
    BY <1>1, <2>1, <2>2
  <2> QED BY <1>0, <2>1, <2>3 DEF RealTimeOrder
<1>2. CASE before' = before
  <2>1. PICK a \in acked : a.op = OpOf(log'[p].id)
    BY <1>2 DEF BeforeInv
  <2>2. /\ \A r \in calls : OpOf(r.id) = a.op => r.id \in late'
        /\ \A e \in lost : OpOf(e.id) = a.op => e.id \in late'
    BY <1>0 DEF AckedInv, Over, CallInv, AdriftInv
  <2>0. SUFFICES ASSUME log'[p].id \notin late' PROVE p < q
    OBVIOUS
  <2>3. CASE log' = log
    BY <1>0, <1>2, <2>0, <2>3 DEF RealTimeOrder
  <2>4. ASSUME NEW r \in calls, Appended(r)
        PROVE  p < q \/ log'[p].id \in late'
    <3> DEFINE e == AppEntry(r.op, r.id)
    <3>1. e.id = r.id
      BY CallTypes
    <3> HIDE DEF e
    <3>2. CASE log' = Append(log, e)
      <4>1. p \in 1..Len(log) /\ log'[p] = log[p]
        BY <2>0, <2>1, <2>2, <3>1, <3>2, AppendedLog
      <4>2. CASE q \in 1..Len(log) /\ log'[q] = log[q]
        BY <1>0, <1>2, <2>0, <4>1, <4>2 DEF RealTimeOrder
      <4>3. CASE q = Len(log) + 1
        BY <1>0, <4>1, <4>3
      <4> QED BY <3>2, <4>2, <4>3, AppendedLog
    <3> QED BY <2>3, <2>4, <3>2 DEF Appended, NewLogEntry, e
  <2>5. CASE Advanced
    BY <2>3, <2>5 DEF Advanced
  <2>6. ASSUME NEW keep \in Nat, NEW back \in Seq(lost), Elected(keep, back)
        PROVE  p < q \/ log'[p].id \in late'
    <3>1. p \in 1..keep /\ p \in 1..Len(log) /\ log'[p] = log[p]
      BY <2>0, <2>1, <2>2, <2>6, ElectedEntry
    <3>2. CASE q \in 1..Len(log) /\ log'[q] = log[q]
      BY <1>0, <1>2, <2>0, <3>1, <3>2 DEF RealTimeOrder
    <3>3. CASE q > keep
      <4>1. Len(log') \in Nat
        BY <2>6 DEF Elected, TypeOK, RaftTypeOK
      <4> QED BY <3>1, <3>3, <4>1
    <3> QED BY <2>6, <3>2, <3>3, ElectedEntry
  <2> QED BY <2>0, <2>3, <2>4, <2>5, <2>6, LogKinds
<1> QED BY <1>1, <1>2, BeforeStep

LEMMA OrderedInvCorrect == Spec => []OrderedInv
<1>1. Init => CallInv /\ UniqueInv /\ AttemptInv /\ OrderInv /\ AckedInv /\ BeforeInv
              /\ RealTimeOrder
  <2> SUFFICES ASSUME Init
               PROVE  CallInv /\ UniqueInv /\ AttemptInv /\ OrderInv /\ AckedInv /\ BeforeInv
                      /\ RealTimeOrder
    OBVIOUS
  <2>1. log = <<>> /\ lost = {} /\ calls = {} /\ acked = {} /\ before = {} /\ commit_idx = 0
    BY DEF Init, RaftInit
  <2>2. Issued = {} /\ Entries = {} /\ Past = {} /\ Len(log) = 0
    BY <2>1 DEF Issued, Entries, LogOps, Past
  <2>3. \A c \in Client : ~Busy(c)
    BY DEF Init, ClientInit, Busy
  <2>4. CallInv /\ AttemptInv
    BY <2>1, <2>2, <2>3 DEF CallInv, OneCall, CallIsCurrent, SentIsNewest, EntriesAreOlder,
          AdriftInv, AttemptInv
  <2> QED BY <2>1, <2>2, <2>4
        DEF UniqueInv, OrderInv, AckedInv, BeforeInv, RealTimeOrder
<1>2. OrderedInv /\ [Next]_vars /\ SafetyInv' => OrderedInv'
  BY CallInvStep, UniqueStep, AttemptStep, OrderStep, AckedInvStep, BeforeInvStep,
     RealTimeStep DEF OrderedInv, SafetyInv
<1> QED BY <1>1, <1>2, SafetyInvCorrect, PTL DEF Spec, OrderedInv

(* The retry loop never puts one of its attempts into the log twice, and   *)
(* makes at most num_retries_ of them.                                     *)
THEOREM AttemptsCorrect == Spec => []AttemptsOnce
<1>1. OrderedInv => AttemptsOnce
  BY InIssued DEF OrderedInv, UniqueInv, AttemptInv, AttemptsOnce
<1> QED BY <1>1, OrderedInvCorrect, PTL

(* Once success was reported for a mutation, an attempt of it takes effect *)
(* behind an operation that began afterwards only if append_log was still  *)
(* forwarding it when its handler answered.                                *)
THEOREM RealTimeCorrect == Spec => []RealTimeOrder
<1>1. OrderedInv => RealTimeOrder
  BY DEF OrderedInv
<1> QED BY <1>1, OrderedInvCorrect, PTL
=============================================================================
