----------------------- MODULE ReplicatedHistoryProofs -----------------------
(***************************************************************************)
(* Proofs about what readers see: a get returns committed data, and the    *)
(* store implements ReplicatedHistory where no SplinterDB call fails.      *)
(***************************************************************************)
EXTENDS ReplicatedStoreProofs

Read == [idx : Nat, srv : Server, key : Key,
         res : (Value \cup {NotFound}) \X {SPL_OK, SPL_NOT_FOUND, SPL_ERR}]

GotTypeOK == got \in [Client -> Read \cup {NoRead}]

(* What ReadIsCommitted says of one get, for log lg committed up to m. *)
Committed(lg, m, g) ==
  /\ g.idx <= m
  /\ HoldsAfter(lg, g.key, g.res[1], g.idx)
  /\ (g.res[2] = SPL_OK) <=> (g.res[1] # NotFound)

LEMMA GotStep ==
  ASSUME TypeOK, [Next]_vars
  PROVE  got' = got \/ \E c \in Client, k \in Key : Get(c, k)
<1>1. ASSUME NEW c \in Client,
             \/ \E host \in Server : Construct(c, host)
             \/ Begin(c) \/ Send(c) \/ SendThrows(c) \/ RpcTimeout(c) \/ Probe(c)
      PROVE  got' = got
  BY <1>1 DEF Construct, Begin, Send, SendThrows, RpcTimeout, Probe, history
<1>2. ASSUME NEW r \in calls, Handles(r)
      PROVE  got' = got
  BY <1>2, HandlerKinds DEF Enters, Forwards, Replies, history
<1>3. ASSUME NEW s \in Server, Commit(s) \/ Stop(s)
      PROVE  got' = got
  BY <1>3 DEF Commit, Stop, history
<1>4. Raft \/ UNCHANGED vars => got' = got
  BY DEF Raft, vars, history
<1> QED BY <1>1, <1>2, <1>3, <1>4 DEF Next, Handles

(* The read of one get of key k on server s, where SplinterDB returns rc. *)
ReadOf(s, k, rc) ==
  [idx |-> last_committed_idx[s], srv |-> s, key |-> k, res |-> read(s, k, rc)]

LEMMA ReadValue ==
  ASSUME TypeOK, NEW s \in Server, NEW k \in Key, NEW rc \in SplReturnCodes(s)
  PROVE  /\ ReadOf(s, k, rc) \in Read
         /\ s \notin Faulty =>
              /\ read(s, k, rc)[1] = spl[s][k]
              /\ (read(s, k, rc)[2] = SPL_OK) <=> (spl[s][k] # NotFound)
<1>1. /\ last_committed_idx[s] \in Nat /\ spl[s][k] \in Value \cup {NotFound}
      /\ rc \in {SPL_OK, SPL_ERR} /\ (s \notin Faulty => rc = SPL_OK)
  BY DEF TypeOK, SmTypeOK, SplReturnCodes
<1>2. read(s, k, rc) \in (Value \cup {NotFound}) \X {SPL_OK, SPL_NOT_FOUND, SPL_ERR}
  BY <1>1 DEF read
<1>3. s \notin Faulty => /\ read(s, k, rc)[1] = spl[s][k]
                         /\ (read(s, k, rc)[2] = SPL_OK) <=> (spl[s][k] # NotFound)
  BY <1>1 DEF read, SPL_OK, SPL_NOT_FOUND
<1> QED BY <1>1, <1>2, <1>3 DEF Read, ReadOf

LEMMA GetReads ==
  ASSUME TypeOK, NEW c \in Client, NEW k \in Key, Get(c, k)
  PROVE  \/ got' = got
         \/ \E s \in Server : \E rc \in SplReturnCodes(s) :
              got' = [got EXCEPT ![c] = ReadOf(s, k, rc)]
<1> DEFINE s == Head(server_ids[c])
<1>1. \/ got' = got
      \/ s \in up /\ \E rc \in SplReturnCodes(s) :
                       got' = [got EXCEPT ![c] = ReadOf(s, k, rc)]
  BY DEF Get, ReadOf
<1>2. s \in up => s \in Server
  BY DEF TypeOK, RaftTypeOK
<1> QED BY <1>1, <1>2

LEMMA ReadStep ==
  ASSUME TypeOK, IndexInv, ReplicaIsReplay, GotTypeOK, ReadIsCommitted, [Next]_vars
  PROVE  GotTypeOK' /\ ReadIsCommitted'
<1> DEFINE Good(g) == g # NoRead /\ g.srv \notin Faulty => Committed(log', commit_idx', g)
<1>1. PrefixKept /\ commit_idx' \in Nat /\ commit_idx \in Nat
  BY IndexStep, TypeStep DEF TypeOK, RaftTypeOK
<1>2. ASSUME NEW c \in Client PROVE Good(got[c])
  <2> SUFFICES ASSUME got[c] # NoRead, got[c].srv \notin Faulty
               PROVE  Committed(log', commit_idx', got[c])
    OBVIOUS
  <2> DEFINE g == got[c]
  <2>0. g \in Read /\ g.idx \in Nat
    BY DEF GotTypeOK, Read
  <2>1. Committed(log, commit_idx, g)
    BY DEF ReadIsCommitted, Committed
  <2>2. g.idx <= commit_idx'
    BY <1>1, <2>0, <2>1 DEF Committed, PrefixKept
  <2>3. \A p \in 1..g.idx : log'[p] = log[p]
    BY <1>1, <2>0, <2>1 DEF Committed, PrefixKept
  <2> HIDE DEF g
  <2>4. HoldsAfter(log', g.key, g.res[1], g.idx)
    BY <2>0, <2>1, <2>3, HoldsKept DEF Committed
  <2> QED BY <2>1, <2>2, <2>4 DEF Committed, g
<1>3. ASSUME NEW c \in Client, NEW k \in Key, Get(c, k), got' # got
      PROVE  \E g \in Read : got' = [got EXCEPT ![c] = g] /\ Good(g)
  <2>0. PICK s \in Server : \E rc \in SplReturnCodes(s) :
          got' = [got EXCEPT ![c] = ReadOf(s, k, rc)]
    BY <1>3, GetReads
  <2>1. PICK rc \in SplReturnCodes(s) :
          got' = [got EXCEPT ![c] = ReadOf(s, k, rc)]
    BY <2>0
  <2> DEFINE g == ReadOf(s, k, rc)
  <2>2. log' = log /\ commit_idx' = commit_idx
    BY <1>3 DEF Get, raftVars
  <2>3. ASSUME s \notin Faulty PROVE Committed(log, commit_idx, g)
    <3>1. /\ last_committed_idx[s] <= commit_idx
          /\ HoldsAfter(log, k, spl[s][k], last_committed_idx[s])
      BY <2>3 DEF ReplicaIsReplay
    <3>2. /\ read(s, k, rc)[1] = spl[s][k]
          /\ (read(s, k, rc)[2] = SPL_OK) <=> (spl[s][k] # NotFound)
      BY <2>3, ReadValue
    <3> QED BY <3>1, <3>2 DEF Committed, ReadOf
  <2>4. g.srv = s /\ g \in Read
    BY ReadValue DEF ReadOf
  <2> HIDE DEF g
  <2> QED BY <2>1, <2>2, <2>3, <2>4 DEF g
<1>4. ASSUME NEW c \in Client, NEW g \in Read, got' = [got EXCEPT ![c] = g], Good(g)
      PROVE  GotTypeOK' /\ \A d \in Client : Good(got'[d])
  <2>1. \A d \in Client : got'[d] = IF d = c THEN g ELSE got[d]
    BY <1>4 DEF GotTypeOK
  <2>2. GotTypeOK'
    BY <1>4 DEF GotTypeOK
  <2> HIDE DEF Good
  <2> QED BY <1>2, <1>4, <2>1, <2>2
<1>5. ASSUME got' = got
      PROVE  GotTypeOK' /\ \A d \in Client : Good(got'[d])
  BY <1>2, <1>5 DEF GotTypeOK
<1>6. GotTypeOK' /\ \A d \in Client : Good(got'[d])
  BY <1>3, <1>4, <1>5, GotStep
<1> QED BY <1>6 DEF ReadIsCommitted, Committed

(* A get on a replica that does not fail returns what the log had          *)
(* committed under the key up to the replica's index, and the return code  *)
(* says whether there was a value.                                         *)
THEOREM ReadCorrect == Spec => []ReadIsCommitted
<1>1. Init => GotTypeOK /\ ReadIsCommitted
  BY DEF Init, GotTypeOK, ReadIsCommitted
<1>2. (TypeOK /\ IndexInv) /\ ReplicaIsReplay /\ (GotTypeOK /\ ReadIsCommitted) /\ [Next]_vars
        => (GotTypeOK /\ ReadIsCommitted)'
  BY ReadStep
<1> QED BY <1>1, <1>2, IndexCorrect, ReplayCorrect, PTL DEF Spec
-----------------------------------------------------------------------------
(* The refinement of ReplicatedHistory *)

(* The committed prefix of a log. *)
LEMMA Prefix ==
  ASSUME NEW lg \in Seq(Entry), NEW m \in Nat, m <= Len(lg)
  PROVE  /\ SubSeq(lg, 1, m) \in Seq(Entry) /\ Len(SubSeq(lg, 1, m)) = m
         /\ \A p \in 1..m : SubSeq(lg, 1, m)[p] = lg[p]
OBVIOUS

LEMMA HistoryGrows ==
  ASSUME TypeOK, IndexInv, [Next]_vars
  PROVE  /\ Len(SubSeq(log, 1, commit_idx)) = commit_idx
         /\ History!IsPrefix(SubSeq(log, 1, commit_idx), SubSeq(log', 1, commit_idx'))
<1>1. /\ log \in Seq(Entry) /\ commit_idx \in Nat /\ commit_idx <= Len(log)
      /\ log' \in Seq(Entry) /\ commit_idx' \in Nat /\ commit_idx' <= Len(log')
      /\ PrefixKept
  BY TypeStep, IndexStep DEF TypeOK, RaftTypeOK, IndexInv
<1> DEFINE h == SubSeq(log, 1, commit_idx)
           g == SubSeq(log', 1, commit_idx')
<1>2. h \in Seq(Entry) /\ Len(h) = commit_idx /\ \A p \in 1..commit_idx : h[p] = log[p]
  BY <1>1, Prefix
<1>3. g \in Seq(Entry) /\ Len(g) = commit_idx' /\ \A p \in 1..commit_idx' : g[p] = log'[p]
  BY <1>1, Prefix
<1> HIDE DEF h, g
<1>4. commit_idx <= commit_idx' /\ \A p \in 1..commit_idx : g[p] = h[p]
  BY <1>1, <1>2, <1>3 DEF PrefixKept
<1>5. SubSeq(h, 1, Len(h)) = SubSeq(g, 1, Len(h))
  BY <1>1, <1>2, <1>3, <1>4
<1> QED BY <1>2, <1>3, <1>4, <1>5 DEF History!IsPrefix, h, g

(* The store implements its abstract specification: with SplinterDB calls  *)
(* that do not fail, every step of clients, handlers, elections and commit *)
(* threads extends the history, applies one entry of it, or changes        *)
(* nothing of it.                                                          *)
THEOREM HistoryCorrect ==
  ASSUME Faulty = {}
  PROVE  Spec => ImplementsHistory
<1>1. Init => History!HistInit
  <2> SUFFICES ASSUME Init PROVE History!HistInit
    OBVIOUS
  <2>1. SubSeq(log, 1, commit_idx) = <<>>
    BY DEF Init, RaftInit
  <2> QED BY <2>1 DEF Init, SmInit, History!HistInit
<1>2. ASSUME TypeOK, IndexInv, [Next]_vars
      PROVE  [History!HistNext]_(History!histVars)
  <2> DEFINE h == SubSeq(log, 1, commit_idx)
             g == SubSeq(log', 1, commit_idx')
  <2>0. Len(h) = commit_idx /\ History!IsPrefix(h, g)
    BY <1>2, HistoryGrows
  <2>1. CASE UNCHANGED smVars
    BY <2>0, <2>1 DEF smVars, History!HistNext, History!Agree, History!histVars
  <2>2. ASSUME NEW s \in Server, Commit(s)
        PROVE  History!Apply(s)
    <3> DEFINE m == last_committed_idx[s]
    <3>1. log \in Seq(Entry) /\ commit_idx \in Nat /\ commit_idx <= Len(log) /\ m \in Nat
          /\ last_committed_idx \in [Server -> Nat] /\ m < commit_idx /\ UNCHANGED raftVars
          /\ spl \in [Server -> [Key -> Value \cup {NotFound}]]
      BY <1>2, <2>2 DEF TypeOK, RaftTypeOK, SmTypeOK, IndexInv, Commit
    <3>2. h[m + 1] = log[m + 1] /\ h = g
      BY <3>1, Prefix DEF raftVars
    <3>3. last_committed_idx' = [last_committed_idx EXCEPT ![s] = @ + 1]
      BY <2>2 DEF Commit, commit, commit_config
    <3> DEFINE e == log[m + 1]
    <3>4. CASE IsApp(e)
      <4>1. commit(s, m + 1, e.op, SPL_OK)
        BY <2>2, <3>4 DEF Commit, SplReturnCodes
      <4>2. spl' = [spl EXCEPT ![s] = [spl[s] EXCEPT ![e.op.key] = e.op.value]]
        BY <4>1 DEF commit, SplApply
      <4> QED BY <2>0, <3>1, <3>2, <3>3, <3>4, <4>2 DEF History!Apply, IsApp
    <3>5. CASE ~IsApp(e)
      <4>1. spl' = spl
        BY <2>2, <3>5 DEF Commit, commit_config
      <4> QED BY <2>0, <3>1, <3>2, <3>3, <3>5, <4>1 DEF History!Apply, IsApp
    <3> QED BY <3>4, <3>5
  <2> QED BY <1>2, <2>1, <2>2, StepKinds DEF vars, History!HistNext
<1> QED BY <1>1, <1>2, IndexCorrect, PTL DEF Spec, ImplementsHistory, History!HistSpec
=============================================================================
