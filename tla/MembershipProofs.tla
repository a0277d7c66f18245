-------------------------- MODULE MembershipProofs --------------------------
(***************************************************************************)
(* Proofs about how servers come to form one cluster, for any number of    *)
(* servers, restarts, crashes, elections and writes; only the last theorem *)
(* is about a bounded number of servers, because it fails with five.       *)
(***************************************************************************)
EXTENDS Membership, FiniteSetTheorems, SequenceTheorems, TLAPS

Entry == [kind : {"conf", "app"}, servers : SUBSET Server, id : Nat]
Code == {"none", "NOT_LEADER", "SERVER_ALREADY_EXISTS", "CONFIG_CHANGING", "SERVER_IS_JOINING",
         "RESULT_NOT_EXIST_YET", "OK"}
AckRecord == [id : Nat, srv : Server, own : BOOLEAN, seeded : BOOLEAN, start : Nat]

(* The processes: First is started once and never asks a seed. *)
ProcInv ==
  /\ stage \in [Server -> {"off", "init", "join", "run"}]
  /\ seeded \in [Server -> BOOLEAN] /\ ready \in [Server -> BOOLEAN]
  /\ starts \in [Server -> Nat] /\ restarts \in Nat /\ restarts <= MaxRestarts
  /\ tries \in [Server -> 0 .. Retries] /\ elections \in Nat
  /\ reply \in [Server -> [code : Code, term : Nat]] /\ joined \in [Server -> BOOLEAN]
  /\ \A s \in Server : starts[s] <= restarts + 1 /\ (Up(s) => starts[s] > 0)
  /\ starts[First] <= 1 /\ ~seeded[First] /\ stage[First] # "join"
  /\ \A s \in Server : stage[s] \in {"off", "init"} => reply[s] = NoReply
  /\ \A s \in Server : joined[s] => Up(s) /\ ready[s]
  /\ \A s \in Server : stage[s] \in {"join", "run"} => ready[s]
  /\ forwarded \subseteq (Server \ {First}) \X Server

EntryInv ==
  log \in Seq(Entry) /\ saved_config \in [Server -> SUBSET Server] /\ writes \in Nat

(* The log, and how much of it the servers have. *)
LogInv ==
  /\ commit \in Nat /\ commit <= Len(log)
  /\ have \in [Server -> Nat] /\ applied \in [Server -> Nat]
  /\ leader \in Server \cup {None} /\ srv_to_join \in Server \cup {None}
  /\ \A s \in Server : /\ applied[s] <= have[s] /\ have[s] <= Len(log) /\ applied[s] <= commit
                       /\ ~joined[s] => have[s] = 0
  /\ leader # None => joined[leader] /\ have[leader] = Len(log)
  /\ srv_to_join # None => leader # None

(* The cluster begins with the configuration of First alone, and First is  *)
(* in it until it ends.                                                    *)
FirstInv ==
  /\ Len(log) > 0 => /\ commit > 0 /\ log[1] = Conf({First}) /\ starts[First] > 0
                     /\ Up(First) => joined[First]
  /\ Len(log) = 0 => \A s \in Server : ~joined[s]

(* Configurations in the log only grow, a server knows the last one it has *)
(* applied, and the leader has applied all before it adds a server.        *)
ConfInv ==
  /\ \A s \in Server : Up(s) => saved_config[s] # {}
  /\ \A s \in Server : Up(s) /\ ~joined[s] => saved_config[s] = {s}
  /\ \A s \in Server : joined[s] /\ s \in saved_config[s] /\ (saved_config[s] # {s} \/ s = First)
                         => applied[s] > 0
  /\ \A p \in 1..Len(log) : /\ log[p].kind = "app" => log[p].servers = {}
                            /\ log[p].kind = "conf" => log[p].servers # {}
  /\ \A p, q \in 1..Len(log) : p <= q /\ log[q].kind = "conf" => log[p].servers \subseteq log[q].servers
  /\ \A s \in Server : \A p \in 1..applied[s] : log[p].servers \subseteq saved_config[s]
  /\ srv_to_join # None => /\ srv_to_join \notin saved_config[leader] /\ srv_to_join # First
                           /\ \A p \in applied[leader] + 1 .. Len(log) : log[p].kind # "conf"

(* The servers that committed configurations name. *)
CommittedNamed == UNION {log[p].servers : p \in 1..commit}

NamedInv ==
  ~cut => /\ leader # None => saved_config[leader] \subseteq CommittedNamed
          /\ \A s \in Server : joined[s] /\ saved_config[s] # {s} =>
                                 saved_config[s] \subseteq CommittedNamed

(* A server whose JOIN was accepted is in no configuration before it was   *)
(* added.                                                                  *)
SeedInv ==
  ~cut => \A s \in Server :
    /\ seeded[s] /\ s \in Named
    /\ stage[s] = "run" \/ (stage[s] = "join" /\ reply[s].code = "OK")
    => <<s, starts[s]>> \in added

ClientInv ==
  /\ acked \subseteq AckRecord /\ waiting \subseteq AckRecord
  /\ spl \in [Server -> SUBSET Nat]
  /\ \A a \in waiting : ~a.own
  /\ \A a \in acked \cup waiting : a.start <= starts[a.srv]

(* What a client was told is kept, unless an election cuts committed       *)
(* entries off.                                                            *)
KeptUnlessCut == ~cut => \A a \in acked : ~a.own => a.id \in LogWrites(commit)
-----------------------------------------------------------------------------
(* The end of a process, by whichever action; s is off afterwards. *)
Ends(s) ==
  /\ exit(s) /\ reply'[s] = NoReply
  /\ reply' \in [Server -> [code : Code, term : Nat]]
  /\ \A t \in Server : reply'[t] = reply[t] \/ reply'[t] = NoReply
  /\ UNCHANGED <<elections, added, forgot, cut>>

(* main goes on without changing anything but its own state. *)
Proceeds(s) ==
  /\ \/ stage[s] = "init" /\ ready[s]
        /\ stage' = [stage EXCEPT ![s] = IF seeded[s] THEN "join" ELSE "run"] /\ UNCHANGED tries
     \/ stage[s] = "init" /\ ~ready[s] /\ tries[s] < Retries
        /\ tries' = [tries EXCEPT ![s] = @ + 1] /\ UNCHANGED stage
     \/ stage[s] = "join" /\ reply[s].code = "OK"
        /\ stage' = [stage EXCEPT ![s] = "run"] /\ UNCHANGED tries
  /\ UNCHANGED <<seeded, starts, restarts, ready, reply, replicaVars, clusterVars, clientVars, boundVars>>

(* A JOIN is answered, or one that was passed on arrives; either may begin *)
(* the addition of s.                                                      *)
Asks(s) ==
  /\ \/ UNCHANGED reply
     \/ /\ stage[s] = "join"
        /\ \E c \in Code : /\ c = "OK" => add_srv_code(s) = "OK"
                           /\ reply' = [reply EXCEPT ![s] = [code |-> c, term |-> elections]]
  /\ \/ srv_to_join' = srv_to_join
     \/ add_srv_code(s) = "OK" /\ s # First /\ srv_to_join' = s
  /\ forwarded' \subseteq (Server \ {First}) \X Server
  /\ UNCHANGED <<stage, seeded, starts, restarts, tries, ready, replicaVars, log, commit, leader,
                 waiting, acked, writes, boundVars>>

LEMMA NoReplyType == NoReply \in [code : Code, term : Nat] /\ NoReply.code = "none"
BY DEF NoReply, Code

LEMMA ProcessKinds ==
  ASSUME ProcInv, NEW s \in Server, Process(s) \/ crash(s)
  PROVE  Proceeds(s) \/ Ends(s)
<1>1. reply \in [Server -> [code : Code, term : Nat]]
  BY DEF ProcInv
<1>2. CASE initialize(s)
  <2>1. CASE tries[s] = Retries /\ exit(s) /\ UNCHANGED reply
    <3>1. reply[s] = NoReply
      BY <1>2 DEF initialize, ProcInv
    <3>2. UNCHANGED <<elections, added, forgot, cut>>
      BY <1>2 DEF initialize, boundVars
    <3> QED BY <1>1, <2>1, <3>1, <3>2 DEF Ends
  <2>2. CASE ~(tries[s] = Retries /\ exit(s) /\ UNCHANGED reply)
    BY <1>2, <2>2 DEF initialize, Proceeds
  <2> QED BY <2>1, <2>2
<1>3. CASE try_join_cluster(s)
  <2>1. CASE reply[s].code = "OK"
    BY <1>3, <2>1 DEF try_join_cluster, Proceeds
  <2>2. CASE reply[s].code # "OK"
    <3>1. exit(s) /\ reply' = [reply EXCEPT ![s] = NoReply] /\ UNCHANGED <<elections, added, forgot, cut>>
      BY <1>3, <2>2 DEF try_join_cluster, boundVars
    <3> QED BY <1>1, <3>1, NoReplyType DEF Ends
  <2> QED BY <2>1, <2>2
<1>4. CASE crash(s)
  <2>1. /\ exit(s) /\ UNCHANGED <<elections, added, forgot, cut>>
        /\ reply' = [t \in Server |-> IF t = s \/ (s = First /\ stage[t] = "join")
                                      THEN NoReply ELSE reply[t]]
    BY <1>4 DEF crash
  <2> QED BY <1>1, <2>1, NoReplyType DEF Ends
<1> QED BY <1>2, <1>3, <1>4 DEF Process

LEMMA AskKinds ==
  ASSUME ProcInv, NEW s \in Server, add_server(s) \/ forward_arrives(s)
  PROVE  Asks(s)
<1> USE MembershipAssumption
<1>1. CASE add_server(s)
  <2>1. stage[s] = "join" /\ s # First
    BY <1>1 DEF add_server, ProcInv
  <2>2. \E c \in Code : /\ c = "OK" => add_srv_code(s) = "OK"
                        /\ reply' = [reply EXCEPT ![s] = [code |-> c, term |-> elections]]
    BY <1>1 DEF add_server, add_srv_code, Code
  <2>3. \/ srv_to_join' = srv_to_join
        \/ add_srv_code(s) = "OK" /\ srv_to_join' = s
    BY <1>1 DEF add_server
  <2>4. forwarded' \subseteq (Server \ {First}) \X Server
    <3>1. forwarded' = forwarded \/ (leader \in Server /\ forwarded' = forwarded \cup {<<s, leader>>})
      BY <1>1 DEF add_server
    <3> QED BY <2>1, <3>1 DEF ProcInv
  <2> QED BY <1>1, <2>1, <2>2, <2>3, <2>4 DEF add_server, Asks
<1>2. CASE forward_arrives(s)
  <2>1. PICK l \in Server : /\ <<s, l>> \in forwarded /\ forwarded' = forwarded \ {<<s, l>>}
                            /\ \/ srv_to_join' = srv_to_join
                               \/ add_srv_code(s) = "OK" /\ srv_to_join' = s
    BY <1>2 DEF forward_arrives
  <2>2. s # First /\ forwarded' \subseteq (Server \ {First}) \X Server
    BY <2>1 DEF ProcInv
  <2>3. UNCHANGED <<procVars, replicaVars, log, commit, leader, waiting, acked, writes, boundVars>>
    BY <1>2 DEF forward_arrives
  <2> QED BY <2>1, <2>2, <2>3 DEF Asks, procVars
<1> QED BY <1>1, <1>2

LEMMA ProcStep ==
  ASSUME ProcInv, [Next]_vars
  PROVE  ProcInv'
<1> USE MembershipAssumption
<1>1. ASSUME NEW s \in Server, start(s) PROVE ProcInv'
  <2>1. PICK b \in BOOLEAN : seeded' = [seeded EXCEPT ![s] = b] /\ (s = First => b = FALSE)
    BY <1>1 DEF start
  <2>2. /\ stage[s] = "off" /\ stage' = [stage EXCEPT ![s] = "init"]
        /\ starts' = [starts EXCEPT ![s] = @ + 1]
        /\ UNCHANGED <<tries, ready, reply, joined, elections, forwarded>>
    BY <1>1 DEF start, clusterVars, clientVars
  <2>3. \/ starts[s] = 0 /\ UNCHANGED restarts
        \/ s # First /\ starts[s] > 0 /\ restarts < MaxRestarts /\ restarts' = restarts + 1
    BY <1>1 DEF start, MayStart
  <2>4. /\ starts' \in [Server -> Nat] /\ restarts' \in Nat /\ restarts' <= MaxRestarts
        /\ \A t \in Server : starts'[t] <= restarts' + 1
        /\ starts'[First] <= 1
    BY <2>2, <2>3 DEF ProcInv
  <2>5. /\ \A t \in Server : t # s => stage'[t] = stage[t] /\ starts'[t] = starts[t] /\ seeded'[t] = seeded[t]
        /\ stage'[s] = "init" /\ starts'[s] > 0 /\ seeded'[s] = b
    BY <2>1, <2>2 DEF ProcInv
  <2>6. ~seeded'[First] /\ seeded' \in [Server -> BOOLEAN]
    BY <2>1, <2>5 DEF ProcInv
  <2> QED BY <2>2, <2>4, <2>5, <2>6 DEF ProcInv, Up
<1>2. ASSUME NEW s \in Server, become_ready(s) PROVE ProcInv'
  <2>1. /\ stage[s] = "init" /\ ready' = [ready EXCEPT ![s] = TRUE]
        /\ joined' = joined \/ joined' = [joined EXCEPT ![s] = TRUE]
        /\ UNCHANGED <<stage, seeded, starts, restarts, tries, reply, elections, forwarded>>
    BY <1>2 DEF become_ready, boundVars, clientVars
  <2> QED BY <2>1 DEF ProcInv, Up
<1>3. ASSUME NEW s \in Server, Process(s) \/ crash(s) PROVE ProcInv'
  <2>1. CASE Proceeds(s)
    BY <2>1 DEF Proceeds, ProcInv, Up, replicaVars, clientVars, boundVars
  <2>2. CASE Ends(s)
    <3>1. /\ stage' = [stage EXCEPT ![s] = "off"] /\ seeded' = [seeded EXCEPT ![s] = FALSE]
          /\ tries' = [tries EXCEPT ![s] = 0] /\ ready' = [ready EXCEPT ![s] = FALSE]
          /\ joined' = [joined EXCEPT ![s] = FALSE] /\ UNCHANGED <<starts, restarts, elections>>
          /\ reply'[s] = NoReply /\ reply' \in [Server -> [code : Code, term : Nat]]
          /\ \A t \in Server : reply'[t] = reply[t] \/ reply'[t] = NoReply
          /\ forwarded' \subseteq forwarded
      BY <2>2 DEF Ends, exit
    <3>2. /\ stage' \in [Server -> {"off", "init", "join", "run"}]
          /\ seeded' \in [Server -> BOOLEAN] /\ ready' \in [Server -> BOOLEAN]
          /\ tries' \in [Server -> 0 .. Retries] /\ joined' \in [Server -> BOOLEAN]
      BY <3>1 DEF ProcInv
    <3>3. /\ stage'[s] = "off" /\ ~joined'[s] /\ ~seeded'[s]
          /\ \A t \in Server : t # s => /\ stage'[t] = stage[t] /\ joined'[t] = joined[t]
                                        /\ ready'[t] = ready[t] /\ seeded'[t] = seeded[t]
      BY <3>1 DEF ProcInv
    <3> QED BY <3>1, <3>2, <3>3 DEF ProcInv, Up
  <2> QED BY <1>3, <2>1, <2>2, ProcessKinds, AskKinds
<1>4. ASSUME NEW s \in Server, Asks(s) PROVE ProcInv'
  <2>1. /\ UNCHANGED <<stage, seeded, starts, restarts, tries, ready, joined, elections>>
        /\ forwarded' \subseteq (Server \ {First}) \X Server
    BY <1>4 DEF Asks, replicaVars, boundVars
  <2>2. CASE UNCHANGED reply
    BY <2>1, <2>2 DEF ProcInv, Up
  <2>3. CASE ~UNCHANGED reply
    <3>1. PICK c \in Code : reply' = [reply EXCEPT ![s] = [code |-> c, term |-> elections]]
      BY <1>4, <2>3 DEF Asks
    <3>2. stage[s] = "join"
      BY <1>4, <2>3 DEF Asks
    <3>3. reply' \in [Server -> [code : Code, term : Nat]] /\ \A t \in Server : t # s => reply'[t] = reply[t]
      BY <3>1 DEF ProcInv
    <3> QED BY <2>1, <3>2, <3>3 DEF ProcInv, Up
  <2> QED BY <2>2, <2>3
<1>5. ASSUME NEW s \in Server, join_cluster_req(s) \/ append_entries_req(s) PROVE ProcInv'
  <2>1. /\ Up(s) /\ ready' = [ready EXCEPT ![s] = TRUE] /\ joined' = [joined EXCEPT ![s] = TRUE]
        /\ UNCHANGED <<stage, seeded, starts, restarts, tries, reply, elections, forwarded>>
    BY <1>5 DEF join_cluster_req, append_entries_req, follow, boundVars, clientVars
  <2> QED BY <2>1 DEF ProcInv, Up
<1>6. ASSUME NEW s \in Server, elect(s) PROVE ProcInv'
  <2>1. UNCHANGED <<procVars, joined, forwarded>> /\ elections' = elections + 1
    BY <1>6 DEF elect, clientVars
  <2> QED BY <2>1 DEF procVars, ProcInv, Up
<1>7. CASE UNCHANGED <<procVars, joined, elections, forwarded>>
  BY <1>7 DEF procVars, ProcInv, Up
<1>8. ASSUME NEW s \in Server, replicate(s) \/ apply(s) \/ write_alone(s) \/ write(s)
      PROVE  UNCHANGED <<procVars, joined, elections, forwarded>>
  BY <1>8 DEF replicate, apply, write_alone, write, boundVars, clientVars
<1>9. CASE sync_done \/ reset_srv_to_join \/ advance_commit \/ UNCHANGED vars
  <2>1. UNCHANGED <<procVars, joined, elections, forwarded>>
    BY <1>9 DEF sync_done, reset_srv_to_join, advance_commit, vars, replicaVars, clientVars, boundVars
  <2> QED BY <1>7, <2>1
<1> QED BY <1>1, <1>2, <1>3, <1>4, <1>5, <1>6, <1>7, <1>8, <1>9, AskKinds DEF Next, Raft
-----------------------------------------------------------------------------
(* The log *)

LEMMA MinPair ==
  ASSUME NEW a \in Int, NEW b \in Int
  PROVE  Min({a, b}) = IF a <= b THEN a ELSE b
<1>1. PICK m : m = IF a <= b THEN a ELSE b
  OBVIOUS
<1>2. m \in {a, b} /\ \A y \in {a, b} : m <= y
  BY <1>1
<1>3. \A x \in {a, b} : (\A y \in {a, b} : x <= y) => x = m
  BY <1>1
<1>4. Min({a, b}) = m
  BY <1>2, <1>3 DEF Min
<1> QED BY <1>1, <1>4

(* An entry is put behind the others. *)
LEMMA Appends ==
  ASSUME NEW l, l = log, log \in Seq(Entry), NEW e \in Entry, log' = Append(log, e)
  PROVE  /\ log' \in Seq(Entry) /\ Len(l) \in Nat /\ Len(log') = Len(l) + 1
         /\ log'[Len(l) + 1] = e /\ \A p \in 1..Len(l) : log'[p] = l[p]
BY AppendProperties

(* An election keeps a prefix of the log and of what everybody has of it. *)
LEMMA Elected ==
  ASSUME EntryInv, LogInv, NEW s \in Server, elect(s), NEW n, n = have[s]
  PROVE  /\ n \in Nat /\ n <= Len(log)
         /\ log' \in Seq(Entry) /\ Len(log') = n /\ \A p \in 1..n : log'[p] = log[p]
         /\ commit' = IF commit <= n THEN commit ELSE n
         /\ have' \in [Server -> Nat] /\ applied' \in [Server -> Nat]
         /\ \A t \in Server : /\ have'[t] = IF have[t] <= n THEN have[t] ELSE n
                              /\ applied'[t] = IF applied[t] <= n THEN applied[t] ELSE n
         /\ leader' = s /\ srv_to_join' = None /\ joined[s]
         /\ s \in saved_config[s] /\ (saved_config[s] # {s} \/ s = First)
         /\ cut' = (cut \/ n < commit)
         /\ UNCHANGED <<procVars, joined, saved_config, spl, clientVars, crashes, added, forgot>>
<1>1. /\ have \in [Server -> Nat] /\ applied \in [Server -> Nat] /\ log \in Seq(Entry) /\ commit \in Nat
      /\ have[s] <= Len(log)
  BY DEF LogInv, EntryInv
<1>2. n \in Nat /\ n <= Len(log) /\ log' = SubSeq(log, 1, n) /\ Len(log) \in Nat
  BY <1>1 DEF elect
<1>3. log' \in Seq(Entry) /\ Len(log') = n /\ \A p \in 1..n : log'[p] = log[p]
  BY <1>1, <1>2
<1>4. commit' = IF commit <= n THEN commit ELSE n
  BY <1>1, <1>2, MinPair DEF elect
<1>5. /\ have' = [t \in Server |-> Min({have[t], n})]
      /\ applied' = [t \in Server |-> Min({applied[t], n})]
  BY DEF elect
<1>6. \A t \in Server : /\ Min({have[t], n}) = IF have[t] <= n THEN have[t] ELSE n
                        /\ Min({applied[t], n}) = IF applied[t] <= n THEN applied[t] ELSE n
  <2> TAKE t \in Server
  <2>1. have[t] \in Int /\ applied[t] \in Int /\ n \in Int
    BY <1>1, <1>2
  <2> QED BY <2>1, MinPair
<1>7. \A t \in Server : /\ have'[t] = IF have[t] <= n THEN have[t] ELSE n
                        /\ applied'[t] = IF applied[t] <= n THEN applied[t] ELSE n
  BY <1>5, <1>6
<1>8. have' \in [Server -> Nat] /\ applied' \in [Server -> Nat]
  BY <1>1, <1>2, <1>5, <1>7
<1> QED BY <1>2, <1>3, <1>4, <1>7, <1>8 DEF elect

(* The end of a process takes its part of the log with it. *)
LEMMA EndsLog ==
  ASSUME LogInv, ProcInv, NEW s \in Server, Ends(s)
  PROVE  /\ have' = [have EXCEPT ![s] = 0] /\ applied' = [applied EXCEPT ![s] = 0]
         /\ joined' = [joined EXCEPT ![s] = FALSE]
         /\ leader' = (IF leader = s THEN None ELSE leader)
         /\ srv_to_join' = (IF leader = s THEN None ELSE srv_to_join)
         /\ UNCHANGED <<log, commit, starts>>
BY DEF Ends, exit

LEMMA ConfEntry ==
  ASSUME EntryInv, LogInv, sync_done
  PROVE  Conf(saved_config[leader] \cup {srv_to_join}) \in Entry
<1>1. srv_to_join \in Server /\ leader \in Server
  BY DEF sync_done, LogInv
<1> QED BY <1>1 DEF EntryInv, Conf, Entry

LEMMA EntryStep ==
  ASSUME EntryInv, LogInv, ProcInv, [Next]_vars
  PROVE  EntryInv'
<1> USE MembershipAssumption
<1>1. log \in Seq(Entry) /\ saved_config \in [Server -> SUBSET Server] /\ writes \in Nat
  BY DEF EntryInv
<1>2. ASSUME NEW s \in Server, start(s) \/ Ends(s) PROVE EntryInv'
  <2>1. /\ saved_config' = [saved_config EXCEPT ![s] = {s}] \/ saved_config' = [saved_config EXCEPT ![s] = {}]
        /\ UNCHANGED <<log, writes>>
    BY <1>2 DEF start, Ends, exit, clusterVars, clientVars
  <2> QED BY <1>1, <2>1 DEF EntryInv
<1>3. ASSUME NEW s \in Server, become_ready(s) PROVE EntryInv'
  <2>1. UNCHANGED <<saved_config, writes>> /\ (log' = log \/ log' = <<Conf({First})>>)
    BY <1>3 DEF become_ready, clientVars
  <2>2. Conf({First}) \in Entry
    BY DEF Conf, Entry
  <2>3. <<Conf({First})>> \in Seq(Entry)
    BY <2>2
  <2>4. log' \in Seq(Entry)
    BY <1>1, <2>1, <2>3
  <2> QED BY <1>1, <2>1, <2>4 DEF EntryInv
<1>4. ASSUME NEW s \in Server, join_cluster_req(s) PROVE EntryInv'
  <2>1. leader \in Server
    BY <1>4 DEF join_cluster_req, LogInv
  <2> QED BY <1>1, <1>4, <2>1 DEF join_cluster_req, clusterVars, clientVars, EntryInv
<1>5. CASE sync_done
  <2>1. PICK e \in Entry : log' = Append(log, e) /\ UNCHANGED <<saved_config, writes>>
    BY <1>5, ConfEntry DEF sync_done, append, clientVars
  <2> QED BY <1>1, <2>1 DEF EntryInv
<1>6. ASSUME NEW s \in Server, write(s) PROVE EntryInv'
  <2>1. writes' \in Nat /\ log' = Append(log, App(writes')) /\ UNCHANGED saved_config
    BY <1>1, <1>6 DEF write, new_write, append
  <2>2. App(writes') \in Entry
    BY <2>1 DEF App, Entry
  <2> QED BY <1>1, <2>1, <2>2 DEF EntryInv
<1>7. ASSUME NEW s \in Server, elect(s) PROVE EntryInv'
  <2>1. PICK n : n = have[s]
    OBVIOUS
  <2>2. log' \in Seq(Entry) /\ UNCHANGED <<saved_config, clientVars>>
    BY <1>7, <2>1, Elected
  <2> QED BY <1>1, <2>2 DEF EntryInv, clientVars
<1>8. ASSUME NEW s \in Server, apply(s) PROVE EntryInv'
  <2>1. PICK p : p = applied[s] + 1
    OBVIOUS
  <2>2. applied[s] \in Nat /\ applied[s] < commit /\ commit \in Nat /\ commit <= Len(log)
    BY <1>8 DEF apply, LogInv
  <2>3. p \in 1..Len(log)
    BY <1>1, <2>1, <2>2
  <2>4. log[p].servers \in SUBSET Server
    <3>1. log[p] \in Entry
      BY <1>1, <2>3
    <3> QED BY <3>1 DEF Entry
  <2>5. /\ UNCHANGED <<log, writes>>
        /\ saved_config' = saved_config \/ saved_config' = [saved_config EXCEPT ![s] = log[p].servers]
    BY <1>8, <2>1 DEF apply, clusterVars
  <2> QED BY <1>1, <2>4, <2>5 DEF EntryInv
<1>9. ASSUME NEW s \in Server, write_alone(s) PROVE EntryInv'
  BY <1>1, <1>9 DEF write_alone, new_write, clusterVars, EntryInv
<1>10. CASE UNCHANGED <<log, saved_config, writes>>
  BY <1>10 DEF EntryInv
<1>11. ASSUME NEW s \in Server, Proceeds(s) \/ Asks(s) \/ append_entries_req(s) \/ replicate(s)
       PROVE  UNCHANGED <<log, saved_config, writes>>
  BY <1>11 DEF Proceeds, Asks, append_entries_req, replicate, replicaVars, clusterVars, clientVars
<1>12. CASE reset_srv_to_join \/ advance_commit \/ UNCHANGED vars
  <2>1. UNCHANGED <<log, saved_config, writes>>
    BY <1>12 DEF reset_srv_to_join, advance_commit, vars, replicaVars, clusterVars, clientVars
  <2> QED BY <1>10, <2>1
<1> QED BY <1>2, <1>3, <1>4, <1>5, <1>6, <1>7, <1>8, <1>9, <1>10, <1>11, <1>12, ProcessKinds, AskKinds
        DEF Next, Raft

LEMMA LogStep ==
  ASSUME ProcInv, EntryInv, LogInv, FirstInv, [Next]_vars
  PROVE  LogInv'
<1> USE MembershipAssumption
<1>1. /\ log \in Seq(Entry) /\ Len(log) \in Nat /\ commit \in Nat /\ commit <= Len(log)
      /\ have \in [Server -> Nat] /\ applied \in [Server -> Nat]
      /\ leader \in Server \cup {None} /\ srv_to_join \in Server \cup {None}
      /\ joined \in [Server -> BOOLEAN]
  BY DEF LogInv, ProcInv, EntryInv
<1>2. ASSUME NEW s \in Server, start(s) \/ Proceeds(s) PROVE UNCHANGED <<log, commit, have, applied, leader, srv_to_join, joined>>
  BY <1>2 DEF start, Proceeds, clusterVars, replicaVars
<1>3. CASE become_ready(First)
  <2>1. stage[First] = "init" /\ ~ready[First]
    BY <1>3 DEF become_ready
  <2>2. Len(log) = 0
    BY <1>1, <2>1 DEF FirstInv, ProcInv, Up
  <2>3. /\ log' = <<Conf({First})>> /\ commit' = 1 /\ leader' = First
        /\ joined' = [joined EXCEPT ![First] = TRUE] /\ have' = [have EXCEPT ![First] = 1]
        /\ applied' = [applied EXCEPT ![First] = 1] /\ UNCHANGED srv_to_join
    BY <1>3 DEF become_ready
  <2>4. Conf({First}) \in Entry
    BY DEF Conf, Entry
  <2>5. log' \in Seq(Entry) /\ Len(log') = 1
    BY <2>3, <2>4
  <2>6. \A s \in Server : have[s] = 0 /\ applied[s] = 0
    BY <1>1, <2>2 DEF LogInv
  <2>7. /\ have' \in [Server -> Nat] /\ applied' \in [Server -> Nat]
        /\ \A s \in Server : /\ applied'[s] <= have'[s] /\ have'[s] <= 1 /\ applied'[s] <= 1
                             /\ ~joined'[s] => have'[s] = 0
    BY <1>1, <2>3, <2>6
  <2>8. joined'[First] /\ have'[First] = 1
    BY <1>1, <2>3
  <2> QED BY <1>1, <2>3, <2>5, <2>7, <2>8 DEF LogInv
<1>4. ASSUME NEW s \in Server, s # First, become_ready(s)
      PROVE  UNCHANGED <<log, commit, have, applied, leader, srv_to_join, joined>>
  BY <1>4 DEF become_ready
<1>5. ASSUME NEW s \in Server, Ends(s) PROVE LogInv'
  <2>1. /\ have' = [have EXCEPT ![s] = 0] /\ applied' = [applied EXCEPT ![s] = 0]
         /\ joined' = [joined EXCEPT ![s] = FALSE]
         /\ leader' = (IF leader = s THEN None ELSE leader)
         /\ srv_to_join' = (IF leader = s THEN None ELSE srv_to_join)
         /\ UNCHANGED <<log, commit>>
    BY <1>5, EndsLog
  <2> QED BY <1>1, <2>1 DEF LogInv
<1>6. ASSUME NEW s \in Server, Asks(s) PROVE LogInv'
  <2>1. /\ srv_to_join' = srv_to_join \/ (srv_to_join' = s /\ leader # None)
        /\ UNCHANGED <<log, commit, have, applied, leader, joined>>
    BY <1>6 DEF Asks, add_srv_code, replicaVars
  <2> QED BY <1>1, <2>1 DEF LogInv
<1>7. ASSUME NEW s \in Server, join_cluster_req(s) \/ append_entries_req(s) PROVE LogInv'
  <2>1. /\ ~joined[s] /\ joined' = [joined EXCEPT ![s] = TRUE] /\ have' = [have EXCEPT ![s] = 0]
        /\ applied' = [applied EXCEPT ![s] = 0]
        /\ UNCHANGED <<log, commit, leader, srv_to_join>>
    BY <1>7 DEF join_cluster_req, append_entries_req, follow, clusterVars
  <2>2. leader # None => leader # s
    BY <2>1 DEF LogInv
  <2> QED BY <1>1, <2>1, <2>2 DEF LogInv
<1>8. ASSUME NEW s \in Server, replicate(s) PROVE LogInv'
  <2>1. /\ joined[s] /\ have[s] < Len(log) /\ have' = [have EXCEPT ![s] = Len(log)]
        /\ UNCHANGED <<log, commit, applied, leader, srv_to_join, joined>>
    BY <1>8 DEF replicate, clusterVars
  <2> QED BY <1>1, <2>1 DEF LogInv
<1>9. ASSUME NEW e \in Entry, append(e), leader # None, srv_to_join' \in {srv_to_join, None},
             UNCHANGED <<commit, applied, leader, joined>>
      PROVE  LogInv'
  <2>1. log' = Append(log, e) /\ have' = [have EXCEPT ![leader] = Len(log) + 1]
    BY <1>9 DEF append
  <2>2. log' \in Seq(Entry) /\ Len(log') = Len(log) + 1
    BY <1>1, <1>9, <2>1, Appends
  <2>3. leader \in Server /\ joined[leader]
    BY <1>1, <1>9 DEF LogInv
  <2>4. \A t \in Server : have[t] <= have'[t] /\ have'[t] <= Len(log) + 1 /\ (~joined[t] => have'[t] = 0)
    BY <1>1, <2>1, <2>3 DEF LogInv
  <2>5. have' \in [Server -> Nat] /\ have'[leader] = Len(log) + 1
    BY <1>1, <2>1, <2>3
  <2> QED BY <1>1, <1>9, <2>2, <2>3, <2>4, <2>5 DEF LogInv
<1>10. CASE sync_done
  <2>1. PICK S : S = saved_config[leader] \cup {srv_to_join}
    OBVIOUS
  <2>2. leader # None /\ append(Conf(S)) /\ srv_to_join' = None /\ UNCHANGED <<commit, applied, leader, joined>>
    BY <1>10, <2>1 DEF sync_done, LogInv
  <2>3. Conf(S) \in Entry
    BY <1>10, <2>1, ConfEntry
  <2> QED BY <1>9, <2>2, <2>3
<1>11. ASSUME NEW s \in Server, write(s) PROVE LogInv'
  <2>1. PICK n : n = writes'
    OBVIOUS
  <2>2. App(n) \in Entry
    BY <1>11, <2>1 DEF write, new_write, EntryInv, App, Entry
  <2>3. /\ append(App(n)) /\ leader # None
        /\ UNCHANGED <<commit, applied, leader, srv_to_join, joined>>
    BY <1>11, <2>1 DEF write
  <2> QED BY <1>9, <2>2, <2>3
<1>12. CASE advance_commit
  <2>1. commit' \in commit + 1 .. Len(log) /\ UNCHANGED <<log, have, applied, leader, srv_to_join, joined>>
    BY <1>12 DEF advance_commit, replicaVars
  <2> QED BY <1>1, <2>1 DEF LogInv
<1>13. ASSUME NEW s \in Server, elect(s) PROVE LogInv'
  <2>1. PICK n : n = have[s]
    OBVIOUS
  <2>2. /\ n \in Nat /\ n <= Len(log) /\ Len(log') = n /\ leader' = s /\ srv_to_join' = None /\ joined[s]
        /\ commit' = IF commit <= n THEN commit ELSE n
        /\ have' \in [Server -> Nat] /\ applied' \in [Server -> Nat] /\ joined' = joined
        /\ \A t \in Server : /\ have'[t] = IF have[t] <= n THEN have[t] ELSE n
                             /\ applied'[t] = IF applied[t] <= n THEN applied[t] ELSE n
    BY <1>13, <2>1, Elected
  <2> QED BY <1>1, <1>13, <2>1, <2>2 DEF LogInv
<1>14. ASSUME NEW s \in Server, apply(s) PROVE LogInv'
  <2>1. /\ applied[s] < have[s] /\ applied[s] < commit /\ applied' = [applied EXCEPT ![s] = @ + 1]
        /\ UNCHANGED <<log, commit, have, leader, srv_to_join, joined>>
    BY <1>14 DEF apply, clusterVars
  <2> QED BY <1>1, <2>1 DEF LogInv
<1>15. CASE reset_srv_to_join
  BY <1>15 DEF reset_srv_to_join, replicaVars, LogInv
<1>16. ASSUME NEW s \in Server, write_alone(s)
       PROVE  UNCHANGED <<log, commit, have, applied, leader, srv_to_join, joined>>
  BY <1>16 DEF write_alone, clusterVars
<1>17. CASE UNCHANGED <<log, commit, have, applied, leader, srv_to_join, joined>>
  BY <1>17 DEF LogInv
<1>18. CASE UNCHANGED vars
  BY <1>17, <1>18 DEF vars, clusterVars, replicaVars
<1> QED BY <1>2, <1>3, <1>4, <1>5, <1>6, <1>7, <1>8, <1>10, <1>11, <1>12, <1>13, <1>14, <1>15,
           <1>16, <1>17, <1>18, ProcessKinds, AskKinds DEF Next, Raft

LEMMA FirstStep ==
  ASSUME ProcInv, EntryInv, LogInv, FirstInv, ConfInv, [Next]_vars
  PROVE  FirstInv'
<1> USE MembershipAssumption
<1>1. /\ log \in Seq(Entry) /\ Len(log) \in Nat /\ commit \in Nat /\ joined \in [Server -> BOOLEAN]
      /\ stage \in [Server -> {"off", "init", "join", "run"}] /\ starts \in [Server -> Nat]
  BY DEF LogInv, ProcInv, EntryInv
<1>2. ASSUME NEW s \in Server, start(s) PROVE FirstInv'
  <2>1. /\ stage' = [stage EXCEPT ![s] = "init"] /\ starts' = [starts EXCEPT ![s] = @ + 1]
        /\ UNCHANGED <<log, commit, joined>>
    BY <1>2 DEF start, clusterVars
  <2>2. s = First => starts[First] = 0
    BY <1>2 DEF start, MayStart
  <2>3. Len(log) > 0 => s # First
    BY <2>2 DEF FirstInv
  <2> QED BY <1>1, <2>1, <2>3 DEF FirstInv, Up
<1>3. ASSUME NEW s \in Server, become_ready(s) PROVE FirstInv'
  <2>1. CASE s = First
    <3>1. /\ log' = <<Conf({First})>> /\ commit' = 1 /\ joined' = [joined EXCEPT ![First] = TRUE]
          /\ UNCHANGED <<stage, starts>> /\ stage[First] = "init"
      BY <1>3, <2>1 DEF become_ready
    <3>2. Len(log') = 1 /\ log'[1] = Conf({First}) /\ joined'[First]
      BY <1>1, <3>1
    <3>3. starts[First] > 0
      BY <3>1 DEF ProcInv, Up
    <3> QED BY <3>1, <3>2, <3>3 DEF FirstInv
  <2>2. CASE s # First
    BY <1>3, <2>2 DEF become_ready, FirstInv, Up
  <2> QED BY <2>1, <2>2
<1>4. ASSUME NEW s \in Server, Proceeds(s) PROVE FirstInv'
  <2>1. UNCHANGED <<log, commit, starts, joined>> /\ (Up(First)' => Up(First))
    BY <1>1, <1>4 DEF Proceeds, clusterVars, replicaVars, Up
  <2> QED BY <2>1 DEF FirstInv
<1>5. ASSUME NEW s \in Server, Ends(s) PROVE FirstInv'
  <2>1. /\ joined' = [joined EXCEPT ![s] = FALSE] /\ stage' = [stage EXCEPT ![s] = "off"]
        /\ UNCHANGED <<log, commit, starts>>
    BY <1>5 DEF Ends, exit
  <2> QED BY <1>1, <2>1 DEF FirstInv, Up
<1>6. ASSUME NEW s \in Server, join_cluster_req(s) \/ append_entries_req(s) PROVE FirstInv'
  <2>1. joined' = [joined EXCEPT ![s] = TRUE] /\ UNCHANGED <<log, commit, starts, stage>>
    BY <1>6 DEF join_cluster_req, append_entries_req, follow, clusterVars
  <2>2. leader \in Server /\ joined[leader]
    BY <1>6 DEF join_cluster_req, append_entries_req, LogInv
  <2>3. Len(log) # 0
    BY <2>2 DEF FirstInv
  <2> QED BY <1>1, <2>1, <2>3 DEF FirstInv, Up
<1>7. ASSUME NEW e \in Entry, append(e), leader # None, UNCHANGED <<commit, procVars, joined>>
      PROVE  FirstInv'
  <2>1. log' = Append(log, e) /\ leader \in Server /\ joined[leader]
    BY <1>7 DEF append, LogInv
  <2>2. Len(log) > 0
    BY <1>1, <2>1 DEF FirstInv
  <2>3. Len(log') > 0 /\ log'[1] = log[1]
    BY <1>1, <2>1, <2>2, Appends
  <2> QED BY <1>7, <2>2, <2>3 DEF FirstInv, procVars, Up
<1>8. CASE sync_done
  <2>1. PICK e \in Entry : append(e)
    BY <1>8, ConfEntry DEF sync_done
  <2>2. leader # None /\ UNCHANGED <<commit, procVars, joined>>
    BY <1>8 DEF sync_done, LogInv
  <2> QED BY <1>7, <2>1, <2>2
<1>9. ASSUME NEW s \in Server, write(s) PROVE FirstInv'
  <2>1. PICK n : n = writes'
    OBVIOUS
  <2>2. App(n) \in Entry
    BY <1>9, <2>1 DEF write, new_write, EntryInv, App, Entry
  <2>3. append(App(n)) /\ leader # None /\ UNCHANGED <<commit, procVars, joined>>
    BY <1>9, <2>1 DEF write
  <2> QED BY <1>7, <2>2, <2>3
<1>10. CASE advance_commit
  <2>1. commit' >= commit /\ UNCHANGED <<procVars, log, joined>>
    BY <1>1, <1>10 DEF advance_commit, replicaVars
  <2> QED BY <1>1, <1>10, <2>1 DEF FirstInv, procVars, advance_commit, Up
<1>11. ASSUME NEW s \in Server, elect(s) PROVE FirstInv'
  <2>1. PICK n : n = have[s]
    OBVIOUS
  <2>2. /\ n \in Nat /\ n <= Len(log) /\ Len(log') = n /\ \A p \in 1..n : log'[p] = log[p]
        /\ commit' = (IF commit <= n THEN commit ELSE n) /\ joined[s]
        /\ s \in saved_config[s] /\ (saved_config[s] # {s} \/ s = First)
        /\ UNCHANGED <<procVars, joined>>
    BY <1>11, <2>1, Elected
  <2>3. n > 0
    BY <2>1, <2>2 DEF ConfInv, LogInv
  <2>4. commit' > 0 /\ log'[1] = log[1] /\ Len(log') > 0 /\ Len(log) > 0
    BY <1>1, <2>2, <2>3 DEF FirstInv
  <2> QED BY <2>2, <2>4 DEF FirstInv, procVars, Up
<1>12. ASSUME NEW s \in Server, Asks(s) \/ replicate(s) \/ apply(s) \/ write_alone(s)
       PROVE  UNCHANGED <<log, commit, stage, starts, joined>>
  BY <1>12 DEF Asks, replicate, apply, write_alone, procVars, replicaVars, clusterVars
<1>13. CASE UNCHANGED <<log, commit, stage, starts, joined>>
  BY <1>13 DEF FirstInv, Up
<1>14. CASE reset_srv_to_join \/ UNCHANGED vars
  BY <1>13, <1>14 DEF reset_srv_to_join, vars, procVars, replicaVars, clusterVars
<1> QED BY <1>2, <1>3, <1>4, <1>5, <1>6, <1>8, <1>9, <1>10, <1>11, <1>12, <1>13, <1>14, ProcessKinds, AskKinds
        DEF Next, Raft
-----------------------------------------------------------------------------
(* Configurations *)

(* Where the leader has applied every configuration, its own names all.    *)
LEMMA LeaderKnows ==
  ASSUME EntryInv, LogInv, ConfInv, NEW l \in Server, l = leader,
         \A p \in applied[l] + 1 .. Len(log) : log[p].kind # "conf"
  PROVE  \A p \in 1..Len(log) : log[p].servers \subseteq saved_config[l]
<1> SUFFICES ASSUME NEW p \in 1..Len(log) PROVE log[p].servers \subseteq saved_config[l]
  OBVIOUS
<1>1. applied[l] \in Nat /\ Len(log) \in Nat /\ log[p] \in Entry
  BY DEF LogInv, EntryInv
<1>2. CASE p \in 1..applied[l]
  BY <1>2 DEF ConfInv
<1>3. CASE p \notin 1..applied[l]
  <2>1. p \in applied[l] + 1 .. Len(log)
    BY <1>1, <1>3
  <2>2. log[p].kind = "app"
    BY <1>1, <2>1 DEF Entry
  <2> QED BY <2>2 DEF ConfInv
<1> QED BY <1>2, <1>3

(* An entry that fits is put behind the others. *)
LEMMA ConfAppends ==
  ASSUME EntryInv, LogInv, ConfInv, NEW e \in Entry, append(e), leader # None,
         e.kind = "app" => e.servers = {} /\ srv_to_join' = srv_to_join,
         e.kind = "conf" => /\ srv_to_join' = None /\ e.servers # {}
                            /\ \A p \in 1..Len(log) : log[p].servers \subseteq e.servers,
         UNCHANGED <<stage, saved_config, applied, leader, joined>>
  PROVE  ConfInv'
<1>1. PICK n \in Nat : n = Len(log)
  BY DEF EntryInv
<1>2. /\ Len(log') = n + 1 /\ log'[n + 1] = e /\ \A p \in 1..n : log'[p] = log[p]
  <2>1. log \in Seq(Entry) /\ log' = Append(log, e)
    BY DEF EntryInv, append
  <2> QED BY <1>1, <2>1, Appends
<1>3. \A s \in Server : applied[s] \in Nat /\ applied[s] <= n
  BY <1>1 DEF LogInv
<1>4. \A p \in 1 .. n + 1 : p = n + 1 \/ p \in 1..n
  BY <1>1
<1>5. /\ \A s \in Server : Up(s)' => saved_config'[s] # {}
      /\ \A s \in Server : Up(s)' /\ ~joined'[s] => saved_config'[s] = {s}
      /\ \A s \in Server :
           joined'[s] /\ s \in saved_config'[s] /\ (saved_config'[s] # {s} \/ s = First) => applied'[s] > 0
  BY DEF ConfInv, Up
<1>6. \A p \in 1 .. n + 1 : /\ log'[p].kind = "app" => log'[p].servers = {}
                            /\ log'[p].kind = "conf" => log'[p].servers # {}
  BY <1>1, <1>2, <1>4 DEF ConfInv
<1>7. \A p, q \in 1 .. n + 1 : p <= q /\ log'[q].kind = "conf" => log'[p].servers \subseteq log'[q].servers
  <2> SUFFICES ASSUME NEW p \in 1 .. n + 1, NEW q \in 1 .. n + 1, p <= q, log'[q].kind = "conf"
               PROVE  log'[p].servers \subseteq log'[q].servers
    OBVIOUS
  <2>1. CASE q = n + 1
    BY <1>1, <1>2, <1>4, <2>1
  <2>2. CASE q \in 1..n
    <3>1. p \in 1..n
      BY <2>2
    <3> QED BY <1>1, <1>2, <2>2, <3>1 DEF ConfInv
  <2> QED BY <1>4, <2>1, <2>2
<1>8. \A s \in Server : \A p \in 1..applied'[s] : log'[p].servers \subseteq saved_config'[s]
  <2> SUFFICES ASSUME NEW s \in Server, NEW p \in 1..applied[s]
               PROVE  log'[p].servers \subseteq saved_config[s]
    OBVIOUS
  <2>1. p \in 1..n
    BY <1>3
  <2> QED BY <1>2, <2>1 DEF ConfInv
<1>9. srv_to_join' # None => /\ srv_to_join' \notin saved_config'[leader'] /\ srv_to_join' # First
                             /\ \A p \in applied'[leader'] + 1 .. n + 1 : log'[p].kind # "conf"
  <2> SUFFICES ASSUME srv_to_join' # None
               PROVE  /\ srv_to_join \notin saved_config[leader] /\ srv_to_join # First
                      /\ \A p \in applied[leader] + 1 .. n + 1 : log'[p].kind # "conf"
                      /\ srv_to_join' = srv_to_join
    OBVIOUS
  <2>1. e.kind = "app" /\ srv_to_join' = srv_to_join
    BY DEF Entry
  <2>2. /\ srv_to_join \notin saved_config[leader] /\ srv_to_join # First
        /\ \A p \in applied[leader] + 1 .. n : log[p].kind # "conf"
    BY <1>1, <2>1 DEF ConfInv
  <2>3. leader \in Server /\ applied[leader] \in Nat
    BY DEF LogInv
  <2>4. ASSUME NEW p \in applied[leader] + 1 .. n + 1 PROVE log'[p].kind # "conf"
    <3>1. CASE p = n + 1
      BY <1>2, <2>1, <3>1
    <3>2. CASE p # n + 1
      <4>1. p \in applied[leader] + 1 .. n /\ p \in 1..n
        BY <1>1, <2>3, <3>2
      <4> QED BY <1>2, <2>2, <4>1
    <3> QED BY <3>1, <3>2
  <2> QED BY <2>1, <2>2, <2>4
<1> QED BY <1>2, <1>5, <1>6, <1>7, <1>8, <1>9 DEF ConfInv

LEMMA ConfElects ==
  ASSUME EntryInv, LogInv, ConfInv, ProcInv, NEW s \in Server, elect(s)
  PROVE  ConfInv'
<1>1. PICK n : n = have[s]
  OBVIOUS
<1>2. /\ n \in Nat /\ n <= Len(log) /\ Len(log') = n /\ \A p \in 1..n : log'[p] = log[p]
      /\ applied' \in [Server -> Nat]
      /\ \A t \in Server : applied'[t] = IF applied[t] <= n THEN applied[t] ELSE n
      /\ srv_to_join' = None /\ joined[s] /\ s \in saved_config[s] /\ (saved_config[s] # {s} \/ s = First)
      /\ UNCHANGED <<procVars, joined, saved_config>>
  BY <1>1, Elected
<1>3. Len(log) \in Nat /\ applied \in [Server -> Nat]
  BY DEF EntryInv, LogInv
<1>4. applied[s] > 0 /\ applied[s] <= n
  BY <1>1, <1>2 DEF ConfInv, LogInv
<1>5. \A t \in Server : applied'[t] <= applied[t] /\ applied'[t] <= n /\ (applied[t] > 0 => applied'[t] > 0)
  BY <1>2, <1>3, <1>4
<1>6. \A p \in 1..n : p \in 1..Len(log)
  BY <1>2, <1>3
<1>7. \A t \in Server : \A p \in 1..applied'[t] : p \in 1..applied[t] /\ p \in 1..n
  BY <1>2, <1>3, <1>5
<1>8. \A t \in Server : \A p \in 1..applied'[t] : log'[p].servers \subseteq saved_config'[t]
  BY <1>2, <1>7 DEF ConfInv
<1>9. /\ \A p \in 1..n : /\ log'[p].kind = "app" => log'[p].servers = {}
                         /\ log'[p].kind = "conf" => log'[p].servers # {}
      /\ \A p, q \in 1..n : p <= q /\ log'[q].kind = "conf" => log'[p].servers \subseteq log'[q].servers
  BY <1>2, <1>6 DEF ConfInv
<1>10. /\ \A t \in Server : Up(t)' => saved_config'[t] # {}
       /\ \A t \in Server : Up(t)' /\ ~joined'[t] => saved_config'[t] = {t}
       /\ \A t \in Server :
            joined'[t] /\ t \in saved_config'[t] /\ (saved_config'[t] # {t} \/ t = First) => applied'[t] > 0
  BY <1>2, <1>5 DEF ConfInv, Up, procVars
<1> QED BY <1>2, <1>8, <1>9, <1>10 DEF ConfInv

LEMMA ConfApplies ==
  ASSUME EntryInv, LogInv, ConfInv, ProcInv, NEW s \in Server, apply(s)
  PROVE  ConfInv'
<1>1. PICK p \in Nat : p = applied[s] + 1
  BY DEF LogInv
<1>2. /\ joined[s] /\ applied' = [applied EXCEPT ![s] = p] /\ p <= commit
      /\ UNCHANGED <<log, leader, srv_to_join, joined, stage>>
  <2>1. applied[s] < commit /\ applied[s] \in Nat /\ commit \in Nat
    BY DEF apply, LogInv
  <2> QED BY <1>1, <2>1 DEF apply, clusterVars, procVars
<1>3. /\ Len(log) \in Nat /\ applied \in [Server -> Nat] /\ p \in 1..Len(log) /\ commit <= Len(log)
      /\ saved_config \in [Server -> SUBSET Server]
  BY <1>1, <1>2 DEF LogInv, EntryInv
<1>4. \/ log[p].kind = "app" /\ UNCHANGED saved_config
      \/ log[p].kind = "conf" /\ saved_config' = [saved_config EXCEPT ![s] = log[p].servers]
  BY <1>1 DEF apply
<1>5. /\ applied'[s] = p /\ \A t \in Server : t # s => applied'[t] = applied[t] /\ saved_config'[t] = saved_config[t]
      /\ saved_config'[s] = (IF log[p].kind = "app" THEN saved_config[s] ELSE log[p].servers)
  BY <1>2, <1>3, <1>4
<1>6. p > 0 /\ \A q \in 1..p : q = p \/ q \in 1..applied[s]
  BY <1>1, <1>3
<1>7. \A q \in 1..p : log[q].servers \subseteq saved_config'[s]
  <2> SUFFICES ASSUME NEW q \in 1..p PROVE log[q].servers \subseteq saved_config'[s]
    OBVIOUS
  <2>1. CASE log[p].kind = "conf"
    <3>1. q \in 1..Len(log) /\ q <= p
      BY <1>3
    <3>2. log[q].servers \subseteq log[p].servers
      BY <1>3, <2>1, <3>1 DEF ConfInv
    <3> QED BY <1>5, <2>1, <3>2
  <2>2. CASE log[p].kind = "app"
    <3>1. log[p].servers = {}
      BY <1>3, <2>2 DEF ConfInv
    <3> QED BY <1>5, <1>6, <2>2, <3>1 DEF ConfInv
  <2> QED BY <1>4, <2>1, <2>2
<1>8. saved_config'[s] # {}
  <2>1. Up(s) /\ saved_config[s] # {}
    BY <1>2 DEF ProcInv, ConfInv
  <2>2. log[p].kind = "conf" => log[p].servers # {}
    BY <1>3 DEF ConfInv
  <2> QED BY <1>4, <1>5, <2>1, <2>2
<1>9. /\ \A t \in Server : Up(t)' => saved_config'[t] # {}
      /\ \A t \in Server : Up(t)' /\ ~joined'[t] => saved_config'[t] = {t}
      /\ \A t \in Server :
           joined'[t] /\ t \in saved_config'[t] /\ (saved_config'[t] # {t} \/ t = First) => applied'[t] > 0
  <2> SUFFICES ASSUME NEW t \in Server
               PROVE  /\ Up(t)' => saved_config'[t] # {}
                      /\ Up(t)' /\ ~joined'[t] => saved_config'[t] = {t}
                      /\ joined'[t] /\ t \in saved_config'[t] /\ (saved_config'[t] # {t} \/ t = First)
                           => applied'[t] > 0
    OBVIOUS
  <2>1. CASE t = s
    BY <1>2, <1>5, <1>6, <1>8, <2>1
  <2>2. CASE t # s
    BY <1>2, <1>5, <2>2 DEF ConfInv, Up
  <2> QED BY <2>1, <2>2
<1>10. \A t \in Server : \A q \in 1..applied'[t] : log'[q].servers \subseteq saved_config'[t]
  BY <1>2, <1>5, <1>7 DEF ConfInv
<1>11. srv_to_join' # None => /\ srv_to_join' \notin saved_config'[leader'] /\ srv_to_join' # First
                              /\ \A q \in applied'[leader'] + 1 .. Len(log') : log'[q].kind # "conf"
  <2> SUFFICES ASSUME srv_to_join # None
               PROVE  /\ srv_to_join \notin saved_config'[leader] /\ srv_to_join # First
                      /\ \A q \in applied'[leader] + 1 .. Len(log) : log[q].kind # "conf"
    BY <1>2
  <2>1. /\ srv_to_join \notin saved_config[leader] /\ srv_to_join # First /\ leader \in Server
        /\ \A q \in applied[leader] + 1 .. Len(log) : log[q].kind # "conf"
    BY DEF ConfInv, LogInv
  <2>2. CASE s # leader
    BY <1>5, <2>1, <2>2
  <2>3. CASE s = leader
    <3>1. p \in applied[s] + 1 .. Len(log)
      BY <1>1, <1>3
    <3>2. log[p].kind = "app"
      BY <1>4, <2>1, <2>3, <3>1
    <3>3. saved_config'[s] = saved_config[s] /\ \A q \in p + 1 .. Len(log) : q \in applied[s] + 1 .. Len(log)
      BY <1>1, <1>3, <1>5, <3>2
    <3> QED BY <1>5, <2>1, <2>3, <3>3
  <2> QED BY <2>2, <2>3
<1>12. /\ \A q \in 1..Len(log') : /\ log'[q].kind = "app" => log'[q].servers = {}
                                  /\ log'[q].kind = "conf" => log'[q].servers # {}
       /\ \A a, b \in 1..Len(log') : a <= b /\ log'[b].kind = "conf" => log'[a].servers \subseteq log'[b].servers
  BY <1>2 DEF ConfInv
<1> QED BY <1>9, <1>10, <1>11, <1>12 DEF ConfInv

LEMMA ConfStep ==
  ASSUME ProcInv, EntryInv, LogInv, FirstInv, ConfInv, [Next]_vars
  PROVE  ConfInv'
<1> USE MembershipAssumption
<1>1. /\ log \in Seq(Entry) /\ Len(log) \in Nat /\ saved_config \in [Server -> SUBSET Server]
      /\ have \in [Server -> Nat] /\ applied \in [Server -> Nat] /\ joined \in [Server -> BOOLEAN]
      /\ stage \in [Server -> {"off", "init", "join", "run"}]
      /\ leader \in Server \cup {None} /\ srv_to_join \in Server \cup {None}
      /\ \A s \in Server : ~joined[s] => applied[s] = 0
      /\ \A s \in Server : joined[s] => Up(s)
      /\ leader # None => leader \in Server /\ joined[leader]
      /\ srv_to_join # None => leader # None
  BY DEF LogInv, ProcInv, EntryInv
<1>2. ASSUME NEW s \in Server, start(s) PROVE ConfInv'
  <2>1. /\ stage[s] = "off" /\ stage' = [stage EXCEPT ![s] = "init"]
        /\ saved_config' = [saved_config EXCEPT ![s] = {s}]
        /\ UNCHANGED <<log, applied, joined, leader, srv_to_join>>
    BY <1>2 DEF start, clusterVars
  <2>2. ~joined[s] /\ applied[s] = 0 /\ leader # s
    BY <1>1, <2>1 DEF Up
  <2>3. /\ stage'[s] = "init" /\ saved_config'[s] = {s}
        /\ \A t \in Server : t # s => stage'[t] = stage[t] /\ saved_config'[t] = saved_config[t]
    BY <1>1, <2>1
  <2>4. /\ \A t \in Server : Up(t)' => saved_config'[t] # {}
        /\ \A t \in Server : Up(t)' /\ ~joined'[t] => saved_config'[t] = {t}
        /\ \A t \in Server :
             joined'[t] /\ t \in saved_config'[t] /\ (saved_config'[t] # {t} \/ t = First) => applied'[t] > 0
    <3> SUFFICES ASSUME NEW t \in Server
                 PROVE  /\ Up(t)' => saved_config'[t] # {}
                        /\ Up(t)' /\ ~joined'[t] => saved_config'[t] = {t}
                        /\ joined'[t] /\ t \in saved_config'[t] /\ (saved_config'[t] # {t} \/ t = First)
                             => applied'[t] > 0
      OBVIOUS
    <3>1. CASE t = s
      BY <2>1, <2>2, <2>3, <3>1
    <3>2. CASE t # s
      BY <2>1, <2>3, <3>2 DEF ConfInv, Up
    <3> QED BY <3>1, <3>2
  <2>5. \A t \in Server : \A p \in 1..applied'[t] : log'[p].servers \subseteq saved_config'[t]
    <3> SUFFICES ASSUME NEW t \in Server, NEW p \in 1..applied[t]
                 PROVE  log[p].servers \subseteq saved_config'[t]
      BY <2>1
    <3>1. t # s
      BY <2>2
    <3> QED BY <2>3, <3>1 DEF ConfInv
  <2>6. srv_to_join # None => saved_config'[leader] = saved_config[leader]
    BY <1>1, <2>2, <2>3
  <2>7. srv_to_join' # None => /\ srv_to_join' \notin saved_config'[leader'] /\ srv_to_join' # First
                               /\ \A p \in applied'[leader'] + 1 .. Len(log') : log'[p].kind # "conf"
    BY <2>1, <2>6 DEF ConfInv
  <2>8. /\ \A p \in 1..Len(log') : /\ log'[p].kind = "app" => log'[p].servers = {}
                                   /\ log'[p].kind = "conf" => log'[p].servers # {}
        /\ \A p, q \in 1..Len(log') : p <= q /\ log'[q].kind = "conf" => log'[p].servers \subseteq log'[q].servers
    BY <2>1 DEF ConfInv
  <2> QED BY <2>4, <2>5, <2>7, <2>8 DEF ConfInv
<1>3. CASE become_ready(First)
  <2>1. /\ stage[First] = "init" /\ ~ready[First]
        /\ log' = <<Conf({First})>> /\ joined' = [joined EXCEPT ![First] = TRUE]
        /\ applied' = [applied EXCEPT ![First] = 1] /\ UNCHANGED <<stage, saved_config, srv_to_join>>
    BY <1>3 DEF become_ready
  <2>2. Len(log) = 0 /\ Up(First)
    BY <1>1, <2>1 DEF FirstInv, ProcInv, Up
  <2>3. (\A s \in Server : ~joined[s]) /\ leader = None /\ srv_to_join = None
    BY <1>1, <2>2 DEF FirstInv
  <2>4. saved_config[First] = {First} /\ \A s \in Server : applied[s] = 0
    BY <1>1, <2>2, <2>3 DEF ConfInv
  <2>5. /\ Len(log') = 1 /\ log'[1].kind = "conf" /\ log'[1].servers = {First}
    BY <2>1 DEF Conf
  <2>6. \A p \in 1..1 : p = 1
    OBVIOUS
  <2>7. applied'[First] = 1 /\ \A s \in Server : s # First => applied'[s] = 0
    BY <1>1, <2>1, <2>4
  <2>8. \A s \in Server : \A p \in 1..applied'[s] : log'[p].servers \subseteq saved_config'[s]
    BY <2>1, <2>4, <2>5, <2>6, <2>7
  <2>9. /\ \A s \in Server : Up(s)' => saved_config'[s] # {}
        /\ \A s \in Server : Up(s)' /\ ~joined'[s] => saved_config'[s] = {s}
        /\ \A s \in Server :
             joined'[s] /\ s \in saved_config'[s] /\ (saved_config'[s] # {s} \/ s = First) => applied'[s] > 0
    BY <1>1, <2>1, <2>3, <2>7 DEF ConfInv, Up
  <2> QED BY <2>1, <2>3, <2>5, <2>6, <2>8, <2>9 DEF ConfInv
<1>4. ASSUME NEW s \in Server, Ends(s) PROVE ConfInv'
  <2>1. /\ applied' = [applied EXCEPT ![s] = 0] /\ joined' = [joined EXCEPT ![s] = FALSE]
        /\ leader' = (IF leader = s THEN None ELSE leader)
        /\ srv_to_join' = (IF leader = s THEN None ELSE srv_to_join)
        /\ stage' = [stage EXCEPT ![s] = "off"] /\ saved_config' = [saved_config EXCEPT ![s] = {}]
        /\ UNCHANGED log
    BY <1>4 DEF Ends, exit
  <2>2. ~Up(s)' /\ applied'[s] = 0 /\ ~joined'[s]
    BY <1>1, <2>1 DEF Up
  <2>3. \A t \in Server : t # s => /\ Up(t)' = Up(t) /\ saved_config'[t] = saved_config[t]
                                  /\ applied'[t] = applied[t] /\ joined'[t] = joined[t]
    BY <1>1, <2>1 DEF Up
  <2>4. /\ \A t \in Server : Up(t)' => saved_config'[t] # {}
        /\ \A t \in Server : Up(t)' /\ ~joined'[t] => saved_config'[t] = {t}
        /\ \A t \in Server :
             joined'[t] /\ t \in saved_config'[t] /\ (saved_config'[t] # {t} \/ t = First) => applied'[t] > 0
    BY <2>2, <2>3 DEF ConfInv
  <2>5. \A t \in Server : \A p \in 1..applied'[t] : log'[p].servers \subseteq saved_config'[t]
    BY <2>1, <2>2, <2>3 DEF ConfInv
  <2>6. srv_to_join' # None =>
          /\ srv_to_join' \notin saved_config'[leader'] /\ srv_to_join' # First
          /\ \A p \in applied'[leader'] + 1 .. Len(log') : log'[p].kind # "conf"
    BY <1>1, <2>1, <2>3 DEF ConfInv
  <2> QED BY <2>1, <2>4, <2>5, <2>6 DEF ConfInv
<1>5. ASSUME NEW s \in Server, Asks(s) PROVE ConfInv'
  <2>1. UNCHANGED <<log, saved_config, applied, joined, stage, leader>>
    BY <1>5 DEF Asks, replicaVars
  <2>2. \/ srv_to_join' = srv_to_join
        \/ /\ leader # None /\ s \notin saved_config[leader] /\ ~config_changing
           /\ s # First /\ srv_to_join' = s
    BY <1>5 DEF Asks, add_srv_code
  <2> QED BY <2>1, <2>2 DEF ConfInv, Up, config_changing
<1>6. ASSUME NEW s \in Server, join_cluster_req(s) PROVE ConfInv'
  <2>1. /\ srv_to_join = s /\ Up(s) /\ ~joined[s]
        /\ joined' = [joined EXCEPT ![s] = TRUE] /\ applied' = [applied EXCEPT ![s] = 0]
        /\ saved_config' = [saved_config EXCEPT ![s] = saved_config[leader]]
        /\ UNCHANGED <<log, stage, leader, srv_to_join>>
    BY <1>6 DEF join_cluster_req, follow, clusterVars
  <2>2. /\ leader \in Server /\ leader # s /\ saved_config[leader] # {}
        /\ s \notin saved_config[leader] /\ s # First
    BY <1>1, <2>1 DEF ConfInv
  <2> QED BY <1>1, <2>1, <2>2 DEF ConfInv, Up
<1>7. ASSUME NEW s \in Server, append_entries_req(s) PROVE ConfInv'
  <2>1. /\ leader # None /\ Up(s) /\ ~joined[s]
        /\ joined' = [joined EXCEPT ![s] = TRUE] /\ applied' = [applied EXCEPT ![s] = 0]
        /\ UNCHANGED <<log, stage, saved_config, leader, srv_to_join>>
    BY <1>7 DEF append_entries_req, follow, clusterVars
  <2>2. leader # s /\ saved_config[s] = {s}
    BY <1>1, <2>1 DEF ConfInv
  <2>3. s # First
    BY <1>1, <2>1 DEF FirstInv
  <2> QED BY <1>1, <2>1, <2>2, <2>3 DEF ConfInv, Up
<1>8. CASE sync_done
  <2>1. PICK S, e : S = saved_config[leader] \cup {srv_to_join} /\ e = Conf(S)
    OBVIOUS
  <2>2. /\ srv_to_join # None /\ append(e) /\ srv_to_join' = None
        /\ UNCHANGED <<stage, saved_config, applied, leader, joined>>
    BY <1>8, <2>1 DEF sync_done, procVars
  <2>3. e \in Entry /\ e.kind = "conf" /\ e.servers = S
    BY <1>8, <2>1, ConfEntry DEF Conf
  <2>4. leader \in Server /\ \A p \in applied[leader] + 1 .. Len(log) : log[p].kind # "conf"
    BY <1>1, <2>2 DEF ConfInv
  <2>5. \A p \in 1..Len(log) : log[p].servers \subseteq saved_config[leader]
    BY <2>4, LeaderKnows
  <2> QED BY <1>1, <2>1, <2>2, <2>3, <2>5, ConfAppends
<1>9. ASSUME NEW s \in Server, write(s) PROVE ConfInv'
  <2>1. PICK e : e = App(writes')
    OBVIOUS
  <2>2. e \in Entry /\ e.kind = "app" /\ e.servers = {}
    BY <1>9, <2>1 DEF write, new_write, EntryInv, App, Entry
  <2>3. append(e) /\ leader # None /\ UNCHANGED <<stage, saved_config, applied, leader, joined, srv_to_join>>
    BY <1>9, <2>1 DEF write, procVars
  <2> QED BY <2>2, <2>3, ConfAppends
<1>10. ASSUME NEW s \in Server, Proceeds(s) PROVE ConfInv'
  <2>1. /\ UNCHANGED <<log, saved_config, applied, joined, leader, srv_to_join>>
        /\ \A t \in Server : Up(t)' => Up(t)
    BY <1>1, <1>10 DEF Proceeds, replicaVars, clusterVars, Up
  <2> QED BY <2>1 DEF ConfInv
<1>11. ASSUME NEW s \in Server, (s # First /\ become_ready(s)) \/ replicate(s) \/ write_alone(s)
       PROVE  UNCHANGED <<log, saved_config, applied, joined, leader, srv_to_join, stage>>
  BY <1>11 DEF become_ready, replicate, write_alone, clusterVars, procVars
<1>12. CASE UNCHANGED <<log, saved_config, applied, joined, leader, srv_to_join, stage>>
  BY <1>12 DEF ConfInv, Up
<1>13. CASE advance_commit \/ UNCHANGED vars
  BY <1>12, <1>13 DEF advance_commit, vars, procVars, replicaVars, clusterVars
<1>14. CASE reset_srv_to_join
  <2>1. srv_to_join' = None /\ UNCHANGED <<log, saved_config, applied, joined, stage>>
    BY <1>14 DEF reset_srv_to_join, procVars, replicaVars
  <2> QED BY <2>1 DEF ConfInv, Up
<1> QED BY <1>2, <1>3, <1>4, <1>5, <1>6, <1>7, <1>8, <1>9, <1>10, <1>11, <1>12, <1>13, <1>14,
           ConfElects, ConfApplies, ProcessKinds, AskKinds DEF Next, Raft
-----------------------------------------------------------------------------
(* What the servers know of the cluster's members *)

LEMMA NamedKept ==
  ASSUME commit \in Nat, commit' \in Nat, commit <= commit', \A p \in 1..commit : log'[p] = log[p]
  PROVE  CommittedNamed \subseteq CommittedNamed'
<1> SUFFICES ASSUME NEW p \in 1..commit, NEW x \in log[p].servers PROVE x \in CommittedNamed'
  BY DEF CommittedNamed
<1>1. p \in 1..commit' /\ log'[p] = log[p]
  OBVIOUS
<1> QED BY <1>1 DEF CommittedNamed

LEMMA NamedStep ==
  ASSUME ProcInv, EntryInv, LogInv, FirstInv, ConfInv, NamedInv, [Next]_vars
  PROVE  NamedInv'
<1> USE MembershipAssumption
<1>1. /\ log \in Seq(Entry) /\ Len(log) \in Nat /\ saved_config \in [Server -> SUBSET Server]
      /\ joined \in [Server -> BOOLEAN] /\ commit \in Nat /\ commit <= Len(log)
      /\ leader # None => leader \in Server /\ joined[leader]
      /\ \A s \in Server : joined[s] => Up(s)
  BY DEF LogInv, ProcInv, EntryInv
<1>2. ASSUME CommittedNamed \subseteq CommittedNamed', ~cut' => ~cut,
             leader' \in {leader, None}, leader' # None => saved_config'[leader] \subseteq saved_config[leader],
             \A s \in Server : joined'[s] /\ saved_config'[s] # {s}
                                 => joined[s] /\ saved_config'[s] = saved_config[s]
      PROVE  NamedInv'
  BY <1>2 DEF NamedInv
<1>3. ASSUME UNCHANGED <<joined, saved_config, leader, cut>>, CommittedNamed \subseteq CommittedNamed'
      PROVE  NamedInv'
  BY <1>2, <1>3
<1>4. ASSUME UNCHANGED <<log, commit>> PROVE CommittedNamed' = CommittedNamed
  BY <1>4 DEF CommittedNamed
<1>5. ASSUME NEW s \in Server, start(s) PROVE NamedInv'
  <2>1. /\ stage[s] = "off" /\ saved_config' = [saved_config EXCEPT ![s] = {s}]
        /\ UNCHANGED <<log, commit, joined, leader, cut>>
    BY <1>5 DEF start, clusterVars
  <2>2. ~joined[s] /\ (leader # None => leader # s)
    BY <1>1, <2>1 DEF Up
  <2>3. saved_config'[s] = {s} /\ \A t \in Server : t # s => saved_config'[t] = saved_config[t]
    BY <1>1, <2>1
  <2> QED BY <1>1, <1>2, <1>4, <2>1, <2>2, <2>3
<1>6. CASE become_ready(First)
  <2>1. /\ stage[First] = "init" /\ ~ready[First] /\ leader' = First /\ commit' = 1
        /\ log' = <<Conf({First})>> /\ joined' = [joined EXCEPT ![First] = TRUE]
        /\ UNCHANGED saved_config
    BY <1>6 DEF become_ready
  <2>2. Up(First) /\ ~joined[First]
    BY <2>1 DEF ProcInv, Up
  <2>3. Len(log) = 0 /\ saved_config[First] = {First}
    BY <1>1, <2>2 DEF FirstInv, ConfInv
  <2>4. \A s \in Server : s # First => ~joined'[s]
    BY <1>1, <2>1, <2>3 DEF FirstInv
  <2>5. First \in CommittedNamed'
    <3>1. 1 \in 1..commit' /\ First \in log'[1].servers
      BY <2>1 DEF Conf
    <3> QED BY <3>1 DEF CommittedNamed
  <2> QED BY <2>1, <2>3, <2>4, <2>5 DEF NamedInv
<1>7. ASSUME NEW s \in Server, Ends(s) PROVE NamedInv'
  <2>1. /\ joined' = [joined EXCEPT ![s] = FALSE] /\ leader' = (IF leader = s THEN None ELSE leader)
        /\ saved_config' = [saved_config EXCEPT ![s] = {}] /\ UNCHANGED <<log, commit, cut>>
    BY <1>7 DEF Ends, exit
  <2>2. ~joined'[s] /\ \A t \in Server : t # s => saved_config'[t] = saved_config[t] /\ joined'[t] = joined[t]
    BY <1>1, <2>1
  <2>3. leader' # None => leader # s /\ leader \in Server
    BY <1>1, <2>1
  <2> QED BY <1>2, <1>4, <2>1, <2>2, <2>3
<1>8. ASSUME NEW s \in Server, join_cluster_req(s) PROVE NamedInv'
  <2>1. /\ srv_to_join = s /\ ~joined[s]
        /\ joined' = [joined EXCEPT ![s] = TRUE]
        /\ saved_config' = [saved_config EXCEPT ![s] = saved_config[leader]]
        /\ UNCHANGED <<log, commit, leader, cut>>
    BY <1>8 DEF join_cluster_req, follow, clusterVars, boundVars
  <2>2. leader \in Server /\ joined[leader] /\ leader # s
    BY <1>1, <2>1 DEF LogInv
  <2>3. /\ saved_config'[s] = saved_config[leader]
        /\ \A t \in Server : t # s => saved_config'[t] = saved_config[t] /\ joined'[t] = joined[t]
    BY <1>1, <2>1
  <2> QED BY <1>4, <2>1, <2>2, <2>3 DEF NamedInv
<1>9. ASSUME NEW s \in Server, append_entries_req(s) PROVE NamedInv'
  <2>1. /\ Up(s) /\ ~joined[s] /\ joined' = [joined EXCEPT ![s] = TRUE]
        /\ UNCHANGED <<log, commit, saved_config, leader, cut>>
    BY <1>9 DEF append_entries_req, follow, clusterVars, boundVars
  <2>2. saved_config[s] = {s}
    BY <1>1, <2>1 DEF ConfInv
  <2> QED BY <1>1, <1>2, <1>4, <2>1, <2>2
<1>10. ASSUME NEW e \in Entry, append(e), UNCHANGED <<commit, joined, saved_config, leader, cut>>
       PROVE  NamedInv'
  <2>1. \A p \in 1..Len(log) : log'[p] = log[p]
    BY <1>1, <1>10, Appends DEF append
  <2>2. CommittedNamed \subseteq CommittedNamed'
    BY <1>1, <1>10, <2>1, NamedKept
  <2> QED BY <1>3, <1>10, <2>2
<1>11. CASE sync_done
  <2>1. PICK e \in Entry : append(e)
    BY <1>11, ConfEntry DEF sync_done
  <2> QED BY <1>10, <1>11, <2>1 DEF sync_done
<1>12. ASSUME NEW s \in Server, write(s) PROVE NamedInv'
  <2>1. PICK n : n = writes'
    OBVIOUS
  <2>2. App(n) \in Entry
    BY <1>12, <2>1 DEF write, new_write, EntryInv, App, Entry
  <2>3. append(App(n)) /\ UNCHANGED <<commit, joined, saved_config, leader, cut>>
    BY <1>12, <2>1 DEF write, boundVars
  <2> QED BY <1>10, <2>2, <2>3
<1>13. CASE advance_commit
  <2>1. commit' \in commit + 1 .. Len(log) /\ UNCHANGED <<log, joined, saved_config, leader, cut>>
    BY <1>13 DEF advance_commit, replicaVars, boundVars
  <2>2. CommittedNamed \subseteq CommittedNamed'
    BY <1>1, <2>1, NamedKept
  <2> QED BY <1>3, <2>1, <2>2
<1>14. ASSUME NEW s \in Server, elect(s) PROVE NamedInv'
  <2> SUFFICES ASSUME ~cut' PROVE NamedInv'
    BY DEF NamedInv
  <2>1. PICK n : n = have[s]
    OBVIOUS
  <2>2. /\ n \in Nat /\ \A p \in 1..n : log'[p] = log[p]
        /\ commit' = (IF commit <= n THEN commit ELSE n) /\ leader' = s /\ joined[s]
        /\ saved_config[s] # {s} \/ s = First
        /\ cut' = (cut \/ n < commit) /\ UNCHANGED <<joined, saved_config>>
    BY <1>14, <2>1, Elected
  <2>3. ~cut /\ commit' = commit /\ commit <= n
    BY <1>1, <2>2
  <2>4. CommittedNamed \subseteq CommittedNamed'
    BY <1>1, <2>2, <2>3, NamedKept
  <2>5. saved_config[s] \subseteq CommittedNamed
    <3>1. CASE saved_config[s] # {s}
      BY <2>2, <2>3, <3>1 DEF NamedInv
    <3>2. CASE saved_config[s] = {s}
      <4>1. s = First /\ 1 \in 1..commit /\ log[1] = Conf({First})
        BY <1>1, <2>2, <3>2 DEF FirstInv
      <4>2. First \in log[1].servers
        BY <4>1 DEF Conf
      <4> QED BY <3>2, <4>1, <4>2 DEF CommittedNamed
    <3> QED BY <3>1, <3>2
  <2> QED BY <2>2, <2>3, <2>4, <2>5 DEF NamedInv
<1>15. ASSUME NEW s \in Server, apply(s) PROVE NamedInv'
  <2>1. PICK p : p = applied[s] + 1
    OBVIOUS
  <2>2. applied[s] \in Nat /\ applied[s] < commit /\ joined[s]
    BY <1>15 DEF apply, LogInv
  <2>3. p \in 1..commit
    BY <1>1, <2>1, <2>2
  <2>4. UNCHANGED saved_config \/ saved_config' = [saved_config EXCEPT ![s] = log[p].servers]
    BY <1>15, <2>1 DEF apply
  <2>5. UNCHANGED <<log, commit, joined, leader, cut>>
    BY <1>15 DEF apply, clusterVars, boundVars
  <2>6. log[p].servers \subseteq CommittedNamed
    BY <2>3 DEF CommittedNamed
  <2>7. \A t \in Server : saved_config'[t] = saved_config[t] \/ saved_config'[t] \subseteq CommittedNamed
    BY <1>1, <2>4, <2>6
  <2> QED BY <1>1, <1>4, <2>5, <2>7 DEF NamedInv
<1>16. ASSUME NEW s \in Server,
              (s # First /\ become_ready(s)) \/ Asks(s) \/ Proceeds(s) \/ replicate(s) \/ write_alone(s)
       PROVE  UNCHANGED <<log, commit, joined, saved_config, leader, cut>>
  BY <1>16 DEF become_ready, Asks, Proceeds, replicate, write_alone, replicaVars, clusterVars, boundVars
<1>17. CASE UNCHANGED <<log, commit, joined, saved_config, leader, cut>>
  BY <1>3, <1>4, <1>17
<1>18. CASE reset_srv_to_join \/ UNCHANGED vars
  BY <1>17, <1>18 DEF reset_srv_to_join, vars, replicaVars, clusterVars, boundVars
<1> QED BY <1>5, <1>6, <1>7, <1>8, <1>9, <1>11, <1>12, <1>13, <1>14, <1>15, <1>16, <1>17, <1>18, ProcessKinds, AskKinds
        DEF Next, Raft

LEMMA CommittedIsNamed ==
  ASSUME EntryInv, LogInv
  PROVE  CommittedNamed \subseteq Named
<1> SUFFICES ASSUME NEW p \in 1..commit, NEW x \in log[p].servers PROVE x \in Named
  BY DEF CommittedNamed
<1>1. p \in 1..Len(log)
  BY DEF LogInv, EntryInv
<1> QED BY <1>1 DEF Named

LEMMA SeedStep ==
  ASSUME ProcInv, EntryInv, LogInv, FirstInv, ConfInv, NamedInv, SeedInv, [Next]_vars
  PROVE  SeedInv'
<1> USE MembershipAssumption
<1> DEFINE Serves(s) == seeded[s] /\ (stage[s] = "run" \/ (stage[s] = "join" /\ reply[s].code = "OK"))
<1>1. /\ log \in Seq(Entry) /\ Len(log) \in Nat /\ saved_config \in [Server -> SUBSET Server]
      /\ stage \in [Server -> {"off", "init", "join", "run"}]
      /\ seeded \in [Server -> BOOLEAN] /\ starts \in [Server -> Nat]
      /\ reply \in [Server -> [code : Code, term : Nat]]
      /\ leader # None => leader \in Server
      /\ commit \in Nat /\ commit <= Len(log)
  BY DEF LogInv, ProcInv, EntryInv
<1>2. ASSUME \A s \in Server : Serves(s)' => Serves(s) /\ starts'[s] = starts[s],
             \A s \in Server : Serves(s)' /\ s \in Named' => s \in Named,
             added' = added, ~cut' => ~cut
      PROVE  SeedInv'
  BY <1>2 DEF SeedInv
<1>3. ASSUME UNCHANGED log PROVE Named' = Named
  BY <1>3 DEF Named
<1>4. ASSUME NEW s \in Server, start(s) PROVE SeedInv'
  <2>1. /\ stage' = [stage EXCEPT ![s] = "init"] /\ starts' = [starts EXCEPT ![s] = @ + 1]
        /\ UNCHANGED <<log, reply, added, cut>>
    BY <1>4 DEF start, clusterVars
  <2>2. PICK b : seeded' = [seeded EXCEPT ![s] = b]
    BY <1>4 DEF start
  <2>3. /\ stage'[s] = "init"
        /\ \A t \in Server : t # s => /\ stage'[t] = stage[t] /\ seeded'[t] = seeded[t]
                                      /\ starts'[t] = starts[t] /\ reply'[t] = reply[t]
    BY <1>1, <2>1, <2>2
  <2> QED BY <1>2, <1>3, <2>1, <2>3
<1>5. CASE become_ready(First)
  <2>1. log' = <<Conf({First})>> /\ UNCHANGED <<stage, seeded, starts, reply, added, cut>>
    BY <1>5 DEF become_ready, boundVars
  <2>2. Named' = {First}
    <3>1. Len(log') = 1 /\ log'[1].servers = {First}
      BY <2>1 DEF Conf
    <3> QED BY <3>1 DEF Named
  <2>3. ~Serves(First)
    BY DEF ProcInv
  <2> QED BY <1>2, <2>1, <2>2, <2>3
<1>6. ASSUME NEW s \in Server, Proceeds(s) PROVE SeedInv'
  <2>1. UNCHANGED <<log, seeded, starts, reply, added, cut>>
    BY <1>6 DEF Proceeds, clusterVars, boundVars
  <2>2. \A t \in Server : t # s => stage'[t] = stage[t]
    BY <1>1, <1>6 DEF Proceeds
  <2>3. Serves(s)' => Serves(s)
    <3>1. stage[s] = "init" => reply[s].code = "none"
      BY NoReplyType DEF ProcInv
    <3>2. CASE stage[s] = "init"
      <4>1. stage'[s] = "init" \/ stage'[s] = (IF seeded[s] THEN "join" ELSE "run")
        BY <1>1, <1>6, <3>2 DEF Proceeds
      <4> QED BY <2>1, <3>1, <3>2, <4>1
    <3>3. CASE stage[s] = "join" /\ reply[s].code = "OK"
      BY <2>1, <3>3
    <3> QED BY <1>6, <3>2, <3>3 DEF Proceeds
  <2> QED BY <1>2, <1>3, <2>1, <2>2, <2>3
<1>7. ASSUME NEW s \in Server, Ends(s) PROVE SeedInv'
  <2>1. /\ stage' = [stage EXCEPT ![s] = "off"] /\ seeded' = [seeded EXCEPT ![s] = FALSE]
        /\ \A t \in Server : reply'[t] = reply[t] \/ reply'[t] = NoReply
        /\ UNCHANGED <<log, starts, added, cut>>
    BY <1>7 DEF Ends, exit
  <2>2. stage'[s] = "off" /\ \A t \in Server : t # s => stage'[t] = stage[t] /\ seeded'[t] = seeded[t]
    BY <1>1, <2>1
  <2>3. \A t \in Server : reply'[t].code = "OK" => reply'[t] = reply[t]
    BY <2>1, NoReplyType
  <2> QED BY <1>2, <1>3, <2>1, <2>2, <2>3
<1>8. ASSUME NEW s \in Server, Asks(s) PROVE SeedInv'
  <2>1. UNCHANGED <<log, stage, seeded, starts, added, cut>>
    BY <1>8 DEF Asks, boundVars
  <2>2. CASE UNCHANGED reply
    BY <1>3, <2>1, <2>2 DEF SeedInv
  <2>3. CASE ~UNCHANGED reply
    <3>1. PICK c \in Code : /\ c = "OK" => add_srv_code(s) = "OK"
                            /\ reply' = [reply EXCEPT ![s] = [code |-> c, term |-> elections]]
      BY <1>8, <2>3 DEF Asks
    <3>2. reply'[s].code = c /\ \A t \in Server : t # s => reply'[t] = reply[t]
      BY <1>1, <3>1
    <3>3. c = "OK" => s \notin Named
      <4> SUFFICES ASSUME c = "OK" PROVE s \notin Named
        OBVIOUS
      <4>1. leader # None /\ s \notin saved_config[leader] /\ ~config_changing
        BY <3>1 DEF add_srv_code
      <4>2. \A p \in applied[leader] + 1 .. Len(log) : log[p].kind # "conf"
        BY <4>1 DEF config_changing
      <4>3. \A p \in 1..Len(log) : log[p].servers \subseteq saved_config[leader]
        BY <1>1, <4>1, <4>2, LeaderKnows
      <4> QED BY <4>1, <4>3 DEF Named
    <3>4. stage[s] = "join"
      BY <1>8, <2>3 DEF Asks
    <3>5. ASSUME NEW t \in Server, Serves(t)', t \in Named', ~cut' PROVE <<t, starts'[t]>> \in added'
      <4>1. CASE t = s
        BY <1>3, <2>1, <3>2, <3>3, <3>4, <3>5, <4>1
      <4>2. CASE t # s
        BY <1>3, <2>1, <3>2, <3>5, <4>2 DEF SeedInv
      <4> QED BY <4>1, <4>2
    <3> QED BY <3>5 DEF SeedInv
  <2> QED BY <2>2, <2>3
<1>9. CASE sync_done
  <2>1. PICK S, j : S = saved_config[leader] \cup {srv_to_join} /\ j = srv_to_join
    OBVIOUS
  <2>2. /\ append(Conf(S)) /\ j # None /\ leader # None /\ added' = added \cup {<<j, starts[j]>>}
        /\ UNCHANGED <<stage, seeded, starts, reply, cut>>
    BY <1>9, <2>1 DEF sync_done, procVars, LogInv
  <2>3. PICK e \in Entry : e = Conf(S) /\ e.servers = S
    BY <1>9, <2>1, ConfEntry DEF Conf
  <2>4. /\ Len(log') = Len(log) + 1 /\ log'[Len(log) + 1] = e
        /\ \A p \in 1..Len(log) : log'[p] = log[p]
    BY <1>1, <2>2, <2>3, Appends DEF append
  <2>5. Named' \subseteq Named \cup S
    <3> SUFFICES ASSUME NEW p \in 1..Len(log'), NEW x \in log'[p].servers PROVE x \in Named \cup S
      BY DEF Named
    <3>1. CASE p = Len(log) + 1
      BY <2>3, <2>4, <3>1
    <3>2. CASE p # Len(log) + 1
      <4>1. p \in 1..Len(log)
        BY <1>1, <2>4, <3>2
      <4> QED BY <2>4, <4>1 DEF Named
    <3> QED BY <3>1, <3>2
  <2>6. ~cut => saved_config[leader] \subseteq Named
    BY <2>2, CommittedIsNamed DEF NamedInv
  <2>7. ASSUME NEW t \in Server, Serves(t)', t \in Named', ~cut' PROVE <<t, starts'[t]>> \in added'
    <3>1. t \in Named \/ t = j
      BY <2>1, <2>2, <2>5, <2>6, <2>7
    <3> QED BY <2>2, <2>7, <3>1 DEF SeedInv
  <2> QED BY <2>7 DEF SeedInv
<1>10. ASSUME NEW s \in Server, write(s) PROVE SeedInv'
  <2>1. PICK e : e = App(writes')
    OBVIOUS
  <2>2. e \in Entry /\ e.servers = {}
    BY <1>10, <2>1 DEF write, new_write, EntryInv, App, Entry
  <2>3. append(e) /\ UNCHANGED <<stage, seeded, starts, reply, added, cut>>
    BY <1>10, <2>1 DEF write, procVars, boundVars
  <2>4. /\ Len(log') = Len(log) + 1 /\ log'[Len(log) + 1] = e
        /\ \A p \in 1..Len(log) : log'[p] = log[p]
    BY <1>1, <2>2, <2>3, Appends DEF append
  <2>5. Named' \subseteq Named
    <3> SUFFICES ASSUME NEW p \in 1..Len(log'), NEW x \in log'[p].servers PROVE x \in Named
      BY DEF Named
    <3>1. p \in 1..Len(log)
      BY <1>1, <2>2, <2>4
    <3> QED BY <2>4, <3>1 DEF Named
  <2> QED BY <1>2, <2>3, <2>5
<1>11. ASSUME NEW s \in Server, elect(s) PROVE SeedInv'
  <2>1. PICK n : n = have[s]
    OBVIOUS
  <2>2. /\ n \in Nat /\ n <= Len(log) /\ Len(log') = n /\ \A p \in 1..n : log'[p] = log[p]
        /\ cut' = (cut \/ n < commit) /\ UNCHANGED <<procVars, added>>
    BY <1>11, <2>1, Elected
  <2>3. Named' \subseteq Named
    <3> SUFFICES ASSUME NEW p \in 1..n, NEW x \in log'[p].servers PROVE x \in Named
      BY <2>2 DEF Named
    <3>1. p \in 1..Len(log) /\ log'[p] = log[p]
      BY <1>1, <2>2
    <3> QED BY <3>1 DEF Named
  <2> QED BY <1>2, <2>2, <2>3 DEF procVars
<1>12. ASSUME NEW s \in Server,
              \/ (s # First /\ become_ready(s)) \/ join_cluster_req(s) \/ append_entries_req(s)
              \/ replicate(s) \/ apply(s) \/ write_alone(s)
       PROVE  UNCHANGED <<log, stage, seeded, starts, reply, added, cut>>
  BY <1>12 DEF become_ready, join_cluster_req, append_entries_req, replicate, apply, write_alone,
               procVars, clusterVars, boundVars
<1>13. CASE UNCHANGED <<log, stage, seeded, starts, reply, added, cut>>
  BY <1>2, <1>3, <1>13
<1>14. CASE reset_srv_to_join \/ advance_commit \/ UNCHANGED vars
  BY <1>13, <1>14 DEF reset_srv_to_join, advance_commit, vars, procVars, clusterVars, boundVars
<1> QED BY <1>4, <1>5, <1>6, <1>7, <1>8, <1>9, <1>10, <1>11, <1>12, <1>13, <1>14, ProcessKinds, AskKinds
        DEF Next, Raft
-----------------------------------------------------------------------------
(* Writes and the replicas *)

(* The writes among the first m entries of a log; what a server told its   *)
(* clients on its own since its n-th start.                                *)
WritesIn(l, m) == {l[p].id : p \in {q \in 1..m : l[q].kind = "app"}}
OwnWrites(A, s, n) == {a.id : a \in {b \in A : b.own /\ b.srv = s /\ b.start = n}}

Replicas == ~cut => \A s \in Server :
  Up(s) => spl[s] = WritesIn(log, applied[s]) \cup OwnWrites(acked, s, starts[s])

LEMMA ReplicasMeans == OnlyOwnRemains <=> Replicas
BY DEF OnlyOwnRemains, Replicas, LogWrites, WritesIn, OwnWrites

LEMMA SameWrites ==
  ASSUME NEW k, NEW l, NEW m, \A p \in 1..m : k[p] = l[p]
  PROVE  WritesIn(k, m) = WritesIn(l, m)
BY DEF WritesIn

LEMMA MoreWrites ==
  ASSUME NEW k, NEW l, NEW m \in Nat, NEW n \in Nat, m <= n, \A p \in 1..m : k[p] = l[p]
  PROVE  WritesIn(l, m) \subseteq WritesIn(k, n)
<1> SUFFICES ASSUME NEW p \in 1..m, l[p].kind = "app" PROVE l[p].id \in WritesIn(k, n)
  BY DEF WritesIn
<1>1. p \in 1..n /\ k[p] = l[p]
  OBVIOUS
<1> QED BY <1>1 DEF WritesIn

LEMMA NoWrites == \A l : WritesIn(l, 0) = {}
BY DEF WritesIn

LEMMA ClientStep ==
  ASSUME ProcInv, EntryInv, LogInv, ClientInv, [Next]_vars
  PROVE  ClientInv'
<1>1. /\ log \in Seq(Entry) /\ writes \in Nat /\ starts \in [Server -> Nat]
      /\ acked \subseteq AckRecord /\ waiting \subseteq AckRecord /\ spl \in [Server -> SUBSET Nat]
      /\ \A a \in acked \cup waiting : a.start \in Nat /\ a.srv \in Server
  BY DEF EntryInv, ProcInv, ClientInv, AckRecord
<1>2. ASSUME NEW s \in Server, start(s) PROVE ClientInv'
  <2>1. /\ starts' = [starts EXCEPT ![s] = @ + 1] /\ spl' = [spl EXCEPT ![s] = {}]
        /\ UNCHANGED <<acked, waiting>>
    BY <1>2 DEF start, clientVars
  <2>2. spl' \in [Server -> SUBSET Nat] /\ \A t \in Server : starts[t] <= starts'[t] /\ starts'[t] \in Nat
    BY <1>1, <2>1
  <2>3. \A a \in acked \cup waiting : a.start <= starts'[a.srv]
    BY <1>1, <2>2 DEF ClientInv
  <2> QED BY <2>1, <2>2, <2>3 DEF ClientInv
<1>3. ASSUME NEW s \in Server, Ends(s) PROVE ClientInv'
  BY <1>3 DEF Ends, exit, ClientInv
<1>4. ASSUME NEW s \in Server, apply(s) PROVE ClientInv'
  <2>1. PICK e : e = log[applied[s] + 1]
    OBVIOUS
  <2>2. applied[s] + 1 \in 1..Len(log)
    BY <1>4 DEF apply, LogInv, EntryInv
  <2>3. e.id \in Nat
    <3>1. e \in Entry
      BY <1>1, <2>1, <2>2
    <3> QED BY <3>1 DEF Entry
  <2>4. UNCHANGED starts
    BY <1>4 DEF apply, procVars
  <2>5. \/ UNCHANGED <<spl, acked, waiting>>
        \/ /\ spl' = [spl EXCEPT ![s] = @ \cup {e.id}]
           /\ acked' \subseteq acked \cup waiting /\ waiting' \subseteq waiting
    BY <1>4, <2>1 DEF apply
  <2>6. spl' \in [Server -> SUBSET Nat]
    BY <1>1, <2>3, <2>5
  <2>7. acked' \subseteq acked \cup waiting /\ waiting' \subseteq waiting
    BY <2>5
  <2> QED BY <1>1, <2>4, <2>6, <2>7 DEF ClientInv
<1>5. ASSUME NEW s \in Server, write_alone(s) PROVE ClientInv'
  <2>1. PICK w, a : w = writes' /\ a = Ack(w, s, TRUE)
    OBVIOUS
  <2> w \in Nat
    BY <1>1, <1>5, <2>1 DEF write_alone, new_write
  <2>2. a \in AckRecord /\ a.srv = s /\ a.start = starts[s]
    BY <2>1 DEF Ack, AckRecord, ProcInv
  <2>3. /\ spl' = [spl EXCEPT ![s] = @ \cup {w}] /\ acked' = acked \cup {a}
        /\ UNCHANGED <<waiting, starts>>
    BY <1>5, <2>1 DEF write_alone, procVars
  <2>4. spl' \in [Server -> SUBSET Nat]
    BY <1>1, <2>2, <2>3
  <2>5. starts[s] <= starts[s]
    BY <1>1
  <2> QED BY <1>1, <2>2, <2>3, <2>4, <2>5 DEF ClientInv
<1>6. ASSUME NEW s \in Server, write(s) PROVE ClientInv'
  <2>1. PICK w, a : w = writes' /\ a = Ack(w, s, FALSE)
    OBVIOUS
  <2> w \in Nat
    BY <1>1, <1>6, <2>1 DEF write, new_write
  <2>2. a \in AckRecord /\ a.srv = s /\ a.start = starts[s] /\ ~a.own
    BY <2>1 DEF Ack, AckRecord, ProcInv
  <2>3. waiting' = waiting \cup {a} /\ UNCHANGED <<acked, starts, spl>>
    BY <1>6, <2>1 DEF write, procVars
  <2>4. starts[s] <= starts[s]
    BY <1>1
  <2> QED BY <1>1, <2>2, <2>3, <2>4 DEF ClientInv
<1>7. ASSUME NEW s \in Server,
             \/ become_ready(s) \/ Proceeds(s) \/ Asks(s) \/ join_cluster_req(s)
             \/ append_entries_req(s) \/ replicate(s) \/ elect(s)
      PROVE  UNCHANGED <<acked, waiting, spl, starts>>
  BY <1>7 DEF become_ready, Proceeds, Asks, join_cluster_req, append_entries_req, replicate, elect,
              procVars, replicaVars, clientVars
<1>8. CASE UNCHANGED <<acked, waiting, spl, starts>>
  BY <1>8 DEF ClientInv
<1>9. CASE sync_done \/ reset_srv_to_join \/ advance_commit \/ UNCHANGED vars
  BY <1>8, <1>9 DEF sync_done, reset_srv_to_join, advance_commit, vars, procVars, replicaVars, clientVars
<1> QED BY <1>2, <1>3, <1>4, <1>5, <1>6, <1>7, <1>8, <1>9, ProcessKinds, AskKinds DEF Next, Raft

LEMMA ReplicasStep ==
  ASSUME ProcInv, EntryInv, LogInv, FirstInv, ClientInv, Replicas, [Next]_vars
  PROVE  Replicas'
<1> USE MembershipAssumption
<1>1. /\ log \in Seq(Entry) /\ Len(log) \in Nat /\ commit \in Nat /\ starts \in [Server -> Nat]
      /\ stage \in [Server -> {"off", "init", "join", "run"}] /\ joined \in [Server -> BOOLEAN]
      /\ applied \in [Server -> Nat] /\ spl \in [Server -> SUBSET Nat] /\ writes \in Nat
      /\ \A s \in Server : applied[s] <= Len(log) /\ applied[s] <= commit
      /\ \A s \in Server : ~joined[s] => applied[s] = 0
      /\ \A s \in Server : joined[s] => Up(s)
  BY DEF EntryInv, ProcInv, LogInv, ClientInv
<1>2. ASSUME ~cut' => ~cut, UNCHANGED acked,
             \A s \in Server : Up(s)' => /\ Up(s) /\ spl'[s] = spl[s] /\ starts'[s] = starts[s]
                                         /\ WritesIn(log', applied'[s]) = WritesIn(log, applied[s])
      PROVE  Replicas'
  BY <1>2 DEF Replicas
<1>3. ASSUME NEW s \in Server, start(s) PROVE Replicas'
  <2>1. /\ stage[s] = "off" /\ stage' = [stage EXCEPT ![s] = "init"]
        /\ starts' = [starts EXCEPT ![s] = @ + 1] /\ spl' = [spl EXCEPT ![s] = {}]
        /\ UNCHANGED <<log, applied, acked, cut>>
    BY <1>3 DEF start, clusterVars, clientVars
  <2>2. /\ spl'[s] = {} /\ starts'[s] = starts[s] + 1
        /\ \A t \in Server : t # s => stage'[t] = stage[t] /\ spl'[t] = spl[t] /\ starts'[t] = starts[t]
    BY <1>1, <2>1
  <2>3. applied[s] = 0
    BY <1>1, <2>1 DEF Up
  <2>4. OwnWrites(acked, s, starts[s] + 1) = {}
    <3>1. \A b \in acked : b.srv = s => b.start # starts[s] + 1
      BY <1>1 DEF ClientInv, AckRecord
    <3> QED BY <3>1 DEF OwnWrites
  <2>5. ASSUME NEW t \in Server, ~cut', Up(t)'
        PROVE  spl'[t] = WritesIn(log', applied'[t]) \cup OwnWrites(acked', t, starts'[t])
    <3>1. CASE t = s
      BY <2>1, <2>2, <2>3, <2>4, <3>1, NoWrites
    <3>2. CASE t # s
      BY <2>1, <2>2, <2>5, <3>2 DEF Replicas, Up
    <3> QED BY <3>1, <3>2
  <2> QED BY <2>5 DEF Replicas
<1>4. CASE become_ready(First)
  <2>1. /\ stage[First] = "init" /\ ~ready[First] /\ log' = <<Conf({First})>>
        /\ applied' = [applied EXCEPT ![First] = 1] /\ UNCHANGED <<stage, starts, spl, acked, cut>>
    BY <1>4 DEF become_ready, clientVars, boundVars
  <2>2. Up(First) /\ ~joined[First]
    BY <2>1 DEF ProcInv, Up
  <2>3. Len(log) = 0
    BY <1>1, <2>2 DEF FirstInv
  <2>4. \A s \in Server : applied[s] = 0
    BY <1>1, <2>3 DEF FirstInv
  <2>5. applied'[First] = 1 /\ \A s \in Server : s # First => applied'[s] = 0
    BY <1>1, <2>1, <2>4
  <2>6. WritesIn(log', 1) = {}
    <3>1. log'[1].kind = "conf"
      BY <2>1 DEF Conf
    <3> QED BY <3>1 DEF WritesIn
  <2>7. \A s \in Server : WritesIn(log', applied'[s]) = WritesIn(log, applied[s])
    BY <2>4, <2>5, <2>6, NoWrites
  <2> QED BY <1>2, <2>1, <2>7 DEF Up
<1>5. ASSUME NEW s \in Server, Ends(s) PROVE Replicas'
  <2>1. /\ stage' = [stage EXCEPT ![s] = "off"] /\ applied' = [applied EXCEPT ![s] = 0]
        /\ UNCHANGED <<log, starts, spl, acked, cut>>
    BY <1>5 DEF Ends, exit
  <2>2. stage'[s] = "off" /\ \A t \in Server : t # s => stage'[t] = stage[t] /\ applied'[t] = applied[t]
    BY <1>1, <2>1
  <2> QED BY <1>2, <2>1, <2>2 DEF Up
<1>6. ASSUME NEW s \in Server, join_cluster_req(s) \/ append_entries_req(s) PROVE Replicas'
  <2>1. /\ ~joined[s] /\ applied' = [applied EXCEPT ![s] = 0]
        /\ UNCHANGED <<log, stage, starts, spl, acked, cut>>
    BY <1>6 DEF join_cluster_req, append_entries_req, follow, clusterVars, clientVars, boundVars
  <2>2. applied' = applied
    BY <1>1, <2>1
  <2> QED BY <1>2, <2>1, <2>2 DEF Up
<1>7. ASSUME NEW e \in Entry, append(e), UNCHANGED <<stage, starts, applied, spl, acked, cut>>
      PROVE  Replicas'
  <2>1. \A p \in 1..Len(log) : log'[p] = log[p]
    BY <1>1, <1>7, Appends DEF append
  <2>2. ASSUME NEW s \in Server PROVE WritesIn(log', applied[s]) = WritesIn(log, applied[s])
    <3>1. \A p \in 1..applied[s] : log'[p] = log[p]
      BY <1>1, <2>1
    <3> QED BY <3>1, SameWrites
  <2> QED BY <1>2, <1>7, <2>2 DEF Up
<1>8. CASE sync_done
  <2>1. PICK e \in Entry : append(e)
    BY <1>8, ConfEntry DEF sync_done
  <2> QED BY <1>7, <1>8, <2>1 DEF sync_done, procVars, clientVars
<1>9. ASSUME NEW s \in Server, write(s) PROVE Replicas'
  <2>1. PICK n : n = writes'
    OBVIOUS
  <2>2. App(n) \in Entry
    BY <1>9, <2>1 DEF write, new_write, EntryInv, App, Entry
  <2>3. append(App(n)) /\ UNCHANGED <<stage, starts, applied, spl, acked, cut>>
    BY <1>9, <2>1 DEF write, procVars, boundVars
  <2> QED BY <1>7, <2>2, <2>3
<1>10. ASSUME NEW s \in Server, elect(s) PROVE Replicas'
  <2> SUFFICES ASSUME ~cut' PROVE Replicas'
    BY DEF Replicas
  <2>1. PICK n : n = have[s]
    OBVIOUS
  <2>2. /\ n \in Nat /\ \A p \in 1..n : log'[p] = log[p]
        /\ \A t \in Server : applied'[t] = IF applied[t] <= n THEN applied[t] ELSE n
        /\ cut' = (cut \/ n < commit) /\ UNCHANGED <<procVars, spl, clientVars>>
    BY <1>10, <2>1, Elected
  <2>3. ~cut /\ commit <= n
    <3>1. commit \in Nat /\ n \in Nat
      BY <1>1, <2>2
    <3>2. ~cut /\ ~(n < commit)
      BY <2>2, Zenon
    <3> QED BY <3>1, <3>2
  <2>4. ASSUME NEW t \in Server
        PROVE  applied'[t] = applied[t] /\ WritesIn(log', applied[t]) = WritesIn(log, applied[t])
    <3>1. applied[t] <= n /\ applied[t] \in Nat
      BY <1>1, <2>2, <2>3
    <3>2. \A p \in 1..applied[t] : log'[p] = log[p]
      BY <2>2, <3>1
    <3> QED BY <2>2, <3>1, <3>2, SameWrites
  <2> QED BY <1>2, <2>2, <2>3, <2>4 DEF procVars, clientVars, Up
<1>11. ASSUME NEW s \in Server, apply(s) PROVE Replicas'
  <2>1. PICK m, e : m \in Nat /\ m = applied[s] /\ e = log[m + 1]
    BY <1>1
  <2>2. /\ joined[s] /\ applied' = [applied EXCEPT ![s] = m + 1]
        /\ UNCHANGED <<log, stage, starts, cut>>
    BY <1>11, <2>1 DEF apply, procVars, clusterVars, boundVars
  <2>3. \/ /\ e.kind = "app" /\ spl' = [spl EXCEPT ![s] = @ \cup {e.id}]
           /\ acked' = acked \cup {a \in waiting : a.id = e.id /\ s = leader}
        \/ e.kind = "conf" /\ UNCHANGED <<spl, acked>>
    BY <1>11, <2>1 DEF apply
  <2>4. WritesIn(log, m + 1) = WritesIn(log, m) \cup (IF e.kind = "app" THEN {e.id} ELSE {})
    <3>1. \A q \in 1 .. m + 1 : q = m + 1 \/ q \in 1..m
      BY <2>1
    <3>2. m + 1 \in 1 .. m + 1 /\ \A q \in 1..m : q \in 1 .. m + 1
      BY <2>1
    <3> QED BY <2>1, <3>1, <3>2 DEF WritesIn
  <2>5. \A t \in Server : OwnWrites(acked', t, starts[t]) = OwnWrites(acked, t, starts[t])
    <3>1. acked \subseteq acked' /\ \A a \in acked' : a \in acked \/ ~a.own
      BY <2>3 DEF ClientInv
    <3> QED BY <3>1 DEF OwnWrites
  <2>6. ASSUME NEW t \in Server, ~cut', Up(t)'
        PROVE  spl'[t] = WritesIn(log', applied'[t]) \cup OwnWrites(acked', t, starts'[t])
    <3>1. spl[t] = WritesIn(log, applied[t]) \cup OwnWrites(acked, t, starts[t])
      BY <2>2, <2>6 DEF Replicas, Up
    <3>2. CASE t = s
      <4>1. applied'[s] = m + 1 /\ spl'[s] = spl[s] \cup (IF e.kind = "app" THEN {e.id} ELSE {})
        BY <1>1, <2>2, <2>3
      <4> QED BY <2>1, <2>2, <2>4, <2>5, <3>1, <3>2, <4>1
    <3>3. CASE t # s
      <4>1. applied'[t] = applied[t] /\ spl'[t] = spl[t]
        BY <1>1, <2>2, <2>3, <3>3
      <4> QED BY <2>2, <2>5, <3>1, <4>1
    <3> QED BY <3>2, <3>3
  <2> QED BY <2>6 DEF Replicas
<1>12. ASSUME NEW s \in Server, write_alone(s) PROVE Replicas'
  <2>1. PICK w, a : w = writes' /\ a = Ack(w, s, TRUE)
    OBVIOUS
  <2> w \in Nat
    BY <1>1, <1>12, <2>1 DEF write_alone, new_write
  <2>2. a.id = w /\ a.own /\ a.srv = s /\ a.start = starts[s]
    BY <2>1 DEF Ack, AckRecord, ProcInv
  <2>3. /\ spl' = [spl EXCEPT ![s] = @ \cup {w}] /\ acked' = acked \cup {a}
        /\ UNCHANGED <<log, applied, stage, starts, cut>>
    BY <1>12, <2>1 DEF write_alone, procVars, clusterVars, boundVars
  <2>4. ASSUME NEW t \in Server, ~cut', Up(t)'
        PROVE  spl'[t] = WritesIn(log', applied'[t]) \cup OwnWrites(acked', t, starts'[t])
    <3>1. spl[t] = WritesIn(log, applied[t]) \cup OwnWrites(acked, t, starts[t])
      BY <2>3, <2>4 DEF Replicas, Up
    <3>2. CASE t = s
      <4>1. spl'[s] = spl[s] \cup {w}
        BY <1>1, <2>3
      <4>2. OwnWrites(acked', s, starts[s]) = OwnWrites(acked, s, starts[s]) \cup {w}
        BY <2>2, <2>3 DEF OwnWrites
      <4> QED BY <2>3, <3>1, <3>2, <4>1, <4>2
    <3>3. CASE t # s
      <4>1. spl'[t] = spl[t]
        BY <1>1, <2>3, <3>3
      <4>2. OwnWrites(acked', t, starts[t]) = OwnWrites(acked, t, starts[t])
        BY <2>2, <2>3, <3>3 DEF OwnWrites
      <4> QED BY <2>3, <3>1, <4>1, <4>2
    <3> QED BY <3>2, <3>3
  <2> QED BY <2>4 DEF Replicas
<1>13. ASSUME NEW s \in Server, Proceeds(s) PROVE Replicas'
  <2>1. UNCHANGED <<log, applied, starts, spl, acked, cut>> /\ \A t \in Server : Up(t)' => Up(t)
    BY <1>1, <1>13 DEF Proceeds, replicaVars, clusterVars, clientVars, boundVars, Up
  <2> QED BY <1>2, <2>1
<1>14. ASSUME NEW s \in Server, (s # First /\ become_ready(s)) \/ Asks(s) \/ replicate(s)
       PROVE  UNCHANGED <<log, applied, stage, starts, spl, acked, cut>>
  BY <1>14 DEF become_ready, Asks, replicate, procVars, replicaVars, clusterVars, clientVars, boundVars
<1>15. CASE UNCHANGED <<log, applied, stage, starts, spl, acked, cut>>
  BY <1>2, <1>15 DEF Up
<1>16. CASE reset_srv_to_join \/ advance_commit \/ UNCHANGED vars
  BY <1>15, <1>16 DEF reset_srv_to_join, advance_commit, vars, procVars, replicaVars, clusterVars,
                      clientVars, boundVars
<1> QED BY <1>3, <1>4, <1>5, <1>6, <1>8, <1>9, <1>10, <1>11, <1>12, <1>13, <1>14, <1>15, <1>16, ProcessKinds, AskKinds
        DEF Next, Raft

Kept == ~cut => \A a \in acked : ~a.own => a.id \in WritesIn(log, commit)

LEMMA KeptMeans == KeptUnlessCut <=> Kept
BY DEF KeptUnlessCut, Kept, LogWrites, WritesIn

LEMMA KeptStep ==
  ASSUME ProcInv, EntryInv, LogInv, FirstInv, ClientInv, Kept, [Next]_vars
  PROVE  Kept'
<1> USE MembershipAssumption
<1>1. /\ log \in Seq(Entry) /\ Len(log) \in Nat /\ commit \in Nat /\ commit <= Len(log) /\ writes \in Nat
  BY DEF EntryInv, LogInv
<1>2. ASSUME ~cut' => ~cut, \A a \in acked' : a \in acked \/ a.own,
             commit' \in Nat, commit <= commit', \A p \in 1..commit : log'[p] = log[p]
      PROVE  Kept'
  <2>1. WritesIn(log, commit) \subseteq WritesIn(log', commit')
    BY <1>1, <1>2, MoreWrites
  <2> QED BY <1>2, <2>1 DEF Kept
<1>3. CASE become_ready(First)
  <2>1. /\ stage[First] = "init" /\ ~ready[First] /\ log' = <<Conf({First})>> /\ commit' = 1
        /\ UNCHANGED <<acked, cut>>
    BY <1>3 DEF become_ready, clientVars, boundVars
  <2>2. Up(First) /\ ~joined[First]
    BY <2>1 DEF ProcInv, Up
  <2>3. commit = 0
    BY <1>1, <2>2 DEF FirstInv
  <2> QED BY <1>2, <2>1, <2>3
<1>4. ASSUME NEW e \in Entry, append(e), UNCHANGED <<commit, acked, cut>> PROVE Kept'
  <2>1. \A p \in 1..Len(log) : log'[p] = log[p]
    BY <1>1, <1>4, Appends DEF append
  <2> QED BY <1>1, <1>2, <1>4, <2>1
<1>5. CASE sync_done
  <2>1. PICK e \in Entry : append(e)
    BY <1>5, ConfEntry DEF sync_done
  <2> QED BY <1>4, <1>5, <2>1 DEF sync_done, clientVars
<1>6. ASSUME NEW s \in Server, write(s) PROVE Kept'
  <2>1. PICK n : n = writes'
    OBVIOUS
  <2>2. App(n) \in Entry
    BY <1>6, <2>1 DEF write, new_write, EntryInv, App, Entry
  <2>3. append(App(n)) /\ UNCHANGED <<commit, acked, cut>>
    BY <1>6, <2>1 DEF write, boundVars
  <2> QED BY <1>4, <2>2, <2>3
<1>7. CASE advance_commit
  <2>1. commit' \in commit + 1 .. Len(log) /\ UNCHANGED <<log, acked, cut>>
    BY <1>7 DEF advance_commit, clientVars, boundVars
  <2> QED BY <1>1, <1>2, <2>1
<1>8. ASSUME NEW s \in Server, elect(s) PROVE Kept'
  <2> SUFFICES ASSUME ~cut' PROVE Kept'
    BY DEF Kept
  <2>1. PICK n : n = have[s]
    OBVIOUS
  <2>2. /\ n \in Nat /\ \A p \in 1..n : log'[p] = log[p]
        /\ commit' = (IF commit <= n THEN commit ELSE n)
        /\ cut' = (cut \/ n < commit) /\ UNCHANGED clientVars
    BY <1>8, <2>1, Elected
  <2>3. ~cut /\ ~(n < commit)
    BY <2>2, Zenon
  <2>4. commit' = commit /\ \A p \in 1..commit : log'[p] = log[p]
    BY <1>1, <2>2, <2>3
  <2> QED BY <1>1, <1>2, <2>2, <2>3, <2>4 DEF clientVars
<1>9. ASSUME NEW s \in Server, apply(s) PROVE Kept'
  <2>1. PICK p, e : p = applied[s] + 1 /\ e = log[p]
    OBVIOUS
  <2>2. applied[s] \in Nat /\ applied[s] < commit
    BY <1>9 DEF apply, LogInv
  <2>3. p \in 1..commit
    BY <1>1, <2>1, <2>2
  <2>4. UNCHANGED <<log, commit, cut>>
    BY <1>9 DEF apply, clusterVars, boundVars
  <2>5. \/ e.kind = "app" /\ \A a \in acked' : a \in acked \/ a.id = e.id
        \/ UNCHANGED acked
    BY <1>9, <2>1 DEF apply
  <2>6. e.kind = "app" => e.id \in WritesIn(log, commit)
    BY <2>1, <2>3 DEF WritesIn
  <2> QED BY <2>4, <2>5, <2>6 DEF Kept
<1>10. ASSUME NEW s \in Server, write_alone(s) PROVE Kept'
  <2>1. PICK w, a : w = writes' /\ a = Ack(w, s, TRUE)
    OBVIOUS
  <2>2. a.own
    BY <2>1 DEF Ack
  <2>3. acked' = acked \cup {a} /\ UNCHANGED <<log, commit, cut>>
    BY <1>10, <2>1 DEF write_alone, clusterVars, boundVars
  <2> QED BY <1>1, <1>2, <2>2, <2>3
<1>11. ASSUME NEW s \in Server,
              \/ start(s) \/ (s # First /\ become_ready(s)) \/ Proceeds(s) \/ Ends(s) \/ Asks(s)
              \/ join_cluster_req(s) \/ append_entries_req(s) \/ replicate(s)
       PROVE  UNCHANGED <<log, commit, acked, cut>>
  BY <1>11 DEF start, become_ready, Proceeds, Ends, exit, Asks, join_cluster_req, append_entries_req,
               replicate, clusterVars, clientVars, boundVars
<1>12. CASE UNCHANGED <<log, commit, acked, cut>>
  BY <1>1, <1>2, <1>12
<1>13. CASE reset_srv_to_join \/ UNCHANGED vars
  BY <1>12, <1>13 DEF reset_srv_to_join, vars, clusterVars, clientVars, boundVars
<1>14. ASSUME NEW s \in Server, start(s) \/ become_ready(s) \/ Process(s) \/ crash(s) \/ Asks(s) \/ Raft(s)
       PROVE  Kept'
  BY <1>3, <1>9, <1>11, <1>12, <1>14, ProcessKinds, AskKinds DEF Raft
<1> QED BY <1>5, <1>6, <1>7, <1>8, <1>10, <1>13, <1>14, AskKinds DEF Next
-----------------------------------------------------------------------------
(* The invariant, and what follows from it *)

MemberInv == ProcInv /\ EntryInv /\ LogInv /\ FirstInv /\ ConfInv

LEMMA MemberInit == Init => MemberInv
<1> SUFFICES ASSUME Init PROVE MemberInv
  OBVIOUS
<1> USE MembershipAssumption
<1>1. ProcInv
  BY NoReplyType DEF Init, ProcInv, Up
<1>2. EntryInv /\ LogInv
  BY DEF Init, EntryInv, LogInv
<1>3. FirstInv /\ ConfInv
  <2>1. Len(log) = 0 /\ srv_to_join = None /\ \A s \in Server : ~Up(s) /\ ~joined[s] /\ applied[s] = 0
    BY DEF Init, Up
  <2> QED BY <2>1 DEF FirstInv, ConfInv
<1> QED BY <1>1, <1>2, <1>3 DEF MemberInv

LEMMA MemberCorrect == Spec => []MemberInv
<1>1. MemberInv /\ [Next]_vars => MemberInv'
  BY ProcStep, EntryStep, LogStep, FirstStep, ConfStep DEF MemberInv
<1> QED BY <1>1, MemberInit, PTL DEF Spec

(* Whatever is started, crashes, joins, leads or writes: the state keeps   *)
(* its types, a port is opened by an initialized replica only, nobody has  *)
(* applied more than it holds, and a leader holds the whole log.           *)
THEOREM MembershipTypeCorrect == Spec => []MembershipTypeOK
<1>1. MemberInv => MembershipTypeOK
  <2> SUFFICES ASSUME MemberInv PROVE MembershipTypeOK
    OBVIOUS
  <2> USE MembershipAssumption DEF MemberInv
  <2>1. /\ stage \in [Server -> {"off", "init", "join", "run"}]
        /\ seeded \in [Server -> BOOLEAN] /\ ready \in [Server -> BOOLEAN]
        /\ tries \in [Server -> 0 .. Retries] /\ joined \in [Server -> BOOLEAN]
    BY DEF ProcInv
  <2>2. starts \in [Server -> 0 .. MaxRestarts + 1]
    <3>1. \A s \in Server : starts[s] \in 0 .. MaxRestarts + 1
      BY DEF ProcInv
    <3> QED BY <3>1 DEF ProcInv
  <2>3. \A s \in Server : stage[s] \in {"join", "run"} => ready[s] /\ saved_config[s] # {}
    BY DEF ProcInv, ConfInv, Up
  <2>4. saved_config \in [Server -> SUBSET Server] /\ Len(log) \in Nat
    BY DEF EntryInv
  <2>5. /\ \A s \in Server : applied[s] <= have[s] /\ have[s] <= Len(log)
        /\ commit \in 0 .. Len(log)
        /\ leader # None => joined[leader] /\ have[leader] = Len(log)
        /\ srv_to_join # None => leader # None
    BY <2>4 DEF LogInv
  <2>6. forwarded \subseteq Server \X Server
    BY DEF ProcInv
  <2> QED BY <2>1, <2>2, <2>3, <2>4, <2>5, <2>6 DEF MembershipTypeOK
<1> QED BY <1>1, MemberCorrect, PTL

(* A member that comes back with its seed is refused and ends; a seeded    *)
(* server that serves clients as a member was added since its last start.  *)
THEOREM SeededCorrect == Spec => []SeededServesOnce
<1>1. Init => NamedInv /\ SeedInv
  <2> SUFFICES ASSUME Init PROVE NamedInv /\ SeedInv
    OBVIOUS
  <2>1. leader = None /\ \A s \in Server : ~joined[s] /\ stage[s] = "off"
    BY DEF Init
  <2> QED BY <2>1 DEF NamedInv, SeedInv
<1>2. MemberInv /\ NamedInv /\ SeedInv /\ [Next]_vars => NamedInv' /\ SeedInv'
  BY NamedStep, SeedStep DEF MemberInv
<1>3. MemberInv /\ NamedInv /\ SeedInv => SeededServesOnce
  BY CommittedIsNamed DEF MemberInv, NamedInv, SeedInv, SeededServesOnce
<1> QED BY <1>1, <1>2, <1>3, MemberCorrect, PTL DEF Spec

(* A replica holds what it has applied and, besides, only the writes it    *)
(* acknowledged alone since it was started.                                *)
THEOREM OnlyOwnCorrect == Spec => []OnlyOwnRemains
<1>1. Init => ClientInv /\ Replicas
  BY DEF Init, ClientInv, Replicas, Up
<1>2. MemberInv /\ ClientInv /\ Replicas /\ [Next]_vars => ClientInv' /\ Replicas'
  BY ClientStep, ReplicasStep DEF MemberInv
<1>3. Replicas => OnlyOwnRemains
  BY ReplicasMeans
<1> QED BY <1>1, <1>2, <1>3, MemberCorrect, PTL DEF Spec

(* A write acknowledged by a server of the cluster stays in the committed  *)
(* log, for any number of servers, as long as no election cuts committed   *)
(* entries off: additions, crashes and restarts alone lose none.           *)
THEOREM KeptCorrect == Spec => []KeptUnlessCut
<1>1. Init => ClientInv /\ Kept
  BY DEF Init, ClientInv, Kept
<1>2. MemberInv /\ ClientInv /\ Kept /\ [Next]_vars => ClientInv' /\ Kept'
  BY ClientStep, KeptStep DEF MemberInv
<1>3. Kept => KeptUnlessCut
  BY KeptMeans
<1> QED BY <1>1, <1>2, <1>3, MemberCorrect, PTL DEF Spec

-----------------------------------------------------------------------------
(* Elections keep what was committed *)

(* A member that is up follows the cluster, since none was started again,  *)
(* and who has applied something knows the configuration it applied last.  *)
AliveInv ==
  /\ \A v \in Named : Up(v) => joined[v]
  /\ joined[First] => applied[First] > 0
  /\ \A s \in Server : joined[s] /\ applied[s] > 0 =>
       \E p \in 1..applied[s] : log[p].kind = "conf" /\ log[p].servers = saved_config[s]
  /\ leader # None => applied[leader] > 0 /\ leader \in saved_config[leader]

(* While First knows of no other member it leads, and no other server has  *)
(* got an entry that names one.                                            *)
AloneInv ==
  joined[First] /\ saved_config[First] = {First} =>
    /\ leader = First
    /\ \A s \in Server : s # First => /\ joined[s] => saved_config[s] = {First}
                                      /\ \A p \in 1..have[s] : log[p].servers \subseteq {First}
    /\ \A p \in 1..Len(log) : \E x \in Server : log[p].servers \subseteq {First, x}

Holders(C) == {v \in C : joined[v] => have[v] >= commit}

(* What is committed is held by a majority of a committed configuration,   *)
(* but for the members that are gone.  First alone was enough only until   *)
(* a second configuration was committed.                                   *)
QuorumInv ==
  Len(log) > 0 =>
    \E p \in 1..commit :
      /\ log[p].kind = "conf" /\ IsMajority(Holders(log[p].servers), log[p].servers)
      /\ log[p].servers = {First} =>
           \A q \in 1..commit : \E x \in Server : log[q].servers \subseteq {First, x}

KeepsInv == ~forgot => ~cut /\ AliveInv /\ AloneInv /\ QuorumInv

LEMMA MoreIsMajority ==
  ASSUME IsFiniteSet(Server), NEW C \in SUBSET Server, NEW A, NEW B, A \subseteq B, B \subseteq C, IsMajority(A, C)
  PROVE  IsMajority(B, C)
<1>1. IsFiniteSet(C) /\ Cardinality(C) \in Nat
  BY FS_Subset, FS_CardinalityType
<1>2. IsFiniteSet(B) /\ Cardinality(B) \in Nat
  BY <1>1, FS_Subset, FS_CardinalityType
<1>3. Cardinality(A) \in Nat /\ Cardinality(A) <= Cardinality(B)
  BY <1>2, FS_Subset, FS_CardinalityType
<1> QED BY <1>1, <1>2, <1>3 DEF IsMajority

(* Of four servers, majorities of two configurations meet if one of the    *)
(* configurations contains the other, unless one is a single server.       *)
LEMMA MajoritiesMeet ==
  ASSUME IsFiniteSet(Server), Cardinality(Server) <= 4,
         NEW C \in SUBSET Server, NEW D \in SUBSET Server, C \subseteq D \/ D \subseteq C,
         Cardinality(C) >= 2, Cardinality(D) >= 2,
         NEW A \in SUBSET C, NEW B \in SUBSET D, IsMajority(A, C), IsMajority(B, D)
  PROVE  A \cap B # {}
<1> SUFFICES ASSUME A \cap B = {} PROVE FALSE
  OBVIOUS
<1>1. /\ IsFiniteSet(C) /\ IsFiniteSet(D) /\ Cardinality(Server) \in Nat
      /\ Cardinality(C) \in Nat /\ Cardinality(D) \in Nat
      /\ Cardinality(C) <= Cardinality(Server) /\ Cardinality(D) <= Cardinality(Server)
  BY FS_Subset, FS_CardinalityType
<1>2. IsFiniteSet(A) /\ IsFiniteSet(B) /\ Cardinality(A) \in Nat /\ Cardinality(B) \in Nat
  BY <1>1, FS_Subset, FS_CardinalityType
<1>3. Cardinality(A \cup B) = Cardinality(A) + Cardinality(B)
  <2>1. Cardinality(A \cap B) = 0
    BY FS_EmptySet
  <2>2. Cardinality(A \cup B) = Cardinality(A) + Cardinality(B) - Cardinality(A \cap B)
    BY <1>2, FS_Union
  <2> QED BY <1>2, <2>1, <2>2
<1>4. Cardinality(A \cup B) <= Cardinality(C) \/ Cardinality(A \cup B) <= Cardinality(D)
  <2>1. CASE C \subseteq D
    <3>1. A \cup B \in SUBSET D
      BY <2>1
    <3> QED BY <1>1, <3>1, FS_Subset
  <2>2. CASE D \subseteq C
    <3>1. A \cup B \in SUBSET C
      BY <2>2
    <3> QED BY <1>1, <3>1, FS_Subset
  <2> QED BY <2>1, <2>2
<1>5. 2 * Cardinality(A) > Cardinality(C) /\ 2 * Cardinality(B) > Cardinality(D)
  BY DEF IsMajority
<1> QED BY <1>1, <1>2, <1>3, <1>4, <1>5

(* The configurations in the log: all of them have First. *)
LEMMA ConfsNested ==
  ASSUME MemberInv, NEW p \in 1..Len(log), log[p].kind = "conf"
  PROVE  /\ First \in log[p].servers /\ log[p].servers \in SUBSET Server
         /\ log[p].servers # {First} /\ IsFiniteSet(Server) => Cardinality(log[p].servers) >= 2
<1>1. log \in Seq(Entry) /\ Len(log) \in Nat
  BY DEF MemberInv, EntryInv
<1>2. log[p].servers \in SUBSET Server
  <2>1. log[p] \in Entry
    BY <1>1
  <2> QED BY <2>1 DEF Entry
<1>3. First \in log[p].servers
  <2>1. 1 \in 1..Len(log) /\ 1 <= p /\ log[1] = Conf({First})
    BY <1>1 DEF MemberInv, FirstInv
  <2>2. log[1].servers = {First}
    BY <2>1 DEF Conf
  <2>3. log[1].servers \subseteq log[p].servers
    BY <2>1 DEF MemberInv, ConfInv
  <2> QED BY <2>2, <2>3
<1>4. ASSUME log[p].servers # {First}, IsFiniteSet(Server) PROVE Cardinality(log[p].servers) >= 2
  <2>1. PICK x \in log[p].servers : x # First
    BY <1>3, <1>4
  <2>2. IsFiniteSet(log[p].servers) /\ Cardinality(log[p].servers) \in Nat
    BY <1>2, <1>4, FS_Subset, FS_CardinalityType
  <2>3. Cardinality({First}) = 1 /\ IsFiniteSet({First})
    BY FS_Singleton
  <2>4. Cardinality({First} \cup {x}) = 2
    BY <2>1, <2>3, FS_AddElement
  <2>5. {First} \cup {x} \in SUBSET log[p].servers
    BY <1>3, <2>1
  <2> QED BY <2>2, <2>4, <2>5, FS_Subset
<1> QED BY <1>2, <1>3, <1>4

LEMMA PairMajority ==
  ASSUME NEW x, NEW D, D \subseteq {First, x}, Cardinality(D) >= 2,
         NEW V \in SUBSET D, IsMajority(V, D)
  PROVE  First \in V
<1>1. IsFiniteSet({First}) /\ Cardinality({First}) = 1
  BY FS_Singleton
<1>2. IsFiniteSet({x}) /\ Cardinality({x}) = 1
  BY FS_Singleton
<1> SUFFICES ASSUME First \notin V PROVE FALSE
  OBVIOUS
<1>3. V \in SUBSET {x}
  OBVIOUS
<1>4. Cardinality(V) <= 1 /\ Cardinality(V) \in Nat
  BY <1>2, <1>3, FS_Subset, FS_CardinalityType
<1>5. IsFiniteSet({First} \cup {x})
  BY <1>1, FS_AddElement
<1>6. Cardinality(D) \in Nat
  <2>1. D \in SUBSET ({First} \cup {x})
    OBVIOUS
  <2> QED BY <1>5, <2>1, FS_Subset, FS_CardinalityType
<1> QED BY <1>4, <1>6 DEF IsMajority

(* Who wins an election holds all that is committed. *)
LEMMA ElectKeeps ==
  ASSUME IsFiniteSet(Server), Cardinality(Server) <= 4,
         MemberInv, AliveInv, AloneInv, QuorumInv, NEW s \in Server, elect(s)
  PROVE  commit <= have[s]
<1>1. /\ joined[s] /\ s # leader /\ s \in saved_config[s] /\ (saved_config[s] # {s} \/ s = First)
      /\ IsMajority({v \in saved_config[s] : joined[v] /\ have[v] <= have[s]}, saved_config[s])
  BY DEF elect
<1>2. /\ commit \in Nat /\ have \in [Server -> Nat] /\ applied \in [Server -> Nat] /\ Len(log) \in Nat
      /\ commit <= Len(log) /\ applied[s] <= commit /\ have[s] <= Len(log) /\ applied[s] <= have[s]
  BY DEF MemberInv, LogInv, EntryInv
<1>3. applied[s] > 0
  BY <1>1 DEF MemberInv, ConfInv
<1>4. PICK d \in 1..applied[s] : log[d].kind = "conf" /\ log[d].servers = saved_config[s]
  BY <1>1, <1>3 DEF AliveInv
<1>5. d \in 1..commit /\ d \in 1..Len(log) /\ Len(log) > 0
  BY <1>2
<1>6. PICK D : D = log[d].servers
  OBVIOUS
<1>7. PICK V : V = {v \in D : joined[v] /\ have[v] <= have[s]}
  OBVIOUS
<1>8. V \in SUBSET D /\ IsMajority(V, D)
  BY <1>1, <1>4, <1>6, <1>7
<1>9. PICK p \in 1..commit :
         /\ log[p].kind = "conf" /\ IsMajority(Holders(log[p].servers), log[p].servers)
         /\ log[p].servers = {First} =>
              \A q \in 1..commit : \E x \in Server : log[q].servers \subseteq {First, x}
  BY <1>5 DEF QuorumInv
<1>10. p \in 1..Len(log)
  BY <1>2
<1>11. PICK C : C = log[p].servers
  OBVIOUS
<1>12. PICK Q : Q = {v \in C : joined[v] => have[v] >= commit}
  OBVIOUS
<1>13. Q \in SUBSET C /\ IsMajority(Q, C)
  BY <1>9, <1>11, <1>12 DEF Holders
<1>14. C \subseteq D \/ D \subseteq C
  <2>1. p <= d \/ d <= p
    OBVIOUS
  <2> QED BY <1>4, <1>5, <1>6, <1>9, <1>10, <1>11, <2>1 DEF MemberInv, ConfInv
<1>15. D # {First}
  <2> SUFFICES ASSUME D = {First} PROVE FALSE
    OBVIOUS
  <2>1. s = First
    BY <1>1, <1>4, <1>6
  <2> QED BY <1>1, <1>4, <1>6, <2>1 DEF AloneInv
<1>16. Cardinality(D) >= 2 /\ D \in SUBSET Server
  BY <1>4, <1>5, <1>6, <1>15, ConfsNested
<1>17. C \in SUBSET Server /\ First \in C /\ (C # {First} => Cardinality(C) >= 2)
  BY <1>9, <1>10, <1>11, ConfsNested
<1>18. V \cap Q # {}
  <2>1. CASE C # {First}
    BY <1>8, <1>13, <1>14, <1>16, <1>17, <2>1, MajoritiesMeet
  <2>2. CASE C = {First}
    <3>1. PICK x \in Server : D \subseteq {First, x}
      BY <1>5, <1>6, <1>9, <1>11, <2>2
    <3>2. First \in V
      BY <1>8, <1>16, <3>1, PairMajority
    <3>3. Q # {}
      <4> SUFFICES ASSUME Q = {} PROVE FALSE
        OBVIOUS
      <4>1. Cardinality(Q) = 0 /\ Cardinality({First}) = 1
        BY FS_EmptySet, FS_Singleton
      <4> QED BY <1>13, <2>2, <4>1 DEF IsMajority
    <3>4. First \in Q
      BY <1>13, <2>2, <3>3
    <3> QED BY <3>2, <3>4
  <2> QED BY <2>1, <2>2
<1>19. PICK v : v \in V /\ v \in Q
  BY <1>18
<1>20. v \in Server /\ have[v] <= have[s] /\ have[v] >= commit
  BY <1>7, <1>12, <1>17, <1>19
<1> QED BY <1>2, <1>20

(* A step that lets nobody apply anything. *)
LEMMA AliveFrame ==
  ASSUME AliveInv, MemberInv,
         \A v \in Named' : Up(v)' => joined'[v],
         joined'[First] => joined[First] /\ applied'[First] = applied[First],
         \A t \in Server : joined'[t] /\ applied'[t] > 0 =>
           joined[t] /\ applied'[t] = applied[t] /\ saved_config'[t] = saved_config[t],
         \A t \in Server : \A p \in 1..applied[t] : log'[p] = log[p],
         leader' # None =>
           /\ leader' \in Server /\ applied'[leader'] = applied[leader']
           /\ saved_config'[leader'] = saved_config[leader']
           /\ leader' = leader \/ (applied[leader'] > 0 /\ leader' \in saved_config[leader'])
  PROVE  AliveInv'
<1>1. \A s \in Server : joined'[s] /\ applied'[s] > 0 =>
        \E p \in 1..applied'[s] : log'[p].kind = "conf" /\ log'[p].servers = saved_config'[s]
  <2> SUFFICES ASSUME NEW s \in Server, joined'[s], applied'[s] > 0
               PROVE  \E p \in 1..applied'[s] : log'[p].kind = "conf" /\ log'[p].servers = saved_config'[s]
    OBVIOUS
  <2>1. joined[s] /\ applied'[s] = applied[s] /\ saved_config'[s] = saved_config[s]
    OBVIOUS
  <2>2. PICK p \in 1..applied[s] : log[p].kind = "conf" /\ log[p].servers = saved_config[s]
    BY <2>1 DEF AliveInv
  <2> QED BY <2>1, <2>2
<1>2. leader' # None => applied'[leader'] > 0 /\ leader' \in saved_config'[leader']
  BY DEF AliveInv
<1>3. joined'[First] => applied'[First] > 0
  BY DEF AliveInv
<1> QED BY <1>1, <1>2, <1>3 DEF AliveInv

LEMMA NamedServers == ASSUME EntryInv PROVE Named \subseteq Server
<1> SUFFICES ASSUME NEW p \in 1..Len(log), NEW x \in log[p].servers PROVE x \in Server
  BY DEF Named
<1>1. log[p] \in Entry
  BY DEF EntryInv
<1> QED BY <1>1 DEF Entry

LEMMA MemberFacts ==
  ASSUME MemberInv
  PROVE  /\ log \in Seq(Entry) /\ Len(log) \in Nat /\ commit \in Nat /\ commit <= Len(log)
         /\ have \in [Server -> Nat] /\ applied \in [Server -> Nat] /\ joined \in [Server -> BOOLEAN]
         /\ stage \in [Server -> {"off", "init", "join", "run"}]
         /\ saved_config \in [Server -> SUBSET Server]
         /\ \A s \in Server : ~joined[s] => applied[s] = 0 /\ have[s] = 0
         /\ \A s \in Server : joined[s] => Up(s)
         /\ \A s \in Server : applied[s] <= commit /\ applied[s] <= have[s] /\ have[s] <= Len(log)
         /\ leader # None => leader \in Server /\ joined[leader]
         /\ srv_to_join # None => leader # None
<1>1. ProcInv /\ EntryInv /\ LogInv
  BY DEF MemberInv
<1>2. log \in Seq(Entry) /\ Len(log) \in Nat /\ saved_config \in [Server -> SUBSET Server]
  BY <1>1 DEF EntryInv
<1>3. /\ joined \in [Server -> BOOLEAN] /\ stage \in [Server -> {"off", "init", "join", "run"}]
      /\ \A s \in Server : joined[s] => Up(s)
  BY <1>1 DEF ProcInv
<1>4. /\ commit \in Nat /\ commit <= Len(log) /\ have \in [Server -> Nat] /\ applied \in [Server -> Nat]
      /\ leader # None => leader \in Server /\ joined[leader]
      /\ srv_to_join # None => leader # None
  BY <1>1 DEF LogInv
<1>5. /\ \A s \in Server : ~joined[s] => applied[s] = 0 /\ have[s] = 0
      /\ \A s \in Server : applied[s] <= commit /\ applied[s] <= have[s] /\ have[s] <= Len(log)
  BY <1>1, <1>4 DEF LogInv
<1> QED BY <1>2, <1>3, <1>4, <1>5, Zenon

LEMMA AliveStep ==
  ASSUME MemberInv, MemberInv', NamedInv, AliveInv, ~forgot', ~cut, [Next]_vars,
         \A s \in Server : elect(s) => commit <= have[s]
  PROVE  AliveInv'
<1> USE MembershipAssumption
<1>1. /\ log \in Seq(Entry) /\ Len(log) \in Nat /\ commit \in Nat /\ commit <= Len(log)
      /\ have \in [Server -> Nat] /\ applied \in [Server -> Nat] /\ joined \in [Server -> BOOLEAN]
      /\ stage \in [Server -> {"off", "init", "join", "run"}] /\ saved_config \in [Server -> SUBSET Server]
      /\ \A s \in Server : ~joined[s] => applied[s] = 0
      /\ \A s \in Server : joined[s] => Up(s)
      /\ \A s \in Server : applied[s] <= commit /\ applied[s] <= Len(log)
      /\ leader # None => leader \in Server /\ joined[leader]
      /\ srv_to_join # None => leader # None
  <2>1. \A s \in Server : applied[s] <= Len(log)
    BY MemberFacts
  <2> QED BY <2>1, MemberFacts
<1>2. Named \subseteq Server
  BY NamedServers DEF MemberInv
<1>3. ASSUME UNCHANGED log PROVE Named' = Named
  BY <1>3 DEF Named
<1>4. \A v \in Named : Up(v) => joined[v]
  BY DEF AliveInv
<1>5. ASSUME UNCHANGED <<log, joined, applied, saved_config, leader>>, \A v \in Named : Up(v)' => Up(v)
      PROVE  AliveInv'
  BY <1>1, <1>2, <1>3, <1>4, <1>5, AliveFrame
<1>6. ASSUME NEW s \in Server, start(s) PROVE AliveInv'
  <2>1. /\ stage[s] = "off" /\ stage' = [stage EXCEPT ![s] = "init"]
        /\ saved_config' = [saved_config EXCEPT ![s] = {s}] /\ forgot' = (forgot \/ s \in Named)
        /\ UNCHANGED <<log, joined, applied, leader>>
    BY <1>6 DEF start, clusterVars
  <2>2. s \notin Named /\ ~joined[s] /\ leader # s
    BY <1>1, <2>1 DEF Up
  <2>3. \A t \in Server : t # s => stage'[t] = stage[t] /\ saved_config'[t] = saved_config[t]
    BY <1>1, <2>1
  <2>4. \A v \in Named' : Up(v)' => joined'[v]
    BY <1>3, <1>4, <2>1, <2>2, <2>3 DEF Up
  <2> QED BY <1>1, <1>2, <2>1, <2>2, <2>3, <2>4, AliveFrame
<1>7. CASE become_ready(First)
  <2>1. /\ stage[First] = "init" /\ ~ready[First] /\ leader' = First
        /\ log' = <<Conf({First})>> /\ joined' = [joined EXCEPT ![First] = TRUE]
        /\ applied' = [applied EXCEPT ![First] = 1] /\ UNCHANGED saved_config
    BY <1>7 DEF become_ready
  <2>2. Up(First) /\ ~joined[First]
    BY <2>1 DEF MemberInv, ProcInv, Up
  <2>3. Len(log) = 0 /\ saved_config[First] = {First}
    BY <1>1, <2>2 DEF MemberInv, FirstInv, ConfInv
  <2>4. \A s \in Server : s # First => ~joined'[s]
    BY <1>1, <2>1, <2>3 DEF MemberInv, FirstInv
  <2>5. log'[1].kind = "conf" /\ log'[1].servers = {First} /\ Len(log') = 1
    BY <2>1 DEF Conf
  <2>6. Named' = {First}
    BY <2>5 DEF Named
  <2>7. joined'[First] /\ applied'[First] = 1
    BY <1>1, <2>1
  <2>8. \A s \in Server : joined'[s] /\ applied'[s] > 0 =>
          \E p \in 1..applied'[s] : log'[p].kind = "conf" /\ log'[p].servers = saved_config'[s]
    <3> SUFFICES ASSUME NEW s \in Server, joined'[s] PROVE \E p \in 1..applied'[s] : log'[p].kind = "conf" /\ log'[p].servers = saved_config'[s]
      OBVIOUS
    <3>1. s = First /\ 1 \in 1..applied'[s]
      BY <2>4, <2>7
    <3> QED BY <2>1, <2>3, <2>5, <3>1
  <2>9. leader' # None => applied'[leader'] > 0 /\ leader' \in saved_config'[leader']
    BY <2>1, <2>3, <2>7
  <2>10. \A v \in Named' : Up(v)' => joined'[v]
    BY <2>6, <2>7
  <2>11. joined'[First] => applied'[First] > 0
    BY <2>7
  <2> QED BY <2>8, <2>9, <2>10, <2>11 DEF AliveInv
<1>8. ASSUME NEW s \in Server, Ends(s) PROVE AliveInv'
  <2>1. /\ joined' = [joined EXCEPT ![s] = FALSE] /\ applied' = [applied EXCEPT ![s] = 0]
        /\ leader' = (IF leader = s THEN None ELSE leader) /\ stage' = [stage EXCEPT ![s] = "off"]
        /\ saved_config' = [saved_config EXCEPT ![s] = {}] /\ UNCHANGED log
    BY <1>8 DEF Ends, exit
  <2>2. /\ ~joined'[s] /\ stage'[s] = "off"
        /\ \A t \in Server : t # s => /\ joined'[t] = joined[t] /\ applied'[t] = applied[t]
                                      /\ saved_config'[t] = saved_config[t] /\ stage'[t] = stage[t]
    BY <1>1, <2>1
  <2>3. \A v \in Named' : Up(v)' => joined'[v]
    BY <1>3, <1>4, <2>1, <2>2 DEF Up
  <2>4. leader' # None => leader' \in Server /\ leader' = leader /\ leader' # s
    BY <1>1, <2>1
  <2> QED BY <1>2, <2>1, <2>2, <2>3, <2>4, AliveFrame
<1>9. ASSUME NEW s \in Server, join_cluster_req(s) \/ append_entries_req(s) PROVE AliveInv'
  <2>1. /\ ~joined[s] /\ Up(s) /\ joined' = [joined EXCEPT ![s] = TRUE]
        /\ applied' = [applied EXCEPT ![s] = 0]
        /\ saved_config' = [saved_config EXCEPT ![s] = saved_config'[s]]
        /\ UNCHANGED <<log, leader, stage>>
    <3>1. /\ ~joined[s] /\ Up(s) /\ joined' = [joined EXCEPT ![s] = TRUE]
          /\ applied' = [applied EXCEPT ![s] = 0] /\ UNCHANGED <<log, leader, stage>>
      BY <1>9 DEF join_cluster_req, append_entries_req, follow, clusterVars
    <3>2. saved_config' = [saved_config EXCEPT ![s] = saved_config'[s]]
      BY <1>1, <1>9 DEF join_cluster_req, append_entries_req
    <3> QED BY <3>1, <3>2
  <2>2. leader # None /\ leader # s
    BY <1>1, <1>9, <2>1 DEF join_cluster_req, append_entries_req
  <2>3. s # First
    BY <1>1, <2>1, <2>2 DEF MemberInv, FirstInv
  <2>4. /\ joined'[s] /\ applied'[s] = 0
        /\ \A t \in Server : t # s => /\ joined'[t] = joined[t] /\ applied'[t] = applied[t]
                                      /\ saved_config'[t] = saved_config[t]
    BY <1>1, <2>1
  <2>5. \A v \in Named' : Up(v)' => joined'[v]
    BY <1>3, <1>4, <2>1, <2>4 DEF Up
  <2> QED BY <1>1, <1>2, <2>1, <2>2, <2>3, <2>4, <2>5, AliveFrame
<1>10. ASSUME NEW e \in Entry, append(e), UNCHANGED <<joined, applied, saved_config, leader, stage>>,
              \A v \in e.servers : joined[v] \/ v \in Named
       PROVE  AliveInv'
  <2>1. Len(log') = Len(log) + 1 /\ log'[Len(log) + 1] = e /\ \A p \in 1..Len(log) : log'[p] = log[p]
    BY <1>1, <1>10, Appends DEF append
  <2>2. \A v \in Named' : v \in Named \/ v \in e.servers
    <3> SUFFICES ASSUME NEW p \in 1..Len(log'), NEW v \in log'[p].servers PROVE v \in Named \/ v \in e.servers
      BY DEF Named
    <3>1. p \in 1..Len(log) \/ p = Len(log) + 1
      BY <1>1, <2>1
    <3> QED BY <2>1, <3>1 DEF Named
  <2>3. \A v \in Named' : Up(v)' => joined'[v]
    BY <1>4, <1>10, <2>2 DEF Up
  <2>4. \A t \in Server : \A p \in 1..applied[t] : log'[p] = log[p]
    <3>1. \A t \in Server : \A p \in 1..applied[t] : p \in 1..Len(log)
      BY <1>1
    <3> QED BY <2>1, <3>1
  <2> QED BY <1>1, <1>2, <1>10, <2>3, <2>4, AliveFrame
<1>11. CASE sync_done
  <2>1. PICK S, e : S = saved_config[leader] \cup {srv_to_join} /\ e = Conf(S)
    OBVIOUS
  <2>2. /\ srv_to_join # None /\ joined[srv_to_join] /\ append(e)
        /\ UNCHANGED <<joined, applied, saved_config, leader, stage>>
    BY <1>11, <2>1 DEF sync_done, procVars
  <2>3. e \in Entry /\ e.servers = S
    BY <1>11, <2>1, ConfEntry DEF Conf, MemberInv
  <2>4. saved_config[leader] \subseteq Named
    BY <1>1, <2>2, CommittedIsNamed DEF NamedInv, MemberInv
  <2> QED BY <1>10, <2>1, <2>2, <2>3, <2>4
<1>12. ASSUME NEW s \in Server, write(s) PROVE AliveInv'
  <2>1. PICK e : e = App(writes')
    OBVIOUS
  <2>2. e \in Entry /\ e.servers = {}
    BY <1>12, <2>1 DEF write, new_write, MemberInv, EntryInv, App, Entry
  <2>3. append(e) /\ UNCHANGED <<joined, applied, saved_config, leader, stage>>
    BY <1>12, <2>1 DEF write, procVars
  <2> QED BY <1>10, <2>2, <2>3
<1>13. ASSUME NEW s \in Server, elect(s) PROVE AliveInv'
  <2>1. PICK n : n = have[s]
    OBVIOUS
  <2>2. /\ n \in Nat /\ n <= Len(log) /\ Len(log') = n /\ \A p \in 1..n : log'[p] = log[p]
        /\ applied' \in [Server -> Nat]
        /\ \A t \in Server : applied'[t] = IF applied[t] <= n THEN applied[t] ELSE n
        /\ leader' = s /\ joined[s] /\ s \in saved_config[s] /\ (saved_config[s] # {s} \/ s = First)
        /\ UNCHANGED <<procVars, joined, saved_config>>
    BY <1>13, <2>1, Elected DEF MemberInv
  <2>3. \A t \in Server : applied'[t] = applied[t] /\ \A p \in 1..applied[t] : p \in 1..n
    BY <1>1, <1>13, <2>1, <2>2
  <2>4. applied[s] > 0
    BY <2>2 DEF MemberInv, ConfInv
  <2>5. \A v \in Named' : v \in Named
    <3> SUFFICES ASSUME NEW p \in 1..n, NEW v \in log'[p].servers PROVE v \in Named
      BY <2>2 DEF Named
    <3>1. p \in 1..Len(log) /\ log'[p] = log[p]
      BY <1>1, <2>2
    <3> QED BY <3>1 DEF Named
  <2>6. \A v \in Named' : Up(v)' => joined'[v]
    BY <1>4, <2>2, <2>5 DEF Up, procVars
  <2> QED BY <1>2, <2>2, <2>3, <2>4, <2>6, AliveFrame
<1>14. ASSUME NEW s \in Server, apply(s) PROVE AliveInv'
  <2>1. PICK p \in Nat : p = applied[s] + 1
    BY <1>1
  <2>2. /\ joined[s] /\ applied[s] < commit /\ applied' = [applied EXCEPT ![s] = p]
        /\ UNCHANGED <<log, joined, leader, stage>>
    BY <1>14, <2>1 DEF apply, clusterVars, procVars
  <2>3. p \in 1..Len(log) /\ p \in 1..p /\ log[p] \in Entry
    BY <1>1, <2>1, <2>2
  <2>4. \/ log[p].kind = "app" /\ UNCHANGED saved_config
        \/ log[p].kind = "conf" /\ saved_config' = [saved_config EXCEPT ![s] = log[p].servers]
    BY <1>14, <2>1 DEF apply
  <2>5. /\ applied'[s] = p /\ saved_config'[s] = (IF log[p].kind = "conf" THEN log[p].servers ELSE saved_config[s])
        /\ \A t \in Server : t # s => applied'[t] = applied[t] /\ saved_config'[t] = saved_config[t]
    BY <1>1, <2>2, <2>4
  <2>6. \E q \in 1..p : log[q].kind = "conf" /\ log[q].servers = saved_config'[s]
    <3>1. CASE log[p].kind = "conf"
      BY <2>3, <2>5, <3>1
    <3>2. CASE log[p].kind = "app"
      <4>1. applied[s] > 0
        <5> SUFFICES ASSUME applied[s] = 0 PROVE FALSE
          BY <1>1
        <5>1. p = 1 /\ log[1] = Conf({First})
          BY <2>1, <2>3 DEF MemberInv, FirstInv
        <5> QED BY <3>2, <5>1 DEF Conf
      <4>2. PICK q \in 1..applied[s] : log[q].kind = "conf" /\ log[q].servers = saved_config[s]
        BY <2>2, <4>1 DEF AliveInv
      <4>3. q \in 1..p
        BY <1>1, <2>1
      <4> QED BY <2>5, <3>2, <4>2, <4>3
    <3> QED BY <2>4, <3>1, <3>2
  <2>7. \A t \in Server : joined'[t] /\ applied'[t] > 0 =>
          \E q \in 1..applied'[t] : log'[q].kind = "conf" /\ log'[q].servers = saved_config'[t]
    <3> SUFFICES ASSUME NEW t \in Server, joined'[t], applied'[t] > 0
                 PROVE  \E q \in 1..applied'[t] : log'[q].kind = "conf" /\ log'[q].servers = saved_config'[t]
      OBVIOUS
    <3>1. CASE t = s
      BY <2>2, <2>5, <2>6, <3>1
    <3>2. CASE t # s
      BY <2>2, <2>5, <3>2 DEF AliveInv
    <3> QED BY <3>1, <3>2
  <2>8. leader' # None => applied'[leader'] > 0 /\ leader' \in saved_config'[leader']
    <3> SUFFICES ASSUME leader # None PROVE applied'[leader] > 0 /\ leader \in saved_config'[leader]
      BY <2>2
    <3>1. leader \in Server /\ applied[leader] > 0 /\ leader \in saved_config[leader] /\ joined[leader]
      BY <1>1 DEF AliveInv
    <3>2. CASE leader # s
      BY <2>5, <3>1, <3>2
    <3>3. CASE leader = s
      <4>1. PICK q \in 1..applied[s] : log[q].kind = "conf" /\ log[q].servers = saved_config[s]
        BY <3>1, <3>3 DEF AliveInv
      <4>2. q \in 1..Len(log) /\ q <= p
        BY <1>1, <2>1
      <4>3. log[p].kind = "conf" => log[q].servers \subseteq log[p].servers
        BY <2>3, <4>2 DEF MemberInv, ConfInv
      <4>4. s \in log[q].servers /\ s \in saved_config'[s]
        BY <2>5, <3>1, <3>3, <4>1, <4>3
      <4>5. applied'[s] > 0
        BY <1>1, <2>1, <2>5
      <4> QED BY <3>3, <4>4, <4>5
    <3> QED BY <3>2, <3>3
  <2>9. joined'[First] => applied'[First] > 0
    BY <1>1, <2>1, <2>2, <2>5 DEF AliveInv
  <2>10. \A v \in Named' : Up(v)' => joined'[v]
    BY <1>3, <1>4, <2>2 DEF Up
  <2> QED BY <2>7, <2>8, <2>9, <2>10 DEF AliveInv
<1>15. ASSUME NEW s \in Server, Proceeds(s) PROVE AliveInv'
  <2>1. /\ UNCHANGED <<log, joined, applied, saved_config, leader>>
        /\ \A t \in Server : Up(t)' => Up(t)
    BY <1>1, <1>15 DEF Proceeds, replicaVars, clusterVars, Up
  <2> QED BY <1>2, <1>5, <2>1
<1>16. ASSUME NEW s \in Server, (s # First /\ become_ready(s)) \/ Asks(s) \/ replicate(s) \/ write_alone(s)
       PROVE  UNCHANGED <<log, joined, applied, saved_config, leader, stage>>
  BY <1>16 DEF become_ready, Asks, replicate, write_alone, procVars, replicaVars, clusterVars
<1>17. CASE UNCHANGED <<log, joined, applied, saved_config, leader, stage>>
  BY <1>5, <1>17 DEF Up
<1>18. CASE reset_srv_to_join \/ advance_commit \/ UNCHANGED vars
  BY <1>17, <1>18 DEF reset_srv_to_join, advance_commit, vars, procVars, replicaVars, clusterVars
<1> QED BY <1>6, <1>7, <1>8, <1>9, <1>11, <1>12, <1>13, <1>14, <1>15, <1>16, <1>17, <1>18, ProcessKinds, AskKinds
        DEF Next, Raft, MemberInv

LEMMA AloneStep ==
  ASSUME MemberInv, MemberInv', AliveInv, AloneInv, [Next]_vars
  PROVE  AloneInv'
<1> USE MembershipAssumption
<1> DEFINE Alone == joined[First] /\ saved_config[First] = {First}
           Small(l, p) == \E x \in Server : l[p].servers \subseteq {First, x}
<1>1. /\ log \in Seq(Entry) /\ Len(log) \in Nat
      /\ have \in [Server -> Nat] /\ applied \in [Server -> Nat] /\ joined \in [Server -> BOOLEAN]
      /\ stage \in [Server -> {"off", "init", "join", "run"}] /\ saved_config \in [Server -> SUBSET Server]
      /\ \A s \in Server : joined[s] => Up(s)
      /\ \A s \in Server : have[s] <= Len(log)
      /\ leader # None => leader \in Server /\ joined[leader]
      /\ srv_to_join # None => leader # None
  BY MemberFacts
<1>2. Alone => /\ leader = First
               /\ \A s \in Server : s # First => (joined[s] => saved_config[s] = {First})
               /\ \A s \in Server : s # First => \A p \in 1..have[s] : log[p].servers \subseteq {First}
               /\ \A p \in 1..Len(log) : Small(log, p)
  BY DEF AloneInv
<1>3. ASSUME Alone' => Alone,
             Alone' => leader' = First,
             Alone' => \A s \in Server : s # First /\ joined'[s] => saved_config'[s] = {First},
             Alone' => \A s \in Server : s # First => \A p \in 1..have'[s] : log'[p].servers \subseteq {First},
             Alone' => \A p \in 1..Len(log') : Small(log', p)
      PROVE  AloneInv'
  BY <1>3 DEF AloneInv
<1>4. ASSUME UNCHANGED log, leader' = leader \/ ~joined'[First],
             joined'[First] => joined[First] /\ saved_config'[First] = saved_config[First],
             \A s \in Server : s # First => /\ joined'[s] => joined[s] /\ saved_config'[s] = saved_config[s]
                                            /\ have'[s] = have[s] \/ have'[s] = 0
      PROVE  AloneInv'
  BY <1>2, <1>3, <1>4
<1>5. ASSUME NEW s \in Server, start(s) PROVE AloneInv'
  <2>1. /\ stage[s] = "off" /\ saved_config' = [saved_config EXCEPT ![s] = {s}]
        /\ UNCHANGED <<log, joined, have, leader>>
    BY <1>5 DEF start, clusterVars
  <2>2. ~joined[s] /\ \A t \in Server : t # s => saved_config'[t] = saved_config[t]
    BY <1>1, <2>1 DEF Up
  <2> QED BY <1>4, <2>1, <2>2
<1>6. CASE become_ready(First)
  <2>1. /\ stage[First] = "init" /\ ~ready[First] /\ leader' = First
        /\ log' = <<Conf({First})>> /\ joined' = [joined EXCEPT ![First] = TRUE]
        /\ have' = [have EXCEPT ![First] = 1]
    BY <1>6 DEF become_ready
  <2>2. Up(First) /\ ~joined[First]
    BY <2>1 DEF MemberInv, ProcInv, Up
  <2>3. Len(log) = 0
    BY <1>1, <2>2 DEF MemberInv, FirstInv
  <2>4. \A s \in Server : s # First => ~joined'[s] /\ have'[s] = 0
    <3>1. \A s \in Server : ~joined[s] /\ have[s] <= 0 /\ have[s] \in Nat
      BY <1>1, <2>3 DEF MemberInv, FirstInv
    <3> QED BY <1>1, <2>1, <3>1
  <2>5. Len(log') = 1 /\ log'[1].servers = {First}
    BY <2>1 DEF Conf
  <2>6. \A p \in 1..Len(log') : Small(log', p)
    BY <2>5
  <2>7. \A s \in Server : s # First => \A p \in 1..have'[s] : log'[p].servers \subseteq {First}
    BY <2>4
  <2>8. \A p \in 1..Len(log') : \E x \in Server : log'[p].servers \subseteq {First, x}
    BY <2>6
  <2> QED BY <2>1, <2>4, <2>7, <2>8 DEF AloneInv
<1>7. ASSUME NEW s \in Server, Ends(s) PROVE AloneInv'
  <2>1. /\ joined' = [joined EXCEPT ![s] = FALSE] /\ have' = [have EXCEPT ![s] = 0]
        /\ leader' = (IF leader = s THEN None ELSE leader)
        /\ saved_config' = [saved_config EXCEPT ![s] = {}] /\ UNCHANGED log
    BY <1>7 DEF Ends, exit
  <2>2. /\ ~joined'[s] /\ have'[s] = 0
        /\ \A t \in Server : t # s => /\ joined'[t] = joined[t] /\ have'[t] = have[t]
                                      /\ saved_config'[t] = saved_config[t]
    BY <1>1, <2>1
  <2>3. CASE s = First
    BY <2>2, <2>3 DEF AloneInv
  <2>4. CASE s # First
    <3>1. Alone' => Alone /\ leader' = First
      BY <1>2, <2>1, <2>2, <2>4
    <3> QED BY <1>2, <1>3, <2>1, <2>2, <2>4, <3>1
  <2> QED BY <2>3, <2>4
<1>8. ASSUME NEW s \in Server, join_cluster_req(s) \/ append_entries_req(s) PROVE AloneInv'
  <2>1. /\ ~joined[s] /\ Up(s) /\ joined' = [joined EXCEPT ![s] = TRUE]
        /\ have' = [have EXCEPT ![s] = 0] /\ UNCHANGED <<log, leader>>
        /\ \/ saved_config' = [saved_config EXCEPT ![s] = saved_config[leader]]
           \/ s \in saved_config[leader] /\ UNCHANGED saved_config
    BY <1>8 DEF join_cluster_req, append_entries_req, follow, clusterVars
  <2>2. leader # None /\ leader \in Server /\ leader # s
    BY <1>1, <1>8, <2>1 DEF join_cluster_req, append_entries_req
  <2>3. s # First
    BY <1>1, <2>1, <2>2 DEF MemberInv, FirstInv
  <2>4. /\ have'[s] = 0 /\ \A t \in Server : t # s => joined'[t] = joined[t] /\ have'[t] = have[t]
        /\ \A t \in Server : t # s => saved_config'[t] = saved_config[t]
    BY <1>1, <2>1
  <2>5. Alone' => Alone
    BY <2>3, <2>4
  <2>6. Alone => saved_config'[s] = {First}
    BY <1>1, <1>2, <2>1, <2>3
  <2> QED BY <1>2, <1>3, <2>1, <2>3, <2>4, <2>5, <2>6
<1>9. ASSUME NEW s \in Server, replicate(s) PROVE AloneInv'
  <2>1. /\ leader # None /\ s \in saved_config[leader] \cup {srv_to_join}
        /\ have' = [have EXCEPT ![s] = Len(log)]
        /\ UNCHANGED <<log, joined, saved_config, leader>>
    BY <1>9 DEF replicate, clusterVars
  <2>2. \A t \in Server : t # s => have'[t] = have[t]
    BY <1>1, <2>1
  <2>3. Alone /\ s # First => \A p \in 1..Len(log) : log[p].servers \subseteq {First}
    <3> SUFFICES ASSUME Alone, s # First PROVE \A p \in 1..Len(log) : log[p].servers \subseteq {First}
      OBVIOUS
    <3>1. leader = First /\ srv_to_join = s /\ srv_to_join # None
      BY <1>2, <2>1
    <3>2. \A p \in applied[First] + 1 .. Len(log) : log[p].kind # "conf"
      BY <3>1 DEF MemberInv, ConfInv
    <3> QED BY <3>1, <3>2, LeaderKnows DEF MemberInv
  <2>4. have'[s] = Len(log)
    BY <1>1, <2>1
  <2>5. Alone => \A t \in Server : t # First => \A p \in 1..have'[t] : log[p].servers \subseteq {First}
    BY <1>2, <2>2, <2>3, <2>4
  <2> QED BY <1>2, <1>3, <2>1, <2>5
<1>10. ASSUME NEW e \in Entry, append(e), leader # None, UNCHANGED <<joined, saved_config, leader>>,
              Alone => \E x \in Server : e.servers \subseteq {First, x}
       PROVE  AloneInv'
  <2>1. /\ Len(log') = Len(log) + 1 /\ log'[Len(log) + 1] = e /\ \A p \in 1..Len(log) : log'[p] = log[p]
        /\ have' = [have EXCEPT ![leader] = Len(log) + 1]
    BY <1>1, <1>10, Appends DEF append
  <2>2. Alone => \A p \in 1..Len(log') : Small(log', p)
    <3> SUFFICES ASSUME Alone, NEW p \in 1..Len(log') PROVE Small(log', p)
      OBVIOUS
    <3>1. p \in 1..Len(log) \/ p = Len(log) + 1
      BY <1>1, <2>1
    <3> QED BY <1>2, <1>10, <2>1, <3>1
  <2>3. Alone => \A s \in Server : s # First => \A p \in 1..have'[s] : log'[p].servers \subseteq {First}
    <3> SUFFICES ASSUME Alone, NEW s \in Server, s # First, NEW p \in 1..have'[s]
                 PROVE  log'[p].servers \subseteq {First}
      OBVIOUS
    <3>1. have'[s] = have[s]
      BY <1>1, <1>2, <2>1
    <3>2. p \in 1..have[s] /\ p \in 1..Len(log)
      BY <1>1, <3>1
    <3> QED BY <1>2, <2>1, <3>2
  <2> QED BY <1>2, <1>3, <1>10, <2>2, <2>3
<1>11. CASE sync_done
  <2>1. PICK S, e : S = saved_config[leader] \cup {srv_to_join} /\ e = Conf(S)
    OBVIOUS
  <2>2. /\ srv_to_join # None /\ append(e) /\ UNCHANGED <<joined, saved_config, leader>>
    BY <1>11, <2>1 DEF sync_done
  <2>3. e \in Entry /\ e.servers = S /\ srv_to_join \in Server
    BY <1>11, <2>1, <2>2, ConfEntry DEF Conf, MemberInv, LogInv
  <2>4. Alone => S \subseteq {First, srv_to_join}
    BY <1>2, <2>1
  <2> QED BY <1>1, <1>10, <2>2, <2>3, <2>4
<1>12. ASSUME NEW s \in Server, write(s) PROVE AloneInv'
  <2>1. PICK e : e = App(writes')
    OBVIOUS
  <2>2. e \in Entry /\ e.servers = {}
    BY <1>12, <2>1 DEF write, new_write, MemberInv, EntryInv, App, Entry
  <2>3. append(e) /\ leader # None /\ UNCHANGED <<joined, saved_config, leader>>
    BY <1>12, <2>1 DEF write
  <2>4. e.servers \subseteq {First, s}
    BY <2>2
  <2> QED BY <1>10, <2>2, <2>3, <2>4
<1>13. ASSUME NEW s \in Server, elect(s) PROVE AloneInv'
  <2>1. s # leader /\ joined[s] /\ s \in saved_config[s] /\ UNCHANGED <<joined, saved_config>>
    BY <1>13 DEF elect
  <2>2. ~Alone
    BY <1>2, <2>1
  <2> QED BY <2>1, <2>2 DEF AloneInv
<1>14. ASSUME NEW s \in Server, apply(s) PROVE AloneInv'
  <2>1. PICK p \in Nat : p = applied[s] + 1
    BY <1>1
  <2>2. /\ joined[s] /\ applied[s] < have[s] /\ UNCHANGED <<log, joined, leader, have>>
    BY <1>14 DEF apply, clusterVars
  <2>3. p \in 1..Len(log) /\ p \in 1..have[s]
    BY <1>1, <2>1, <2>2
  <2>4. \/ UNCHANGED saved_config
        \/ log[p].kind = "conf" /\ saved_config' = [saved_config EXCEPT ![s] = log[p].servers]
    BY <1>14, <2>1 DEF apply
  <2>5. Alone' => Alone
    <3> SUFFICES ASSUME Alone', s = First, log[p].kind = "conf", log[p].servers = {First} PROVE Alone
      BY <1>1, <2>2, <2>4
    <3>1. PICK q \in 1..applied[s] : log[q].kind = "conf" /\ log[q].servers = saved_config[s]
      BY <2>2 DEF AliveInv
    <3>2. q \in 1..Len(log) /\ q <= p
      BY <1>1, <2>1, <2>3
    <3>3. log[q].servers \subseteq log[p].servers /\ log[q].servers # {}
      BY <2>3, <3>1, <3>2 DEF MemberInv, ConfInv
    <3> QED BY <2>2, <3>1, <3>3
  <2>6. Alone => \A t \in Server : t # First /\ joined[t] => saved_config'[t] = {First}
    <3> SUFFICES ASSUME Alone, NEW t \in Server, t # First, joined[t] PROVE saved_config'[t] = {First}
      OBVIOUS
    <3>1. CASE t = s /\ log[p].kind = "conf"
      <4>1. log[p].servers \subseteq {First} /\ log[p].servers # {}
        BY <1>2, <2>3, <3>1 DEF MemberInv, ConfInv
      <4> QED BY <1>1, <1>2, <2>4, <3>1, <4>1
    <3>2. CASE ~(t = s /\ log[p].kind = "conf")
      BY <1>1, <1>2, <2>4, <3>2
    <3> QED BY <3>1, <3>2
  <2> QED BY <1>2, <1>3, <2>2, <2>5, <2>6
<1>15. ASSUME NEW s \in Server,
              (s # First /\ become_ready(s)) \/ Proceeds(s) \/ Asks(s) \/ write_alone(s)
       PROVE  UNCHANGED <<log, joined, have, saved_config, leader>>
  BY <1>15 DEF become_ready, Proceeds, Asks, write_alone, replicaVars, clusterVars
<1>16. CASE UNCHANGED <<log, joined, have, saved_config, leader>>
  BY <1>4, <1>16
<1>17. CASE reset_srv_to_join \/ advance_commit \/ UNCHANGED vars
  BY <1>16, <1>17 DEF reset_srv_to_join, advance_commit, vars, replicaVars, clusterVars
<1> QED BY <1>5, <1>6, <1>7, <1>8, <1>9, <1>11, <1>12, <1>13, <1>14, <1>15, <1>16, <1>17, ProcessKinds, AskKinds
        DEF Next, Raft, MemberInv

(* A step that commits nothing. *)
LEMMA QuorumFrame ==
  ASSUME IsFiniteSet(Server), MemberInv, AliveInv, QuorumInv,
         commit' = commit, \A q \in 1..commit : log'[q] = log[q], Len(log) > 0,
         \A v \in CommittedNamed : joined'[v] /\ (joined[v] => have[v] >= commit) => have'[v] >= commit
  PROVE  QuorumInv'
<1>1. PICK p \in 1..commit :
        /\ log[p].kind = "conf" /\ IsMajority(Holders(log[p].servers), log[p].servers)
        /\ log[p].servers = {First} =>
             \A q \in 1..commit : \E x \in Server : log[q].servers \subseteq {First, x}
  BY DEF QuorumInv
<1>2. p \in 1..Len(log)
  BY MemberFacts
<1>3. PICK C \in SUBSET Server : C = log[p].servers
  BY <1>1, <1>2, ConfsNested
<1>4. C \subseteq CommittedNamed
  BY <1>3 DEF CommittedNamed
<1>5. Holders(C) \subseteq Holders(C)' /\ Holders(C)' \subseteq C
  BY <1>4 DEF Holders
<1>6. IsMajority(Holders(C)', C)
  <2>1. PICK A, B : A = Holders(C) /\ B = Holders(C)'
    OBVIOUS
  <2>2. IsMajority(B, C)
    BY <1>1, <1>3, <1>5, <2>1, MoreIsMajority
  <2> QED BY <2>1, <2>2
<1>7. log'[p] = log[p]
  OBVIOUS
<1>8. log'[p].servers = {First} => \A q \in 1..commit' : \E x \in Server : log'[q].servers \subseteq {First, x}
  BY <1>1, <1>7
<1>9. IsMajority(Holders(log[p].servers)', log[p].servers)
  BY <1>3, <1>6
<1>10. IsMajority(Holders(log[p].servers), log[p].servers)'
  BY <1>7, <1>9 DEF IsMajority, Holders
<1> QED BY <1>1, <1>7, <1>8, <1>10 DEF QuorumInv

LEMMA QuorumCommits ==
  ASSUME IsFiniteSet(Server), MemberInv, AliveInv, AloneInv, advance_commit
  PROVE  QuorumInv'
<1>1. /\ commit \in Nat /\ Len(log) \in Nat /\ have \in [Server -> Nat] /\ applied \in [Server -> Nat]
      /\ saved_config \in [Server -> SUBSET Server]
      /\ leader \in Server /\ joined[leader] /\ applied[leader] <= commit
  BY MemberFacts DEF advance_commit
<1>2. PICK m \in commit + 1 .. Len(log) :
        /\ commit' = m
        /\ IsMajority({s \in saved_config[leader] : joined[s] /\ have[s] >= m}, saved_config[leader])
  BY DEF advance_commit
<1>3. UNCHANGED <<log, joined, have>>
  BY DEF advance_commit, replicaVars
<1>4. applied[leader] > 0 /\ leader \in saved_config[leader]
  BY <1>1 DEF AliveInv, MemberInv, LogInv, MembershipAssumption, advance_commit
<1>5. PICK p \in 1..applied[leader] : log[p].kind = "conf" /\ log[p].servers = saved_config[leader]
  BY <1>1, <1>4 DEF AliveInv
<1>6. PICK C \in SUBSET Server : C = saved_config[leader]
  BY <1>1
<1>7. p \in 1..m
  BY <1>1, <1>2
<1>8. IsMajority({v \in C : joined[v] => have[v] >= m}, C)
  <2>1. PICK A, B : A = {s \in C : joined[s] /\ have[s] >= m} /\ B = {v \in C : joined[v] => have[v] >= m}
    OBVIOUS
  <2>2. A \subseteq B /\ B \subseteq C /\ IsMajority(A, C)
    BY <1>2, <1>6, <2>1
  <2> QED BY <2>1, <2>2, MoreIsMajority
<1>9. C = {First} => \A q \in 1..m : \E x \in Server : log[q].servers \subseteq {First, x}
  <2> SUFFICES ASSUME C = {First} PROVE \A q \in 1..m : \E x \in Server : log[q].servers \subseteq {First, x}
    OBVIOUS
  <2>1. leader = First
    BY <1>4, <1>6
  <2>2. \A q \in 1..Len(log) : \E x \in Server : log[q].servers \subseteq {First, x}
    BY <1>1, <1>6, <2>1 DEF AloneInv
  <2>3. \A q \in 1..m : q \in 1..Len(log)
    BY <1>1, <1>2
  <2> QED BY <2>2, <2>3
<1>10. IsMajority(Holders(log[p].servers), log[p].servers)'
  BY <1>2, <1>3, <1>5, <1>6, <1>8 DEF IsMajority, Holders
<1>11. p \in 1..commit' /\ log'[p].kind = "conf" /\ log'[p].servers = C
  BY <1>2, <1>3, <1>5, <1>6, <1>7
<1>12. log'[p].servers = {First} => \A q \in 1..commit' : \E x \in Server : log'[q].servers \subseteq {First, x}
  BY <1>2, <1>3, <1>9, <1>11
<1> QED BY <1>10, <1>11, <1>12 DEF QuorumInv

LEMMA QuorumStep ==
  ASSUME IsFiniteSet(Server), MemberInv, MemberInv', AliveInv, AloneInv, QuorumInv, [Next]_vars,
         \A s \in Server : elect(s) => commit <= have[s]
  PROVE  QuorumInv'
<1> USE MembershipAssumption
<1>1. /\ log \in Seq(Entry) /\ Len(log) \in Nat /\ commit \in Nat /\ commit <= Len(log)
      /\ have \in [Server -> Nat] /\ joined \in [Server -> BOOLEAN]
      /\ \A s \in Server : joined[s] => Up(s)
      /\ leader # None => leader \in Server /\ joined[leader]
      /\ srv_to_join # None => leader # None
  BY MemberFacts
<1>2. CommittedNamed \subseteq Named /\ CommittedNamed \subseteq Server
  <2>1. EntryInv /\ LogInv
    BY DEF MemberInv
  <2> QED BY <2>1, CommittedIsNamed, NamedServers
<1>3. \A v \in CommittedNamed : have[v] \in Nat
  BY <1>1, <1>2
<1>4. ASSUME UNCHANGED <<log, commit>>,
             \A v \in Server : joined'[v] => (joined[v] /\ have'[v] >= have[v]) \/ v \notin Named
      PROVE  QuorumInv'
  <2>1. CASE Len(log) > 0
    <3>1. \A v \in CommittedNamed : joined'[v] /\ (joined[v] => have[v] >= commit) => have'[v] >= commit
      <4> SUFFICES ASSUME NEW v \in CommittedNamed, joined'[v], joined[v] => have[v] >= commit
                   PROVE  have'[v] >= commit
        OBVIOUS
      <4>1. v \in Server /\ joined[v] /\ have'[v] >= have[v] /\ have[v] >= commit
        BY <1>2, <1>4
      <4>2. have' \in [Server -> Nat]
        BY DEF MemberInv, LogInv
      <4> QED BY <1>1, <4>1, <4>2
    <3> QED BY <1>4, <2>1, <3>1, QuorumFrame
  <2>2. CASE ~(Len(log) > 0)
    BY <1>4, <2>2 DEF QuorumInv
  <2> QED BY <2>1, <2>2
<1>5. CASE become_ready(First)
  <2>1. /\ log' = <<Conf({First})>> /\ commit' = 1
        /\ joined' = [joined EXCEPT ![First] = TRUE] /\ have' = [have EXCEPT ![First] = 1]
    BY <1>5 DEF become_ready
  <2>2. log'[1].kind = "conf" /\ log'[1].servers = {First} /\ Len(log') = 1 /\ have'[First] = 1
    BY <1>1, <2>1 DEF Conf
  <2>3. Holders({First})' = {First}
    BY <2>1, <2>2 DEF Holders
  <2>4. IsMajority({First}, {First})
    <3>1. Cardinality({First}) = 1
      BY FS_Singleton
    <3> QED BY <3>1 DEF IsMajority
  <2>5. IsMajority(Holders(log[1].servers), log[1].servers)'
    BY <2>2, <2>3, <2>4 DEF IsMajority, Holders
  <2>6. \A q \in 1..commit' : \E x \in Server : log'[q].servers \subseteq {First, x}
    BY <2>1, <2>2
  <2>7. 1 \in 1..commit'
    BY <2>1
  <2> QED BY <2>2, <2>5, <2>6, <2>7 DEF QuorumInv
<1>6. ASSUME NEW s \in Server, Ends(s) PROVE QuorumInv'
  <2>1. /\ joined' = [joined EXCEPT ![s] = FALSE] /\ have' = [have EXCEPT ![s] = 0]
        /\ UNCHANGED <<log, commit>>
    BY <1>6 DEF Ends, exit
  <2>2. \A v \in Server : joined'[v] => joined[v] /\ have'[v] >= have[v]
    BY <1>1, <2>1
  <2> QED BY <1>4, <2>1, <2>2
<1>7. ASSUME NEW s \in Server, join_cluster_req(s) \/ append_entries_req(s) PROVE QuorumInv'
  <2>1. /\ ~joined[s] /\ Up(s) /\ joined' = [joined EXCEPT ![s] = TRUE]
        /\ have' = [have EXCEPT ![s] = 0] /\ UNCHANGED <<log, commit>>
    BY <1>7 DEF join_cluster_req, append_entries_req, follow, clusterVars
  <2>2. s \notin Named
    BY <2>1 DEF AliveInv
  <2>3. \A v \in Server : v # s => joined'[v] = joined[v] /\ have'[v] = have[v]
    BY <1>1, <2>1
  <2> QED BY <1>1, <1>4, <2>1, <2>2, <2>3
<1>8. ASSUME NEW s \in Server, replicate(s) PROVE QuorumInv'
  <2>1. /\ have[s] < Len(log) /\ have' = [have EXCEPT ![s] = Len(log)]
        /\ UNCHANGED <<log, commit, joined>>
    BY <1>8 DEF replicate, clusterVars
  <2>2. \A v \in Server : have'[v] >= have[v]
    BY <1>1, <2>1
  <2> QED BY <1>4, <2>1, <2>2
<1>9. ASSUME NEW e \in Entry, append(e), leader # None, UNCHANGED <<commit, joined>> PROVE QuorumInv'
  <2>1. log' = Append(log, e) /\ have' = [have EXCEPT ![leader] = Len(log) + 1]
    BY <1>9 DEF append
  <2>2. \A q \in 1..Len(log) : log'[q] = log[q]
    BY <1>1, <2>1, Appends
  <2>3. Len(log) > 0
    BY <1>1, <1>9 DEF MemberInv, FirstInv
  <2>4. \A v \in CommittedNamed : joined'[v] /\ (joined[v] => have[v] >= commit) => have'[v] >= commit
    <3>1. \A v \in Server : have'[v] = have[v] \/ have'[v] >= commit
      BY <1>1, <2>1
    <3> QED BY <1>2, <1>9, <3>1
  <2>5. \A q \in 1..commit : log'[q] = log[q]
    BY <1>1, <2>2
  <2> QED BY <1>9, <2>3, <2>4, <2>5, QuorumFrame
<1>10. CASE sync_done
  <2>1. PICK e \in Entry : append(e)
    BY <1>10, ConfEntry DEF sync_done, MemberInv
  <2> QED BY <1>1, <1>9, <1>10, <2>1 DEF sync_done
<1>11. ASSUME NEW s \in Server, write(s) PROVE QuorumInv'
  <2>1. PICK n : n = writes'
    OBVIOUS
  <2>2. App(n) \in Entry
    BY <1>11, <2>1 DEF write, new_write, MemberInv, EntryInv, App, Entry
  <2>3. append(App(n)) /\ leader # None /\ UNCHANGED <<commit, joined>>
    BY <1>11, <2>1 DEF write
  <2> QED BY <1>9, <2>2, <2>3
<1>12. ASSUME NEW s \in Server, elect(s) PROVE QuorumInv'
  <2>1. PICK n : n = have[s]
    OBVIOUS
  <2>2. /\ n \in Nat /\ n <= Len(log) /\ \A p \in 1..n : log'[p] = log[p]
        /\ commit' = (IF commit <= n THEN commit ELSE n)
        /\ \A t \in Server : have'[t] = IF have[t] <= n THEN have[t] ELSE n
        /\ joined[s] /\ UNCHANGED joined
    BY <1>12, <2>1, Elected DEF MemberInv
  <2>3. commit <= n /\ commit' = commit /\ \A p \in 1..commit : log'[p] = log[p]
    BY <1>1, <1>12, <2>1, <2>2
  <2>4. Len(log) > 0
    BY <1>1, <2>2 DEF MemberInv, FirstInv
  <2>5. \A v \in CommittedNamed : joined'[v] /\ (joined[v] => have[v] >= commit) => have'[v] >= commit
    BY <1>1, <1>2, <2>2, <2>3
  <2> QED BY <2>3, <2>4, <2>5, QuorumFrame
<1>13. ASSUME NEW s \in Server,
              \/ start(s) \/ (s # First /\ become_ready(s)) \/ Proceeds(s) \/ Asks(s)
              \/ apply(s) \/ write_alone(s)
       PROVE  UNCHANGED <<log, commit, joined, have>>
  BY <1>13 DEF start, become_ready, Proceeds, Asks, apply, write_alone, replicaVars, clusterVars
<1>14. CASE UNCHANGED <<log, commit, joined, have>>
  BY <1>1, <1>4, <1>14
<1>15. CASE reset_srv_to_join \/ UNCHANGED vars
  BY <1>14, <1>15 DEF reset_srv_to_join, vars, replicaVars, clusterVars
<1> QED BY <1>5, <1>6, <1>7, <1>8, <1>10, <1>11, <1>12, <1>13, <1>14, <1>15, QuorumCommits, ProcessKinds, AskKinds
        DEF Next, Raft, MemberInv

LEMMA KeepsStep ==
  ASSUME IsFiniteSet(Server), Cardinality(Server) <= 4, MemberInv, MemberInv', NamedInv, KeepsInv, [Next]_vars
  PROVE  KeepsInv'
<1> SUFFICES ASSUME ~forgot' PROVE ~cut' /\ AliveInv' /\ AloneInv' /\ QuorumInv'
  BY DEF KeepsInv
<1>1. ~forgot /\ (cut' = cut \/ \E s \in Server : elect(s))
  <2>1. ASSUME NEW s \in Server, start(s) PROVE ~forgot /\ cut' = cut
    BY <2>1 DEF start
  <2>2. ASSUME NEW s \in Server, elect(s) PROVE ~forgot
    BY <2>2 DEF elect
  <2>3. ASSUME NEW s \in Server, Proceeds(s) \/ Ends(s) PROVE ~forgot /\ cut' = cut
    BY <2>3 DEF Proceeds, Ends, boundVars
  <2>4. ASSUME NEW s \in Server,
               \/ become_ready(s) \/ Asks(s) \/ join_cluster_req(s) \/ append_entries_req(s)
               \/ replicate(s) \/ apply(s) \/ write_alone(s) \/ write(s)
        PROVE  ~forgot /\ cut' = cut
    <3>1. UNCHANGED boundVars
      BY <2>4 DEF become_ready, Asks, join_cluster_req, append_entries_req, replicate, apply,
                  write_alone, write
    <3> QED BY <3>1 DEF boundVars
  <2>5. CASE sync_done \/ reset_srv_to_join \/ advance_commit \/ UNCHANGED vars
    BY <2>5 DEF sync_done, reset_srv_to_join, advance_commit, vars, boundVars
  <2> QED BY <2>1, <2>2, <2>3, <2>4, <2>5, ProcessKinds, AskKinds DEF Next, Raft, MemberInv
<1>2. ~cut /\ AliveInv /\ AloneInv /\ QuorumInv
  BY <1>1 DEF KeepsInv
<1>3. \A s \in Server : elect(s) => commit <= have[s]
  BY <1>2, ElectKeeps
<1>4. AliveInv' /\ AloneInv' /\ QuorumInv'
  BY <1>2, <1>3, AliveStep, AloneStep, QuorumStep
<1>5. ~cut'
  <2>1. ASSUME NEW s \in Server, elect(s) PROVE ~cut'
    <3>1. commit <= have[s] /\ commit \in Nat /\ have[s] \in Nat
      BY <1>3, <2>1, MemberFacts
    <3>2. cut' = (cut \/ have[s] < commit)
      BY <2>1 DEF elect
    <3>3. ~(have[s] < commit)
      BY <3>1
    <3> QED BY <1>2, <3>2, <3>3, Zenon
  <2> QED BY <1>1, <1>2, <2>1
<1> QED BY <1>4, <1>5

(* With up to four servers (docker/start_servers starts three), a write    *)
(* that the cluster acknowledged stays in the committed log through        *)
(* additions, crashes and changes of the leader, whichever configuration   *)
(* each server elects and commits by, while no member is started again.    *)
THEOREM AckedKeptCorrect ==
  ASSUME IsFiniteSet(Server), Cardinality(Server) <= 4
  PROVE  Spec => []AckedIsKept
<1>1. Init => NamedInv /\ KeepsInv
  <2> SUFFICES ASSUME Init PROVE NamedInv /\ KeepsInv
    OBVIOUS
  <2>1. leader = None /\ log = <<>> /\ ~cut /\ \A s \in Server : ~joined[s]
    BY DEF Init
  <2>2. Named = {} /\ Len(log) = 0
    BY <2>1 DEF Named
  <2>3. AliveInv /\ AloneInv /\ QuorumInv
    BY <2>1, <2>2, MembershipAssumption DEF AliveInv, AloneInv, QuorumInv
  <2> QED BY <2>1, <2>3 DEF NamedInv, KeepsInv
<1>2. MemberInv /\ MemberInv' /\ NamedInv /\ KeepsInv /\ [Next]_vars => NamedInv' /\ KeepsInv'
  BY NamedStep, KeepsStep DEF MemberInv
<1>3. KeepsInv /\ KeptUnlessCut => AckedIsKept
  BY DEF KeepsInv, KeptUnlessCut, AckedIsKept
<1> QED BY <1>1, <1>2, <1>3, MemberCorrect, KeptCorrect, PTL DEF Spec
=============================================================================
