----------------------------- MODULE Membership -----------------------------
(***************************************************************************)
(* How servers come to form one cluster.  A server process builds its      *)
(* replica, which founds a Raft group with itself as the only member, and  *)
(* waits until that group is initialized.  Only then does a server with a  *)
(* seed ask the seed to add it; when the request was accepted it opens its *)
(* client port, although it may not have been invited yet.  The leader     *)
(* invites it, copies the log to it and commits the configuration with it. *)
(* A process may crash and be started again under its id, with or without  *)
(* a seed: nothing of what it held has survived.                           *)
(*                                                                         *)
(* One server, First, has no seed and is the seed of all others, as in     *)
(* docker/start_servers; it is not started again, which would found a      *)
(* second cluster.  The cluster is the group First founds.  Every other    *)
(* server is in the cluster (joined) or alone in a group of its own.       *)
(***************************************************************************)
EXTENDS Integers, Sequences, FiniteSets, FiniteSetsExt

CONSTANTS Server,        \* server processes
          First,         \* the server that starts the cluster
          None,          \* no server
          Retries,       \* initialization_retries_
          MaxRestarts,   \* bound on processes started again
          MaxCrashes,    \* bound on crashes
          MaxElections,  \* bound on changes of the leader
          Written,       \* the servers that clients write to
          MaxWrites      \* bound on client writes

ASSUME MembershipAssumption ==
  /\ First \in Server /\ None \notin Server /\ Written \subseteq Server
  /\ Retries \in Nat \ {0} /\ MaxRestarts \in Nat
  /\ MaxCrashes \in Nat /\ MaxElections \in Nat /\ MaxWrites \in Nat

VARIABLES stage,        \* where main is: off, init, join, run
          seeded,       \* whether -seed was given to this process
          starts,       \* how often a server was started
          restarts,     \* number of processes started again
          tries,        \* rounds of the initialization loop
          ready,        \* is_initialized()
          reply,        \* the answer to the JOIN RPC of a server
          joined,       \* whether the Raft instance follows the cluster
          saved_config, \* inmem_state_mgr::saved_config_
          have,         \* how much of the cluster's log a server holds
          applied,      \* how much of it its state machine has applied
          spl,          \* the writes in its SplinterDB
          log,          \* the log of the cluster's leader
          commit,       \* its committed prefix
          leader,       \* the leader of the cluster, or None
          srv_to_join,  \* the server the leader is adding, or None
          waiting,      \* answers of handlers that wait in append_entries
          forwarded,    \* JOINs on their way from the seed to the leader
          acked,        \* history: writes whose client was told success
          writes,       \* number of client writes
          crashes,      \* number of crashes
          elections,    \* number of changes of the leader
          added,        \* history: which start of a server was added
          forgot,       \* history: whether a member was started again
          cut           \* history: whether committed entries were cut off

procVars == <<stage, seeded, starts, restarts, tries, ready, reply>>
replicaVars == <<joined, saved_config, have, applied, spl>>
clusterVars == <<log, commit, leader, srv_to_join>>
clientVars == <<waiting, forwarded, acked, writes>>
boundVars == <<crashes, elections, added, forgot, cut>>
vars == <<procVars, replicaVars, clusterVars, clientVars, boundVars>>

NoReply == [code |-> "none", term |-> 0]
Conf(S) == [kind |-> "conf", servers |-> S, id |-> 0]
App(w) == [kind |-> "app", servers |-> {}, id |-> w]

Up(s) == stage[s] # "off"
IsMajority(S, config) == 2 * Cardinality(S) > Cardinality(config)

(* The writes among the first m entries of the log; the servers that some  *)
(* configuration in the log names.                                         *)
LogWrites(m) == {log[p].id : p \in {q \in 1..m : log[q].kind = "app"}}
Named == UNION {log[p].servers : p \in 1..Len(log)}

Init ==
  /\ stage = [s \in Server |-> "off"]
  /\ seeded = [s \in Server |-> FALSE]
  /\ starts = [s \in Server |-> 0] /\ restarts = 0
  /\ tries = [s \in Server |-> 0]
  /\ ready = [s \in Server |-> FALSE]
  /\ reply = [s \in Server |-> NoReply]
  /\ joined = [s \in Server |-> FALSE]
  /\ saved_config = [s \in Server |-> {}]
  /\ have = [s \in Server |-> 0]
  /\ applied = [s \in Server |-> 0]
  /\ spl = [s \in Server |-> {}]
  /\ log = <<>> /\ commit = 0 /\ leader = None /\ srv_to_join = None
  /\ waiting = {} /\ forwarded = {} /\ acked = {} /\ writes = 0
  /\ crashes = 0 /\ elections = 0 /\ added = {} /\ forgot = FALSE /\ cut = FALSE
-----------------------------------------------------------------------------
(* The server process: main, server::server, replica::replica *)

(* The first start of a server, or one of the restarts. *)
MayStart(s) ==
  \/ starts[s] = 0 /\ UNCHANGED restarts
  \/ s # First /\ starts[s] > 0 /\ restarts < MaxRestarts /\ restarts' = restarts + 1

(* Faulty variant: the SplinterDB that is there is opened again. *)
start_reopens(s) ==
  /\ stage[s] = "off" /\ MayStart(s)
  /\ stage' = [stage EXCEPT ![s] = "init"]
  /\ \E with_seed \in IF s = First THEN {FALSE} ELSE IF starts[s] = 0 THEN {TRUE} ELSE BOOLEAN :
        seeded' = [seeded EXCEPT ![s] = with_seed]
  /\ starts' = [starts EXCEPT ![s] = @ + 1]
  /\ saved_config' = [saved_config EXCEPT ![s] = {s}]
  /\ forgot' = (forgot \/ s \in Named)
  /\ UNCHANGED <<tries, ready, reply, joined, have, applied, spl, clusterVars, clientVars,
                 crashes, elections, added, cut>>

(* The state manager starts with a configuration of this server alone, the *)
(* log store is empty, and splinterdb_create makes an empty SplinterDB.    *)
(* Whoever starts a server again may leave out the seed.                   *)
start(s) ==
  /\ stage[s] = "off" /\ MayStart(s)
  /\ stage' = [stage EXCEPT ![s] = "init"]
  /\ \E with_seed \in IF s = First THEN {FALSE} ELSE IF starts[s] = 0 THEN {TRUE} ELSE BOOLEAN :
        seeded' = [seeded EXCEPT ![s] = with_seed]
  /\ starts' = [starts EXCEPT ![s] = @ + 1]
  /\ saved_config' = [saved_config EXCEPT ![s] = {s}]
  /\ spl' = [spl EXCEPT ![s] = {}]
  /\ forgot' = (forgot \/ s \in Named)
  /\ UNCHANGED <<tries, ready, reply, joined, have, applied, clusterVars, clientVars,
                 crashes, elections, added, cut>>

(* The Raft instance elects itself, the only member of its configuration,  *)
(* and commits that configuration.  For First this is the cluster.         *)
become_ready(s) ==
  /\ stage[s] = "init" /\ ~ready[s]
  /\ ready' = [ready EXCEPT ![s] = TRUE]
  /\ IF s = First
     THEN /\ log' = <<Conf({s})>> /\ commit' = 1 /\ leader' = s
          /\ joined' = [joined EXCEPT ![s] = TRUE]
          /\ have' = [have EXCEPT ![s] = 1]
          /\ applied' = [applied EXCEPT ![s] = 1]
     ELSE UNCHANGED <<log, commit, leader, joined, have, applied>>
  /\ UNCHANGED <<stage, seeded, starts, restarts, tries, reply, saved_config, spl, srv_to_join,
                 clientVars, boundVars>>

(* The process of s ends, and with it all that it held. *)
exit(s) ==
  /\ stage' = [stage EXCEPT ![s] = "off"]
  /\ seeded' = [seeded EXCEPT ![s] = FALSE]
  /\ tries' = [tries EXCEPT ![s] = 0]
  /\ ready' = [ready EXCEPT ![s] = FALSE]
  /\ joined' = [joined EXCEPT ![s] = FALSE]
  /\ saved_config' = [saved_config EXCEPT ![s] = {}]
  /\ have' = [have EXCEPT ![s] = 0]
  /\ applied' = [applied EXCEPT ![s] = 0]
  /\ leader' = IF leader = s THEN None ELSE leader
  /\ srv_to_join' = IF leader = s THEN None ELSE srv_to_join
  /\ waiting' = {w \in waiting : w.srv # s}
  /\ forwarded' = {f \in forwarded : f[2] # s}
  /\ UNCHANGED <<starts, restarts, spl, log, commit, acked, writes>>

(* Faulty variant: waits without a limit. *)
initialize_for_ever(s) ==
  /\ stage[s] = "init"
  /\ ready[s]
  /\ stage' = [stage EXCEPT ![s] = IF seeded[s] THEN "join" ELSE "run"]
  /\ UNCHANGED <<seeded, starts, restarts, tries, ready, reply, replicaVars, clusterVars, clientVars, boundVars>>

(* Faulty variant: counts one round too many. *)
initialize_one_more(s) ==
  /\ stage[s] = "init" /\ tries' = [tries EXCEPT ![s] = @ + 1] /\ tries[s] <= Retries
  /\ stage' = [stage EXCEPT ![s] = IF ~ready[s] THEN "init" ELSE IF seeded[s] THEN "join" ELSE "run"]
  /\ UNCHANGED <<seeded, starts, restarts, ready, reply, replicaVars, clusterVars, clientVars, boundVars>>

(* One round of the loop of replica::initialize; after the last one the    *)
(* process gives up.                                                       *)
initialize(s) ==
  /\ stage[s] = "init"
  /\ \/ /\ tries[s] < Retries /\ ready[s]
        /\ stage' = [stage EXCEPT ![s] = IF seeded[s] THEN "join" ELSE "run"]
        /\ UNCHANGED <<seeded, starts, restarts, tries, ready, reply, replicaVars, clusterVars, clientVars>>
     \/ /\ tries[s] < Retries /\ ~ready[s]
        /\ tries' = [tries EXCEPT ![s] = @ + 1]
        /\ UNCHANGED <<stage, seeded, starts, restarts, ready, reply, replicaVars, clusterVars, clientVars>>
     \/ tries[s] = Retries /\ exit(s) /\ UNCHANGED reply
  /\ UNCHANGED boundVars

(* A configuration in the leader's log that it has not applied yet. *)
config_changing == \E p \in applied[leader] + 1 .. Len(log) : log[p].kind = "conf"

(* What add_srv answers; on a server that is not the leader it is passed   *)
(* on to the leader.                                                       *)
add_srv_code(s) ==
  IF leader = None THEN "NOT_LEADER"
  ELSE IF s \in saved_config[leader] THEN "SERVER_ALREADY_EXISTS"
  ELSE IF config_changing THEN "CONFIG_CHANGING"
  ELSE IF srv_to_join # None THEN "SERVER_IS_JOINING"
  ELSE "OK"

(* Faulty variant: the code is not looked at. *)
add_server_always_ok(s) ==
  /\ stage[s] = "join" /\ reply[s] = NoReply /\ stage[First] = "run"
  /\ reply' = [reply EXCEPT ![s] = [code |-> "OK", term |-> elections]]
  /\ srv_to_join' = IF add_srv_code(s) = "OK" THEN s ELSE srv_to_join
  /\ UNCHANGED <<stage, seeded, starts, restarts, tries, ready, replicaVars, log, commit, leader,
                 clientVars, boundVars>>

(* The JOIN handler of the seed, which has one thread and runs once the    *)
(* seed is up, calls replica::add_server.  The addition has only begun     *)
(* when this answers.  A seed that is not the leader may answer without a  *)
(* result, while the request is on its way.                                *)
add_server(s) ==
  /\ stage[s] = "join" /\ reply[s] = NoReply /\ stage[First] = "run"
  /\ \/ /\ reply' = [reply EXCEPT ![s] = [code |-> add_srv_code(s), term |-> elections]]
        /\ srv_to_join' = IF add_srv_code(s) = "OK" THEN s ELSE srv_to_join
        /\ UNCHANGED forwarded
     \/ /\ leader \in Server \ {First}
        /\ reply' = [reply EXCEPT ![s] = [code |-> "RESULT_NOT_EXIST_YET", term |-> elections]]
        /\ forwarded' = forwarded \cup {<<s, leader>>}
        /\ UNCHANGED srv_to_join
  /\ UNCHANGED <<stage, seeded, starts, restarts, tries, ready, replicaVars, log, commit, leader,
                 waiting, acked, writes, boundVars>>

(* Such a request arrives, perhaps when the process it is about has ended  *)
(* or the server it was sent to leads no more.                             *)
forward_arrives(s) ==
  /\ \E l \in Server :
       /\ <<s, l>> \in forwarded
       /\ forwarded' = forwarded \ {<<s, l>>}
       /\ srv_to_join' = IF leader = l /\ add_srv_code(s) = "OK" THEN s ELSE srv_to_join
  /\ UNCHANGED <<procVars, replicaVars, log, commit, leader, waiting, acked, writes, boundVars>>

(* Faulty variant: to be a member already counts as success. *)
try_join_cluster_if_member(s) ==
  /\ stage[s] = "join" /\ reply[s] # NoReply
  /\ \/ /\ reply[s].code \in {"OK", "SERVER_ALREADY_EXISTS"}
        /\ stage' = [stage EXCEPT ![s] = "run"]
        /\ UNCHANGED <<seeded, starts, restarts, tries, ready, reply, replicaVars, clusterVars, clientVars>>
     \/ /\ reply[s].code \notin {"OK", "SERVER_ALREADY_EXISTS"}
        /\ exit(s) /\ reply' = [reply EXCEPT ![s] = NoReply]
  /\ UNCHANGED boundVars

(* try_join_cluster has its answer: the server opens its client port       *)
(* (server::run), or ends.                                                 *)
try_join_cluster(s) ==
  /\ stage[s] = "join" /\ reply[s] # NoReply
  /\ \/ /\ reply[s].code = "OK"
        /\ stage' = [stage EXCEPT ![s] = "run"]
        /\ UNCHANGED <<seeded, starts, restarts, tries, ready, reply, replicaVars, clusterVars, clientVars>>
     \/ /\ reply[s].code # "OK"
        /\ exit(s) /\ reply' = [reply EXCEPT ![s] = NoReply]
  /\ UNCHANGED boundVars

(* A crash; answers under way from this server are lost with it. *)
crash(s) ==
  /\ Up(s) /\ crashes < MaxCrashes
  /\ crashes' = crashes + 1
  /\ exit(s)
  /\ reply' = [t \in Server |-> IF t = s \/ (s = First /\ stage[t] = "join")
                               THEN NoReply ELSE reply[t]]
  /\ UNCHANGED <<elections, added, forgot, cut>>
-----------------------------------------------------------------------------
(* NuRaft: adding a server *)

(* s follows the cluster from an empty log; its own group is no more. *)
follow(s) ==
  /\ joined' = [joined EXCEPT ![s] = TRUE]
  /\ have' = [have EXCEPT ![s] = 0]
  /\ applied' = [applied EXCEPT ![s] = 0]
  /\ ready' = [ready EXCEPT ![s] = TRUE]

(* The invitation of the leader reaches s; s takes over its configuration. *)
join_cluster_req(s) ==
  /\ srv_to_join = s /\ Up(s) /\ ~joined[s]
  /\ follow(s)
  /\ saved_config' = [saved_config EXCEPT ![s] = saved_config[leader]]
  /\ UNCHANGED <<stage, seeded, starts, restarts, tries, reply, spl, clusterVars, clientVars, boundVars>>

(* A server started again is found by the leader it followed before. *)
append_entries_req(s) ==
  /\ leader # None /\ s \in saved_config[leader]
  /\ Up(s) /\ ~joined[s]
  /\ follow(s)
  /\ UNCHANGED <<stage, seeded, starts, restarts, tries, reply, saved_config, spl, clusterVars,
                 clientVars, boundVars>>

(* The entries a member, or the server being added, does not have are      *)
(* copied to it.                                                           *)
replicate(s) ==
  /\ leader # None /\ joined[s] /\ have[s] < Len(log)
  /\ s \in saved_config[leader] \cup {srv_to_join}
  /\ have' = [have EXCEPT ![s] = Len(log)]
  /\ UNCHANGED <<procVars, joined, saved_config, applied, spl, clusterVars, clientVars, boundVars>>

append(e) ==
  /\ log' = Append(log, e)
  /\ have' = [have EXCEPT ![leader] = Len(log) + 1]

(* The new server holds the whole log: the configuration with it is put    *)
(* into the log.                                                           *)
sync_done ==
  /\ srv_to_join # None /\ joined[srv_to_join] /\ have[srv_to_join] = Len(log)
  /\ append(Conf(saved_config[leader] \cup {srv_to_join}))
  /\ srv_to_join' = None
  /\ added' = added \cup {<<srv_to_join, starts[srv_to_join]>>}
  /\ UNCHANGED <<procVars, joined, saved_config, applied, spl, commit, leader, clientVars,
                 crashes, elections, forgot, cut>>

(* The leader gives up a server that does not answer any more. *)
reset_srv_to_join ==
  /\ srv_to_join # None /\ ~Up(srv_to_join)
  /\ srv_to_join' = None
  /\ UNCHANGED <<procVars, replicaVars, log, commit, leader, clientVars, boundVars>>

(* What a majority of the leader's configuration holds is committed. *)
advance_commit ==
  /\ leader # None
  /\ LET held(m) == {s \in saved_config[leader] : joined[s] /\ have[s] >= m}
         agreed == {m \in commit + 1 .. Len(log) : IsMajority(held(m), saved_config[leader])}
     IN \E m \in agreed : commit' = m /\ \A k \in agreed : k <= m
  /\ UNCHANGED <<procVars, replicaVars, log, leader, srv_to_join, clientVars, boundVars>>

(* s becomes the leader by the votes of its configuration.  The addition   *)
(* the old leader was at is forgotten.                                     *)
elect(s) ==
  /\ elections < MaxElections
  /\ s # leader /\ Up(s) /\ joined[s] /\ s \in saved_config[s]
  /\ saved_config[s] # {s} \/ s = First
  /\ IsMajority({v \in saved_config[s] : joined[v] /\ have[v] <= have[s]}, saved_config[s])
  /\ leader' = s
  /\ srv_to_join' = None
  /\ elections' = elections + 1
  /\ log' = SubSeq(log, 1, have[s])
  /\ cut' = (cut \/ have[s] < commit)
  /\ commit' = Min({commit, have[s]})
  /\ have' = [t \in Server |-> Min({have[t], have[s]})]
  /\ applied' = [t \in Server |-> Min({applied[t], have[s]})]
  /\ UNCHANGED <<procVars, joined, saved_config, spl, clientVars, crashes, added, forgot>>
-----------------------------------------------------------------------------
(* State machines, state managers and clients *)

new_write == writes < MaxWrites /\ writes' = writes + 1
Ack(w, s, own) ==
  [id |-> w, srv |-> s, own |-> own, seeded |-> seeded[s], start |-> starts[s]]

(* The commit thread applies a write, or saves a configuration.  On the    *)
(* leader this answers the handler that waits in append_entries.           *)
apply(s) ==
  /\ joined[s] /\ applied[s] < have[s] /\ applied[s] < commit
  /\ applied' = [applied EXCEPT ![s] = @ + 1]
  /\ LET e == log[applied[s] + 1]
     IN \/ /\ e.kind = "app"
           /\ spl' = [spl EXCEPT ![s] = @ \cup {e.id}]
           /\ acked' = acked \cup {a \in waiting : a.id = e.id /\ s = leader}
           /\ waiting' = waiting \ acked'
           /\ UNCHANGED saved_config
        \/ /\ e.kind = "conf"
           /\ saved_config' = [saved_config EXCEPT ![s] = e.servers]
           /\ UNCHANGED <<spl, acked, waiting>>
  /\ UNCHANGED <<procVars, joined, have, clusterVars, forwarded, writes, boundVars>>

(* A mutation at a server that is alone in its group: it is the leader,    *)
(* commits at once and answers with success.                               *)
write_alone(s) ==
  /\ s \in Written /\ stage[s] = "run" /\ ~joined[s] /\ new_write
  /\ spl' = [spl EXCEPT ![s] = @ \cup {writes'}]
  /\ acked' = acked \cup {Ack(writes', s, TRUE)}
  /\ UNCHANGED <<procVars, joined, saved_config, have, applied, clusterVars, waiting, forwarded,
                 boundVars>>

(* Faulty variant: without return_method_ blocking. *)
write_no_wait(s) ==
  /\ s \in Written /\ stage[s] = "run" /\ joined[s] /\ leader # None /\ new_write
  /\ s \in saved_config[leader] \cup {srv_to_join}
  /\ append(App(writes'))
  /\ acked' = acked \cup {Ack(writes', s, FALSE)}
  /\ UNCHANGED <<procVars, joined, saved_config, applied, spl, commit, leader, srv_to_join,
                 waiting, forwarded, boundVars>>

(* A mutation at a server that hears from the leader goes into its log and *)
(* waits.                                                                  *)
write(s) ==
  /\ s \in Written /\ stage[s] = "run" /\ joined[s] /\ leader # None /\ new_write
  /\ s \in saved_config[leader] \cup {srv_to_join}
  /\ append(App(writes'))
  /\ waiting' = waiting \cup {Ack(writes', s, FALSE)}
  /\ UNCHANGED <<procVars, joined, saved_config, applied, spl, commit, leader, srv_to_join,
                 forwarded, acked, boundVars>>
-----------------------------------------------------------------------------
Process(s) == initialize(s) \/ try_join_cluster(s)
Raft(s) == join_cluster_req(s) \/ append_entries_req(s) \/ replicate(s) \/ apply(s)

Next ==
  \/ \E s \in Server : \/ start(s) \/ become_ready(s) \/ Process(s)
                       \/ add_server(s) \/ forward_arrives(s)
                       \/ crash(s) \/ Raft(s) \/ elect(s)
                       \/ write_alone(s) \/ write(s)
  \/ sync_done \/ reset_srv_to_join \/ advance_commit

Spec == Init /\ [][Next]_vars

(* Processes run on, the seed's join thread answers, and NuRaft repeats    *)
(* what was not answered.  That an instance becomes ready is not taken for *)
(* granted: the code limits how long it waits for that.                    *)
FairSpec ==
  /\ Spec
  /\ \A s \in Server : /\ WF_vars(Process(s)) /\ WF_vars(add_server(s))
                       /\ WF_vars(Raft(s))
  /\ WF_vars(sync_done) /\ WF_vars(reset_srv_to_join) /\ WF_vars(advance_commit)
-----------------------------------------------------------------------------
(* Properties *)

(* The type invariant; the ports are opened by initialized replicas only,  *)
(* and a leader that adds a server is in the cluster with its whole log.   *)
MembershipTypeOK ==
  /\ stage \in [Server -> {"off", "init", "join", "run"}]
  /\ seeded \in [Server -> BOOLEAN] /\ ready \in [Server -> BOOLEAN]
  /\ starts \in [Server -> 0 .. MaxRestarts + 1] /\ tries \in [Server -> 0 .. Retries]
  /\ joined \in [Server -> BOOLEAN]
  /\ \A s \in Server : stage[s] \in {"join", "run"} => ready[s] /\ saved_config[s] # {}
  /\ saved_config \in [Server -> SUBSET Server]
  /\ \A s \in Server : applied[s] <= have[s] /\ have[s] <= Len(log)
  /\ commit \in 0 .. Len(log)
  /\ leader # None => joined[leader] /\ have[leader] = Len(log)
  /\ srv_to_join # None => leader # None
  /\ forwarded \subseteq Server \X Server

(* What a client was told is kept.  A write acknowledged by a server of    *)
(* the cluster stays in the committed log while no member has been started *)
(* again with its memory gone; no write is lost to servers being added or  *)
(* to changes of the leader.  This holds for up to four servers, and       *)
(* docker/start_servers starts three: from five on, followers that lag two *)
(* configurations behind are a majority of the one they elect by.          *)
AckedIsKept ==
  ~forgot => \A a \in acked : ~a.own => a.id \in LogWrites(commit)

(* A replica holds the effect of the log it has applied, and besides that  *)
(* only what it acknowledged itself before the leader found it: those      *)
(* writes stay in its SplinterDB, on this replica alone.                   *)
OnlyOwnRemains ==
  ~cut => \A s \in Server :
    Up(s) => spl[s] = LogWrites(applied[s])
                        \cup {a.id : a \in {b \in acked : b.own /\ b.srv = s /\ b.start = starts[s]}}

(* A member that comes back with its seed never serves clients: its JOIN   *)
(* is refused because its id is taken, and it ends.  So clients meet an    *)
(* empty replica under an old id only if it was started without a seed, or *)
(* if the configuration that named it was committed and lost again.        *)
SeededServesOnce ==
  ~cut => \A s \in Server :
    stage[s] = "run" /\ seeded[s] /\ leader # None /\ s \in saved_config[leader]
      => <<s, starts[s]>> \in added

(* main gets past its waits: the replica is initialized or gives up, and   *)
(* the JOIN RPC is answered, unless the seed is not there.                 *)
StartEnds ==
  \A s \in Server : /\ []<>(stage[s] # "init")
                    /\ []<>(stage[s] # "join" \/ stage[First] # "run")

(* The leader that accepted the JOIN of s is still there, and so is s, but *)
(* no configuration names s.                                               *)
AcceptedOnly(s) ==
  /\ reply[s].code = "OK" /\ reply[s].term = elections /\ leader # None
  /\ Up(s) /\ s \notin Named

(* A server that was told its JOIN succeeded is put into a configuration,  *)
(* unless it ends or the leader that accepted it is replaced or ends.      *)
JoinCompletes == \A s \in Server : []<>~AcceptedOnly(s)

(* "If empty, this server will start a new cluster": with a seed it does   *)
(* not, so it never acknowledges a write on its own.                       *)
SeededIsNotAlone == \A a \in acked : a.own => ~a.seeded
=============================================================================
