---------------------------- MODULE InMemLogStore ----------------------------
(***************************************************************************)
(* nuraft::inmem_log_store: the log a replica keeps in memory.  Every      *)
(* critical section of logs_lock_ is one step.  The writers (append,       *)
(* write_at, compact, apply_pack) run on Raft's threads one at a time; a   *)
(* reader runs beside them, one critical section after the other.  With    *)
(* Delay > 0 the store emulates a slow disk: an index becomes durable when *)
(* the thread of disk_emul_loop finds that its time has come.              *)
(*                                                                         *)
(* Raft's side of the interface is external: it writes behind what is      *)
(* committed, compacts what is committed, after a snapshot moves the store *)
(* beyond its last entry, and packs no entry that the store has compacted. *)
(***************************************************************************)
EXTENDS Integers, Sequences, FiniteSets, FiniteSetsExt, Functions

CONSTANTS Entry,     \* entries (term and payload)
          Dummy,     \* the entry at index 0: term 0, no payload
          Workloads, \* what the store is used for: calls, and disk_emul_delay
          MaxIndex,  \* bound on log indices
          MaxPack,   \* bound on the entries of a pack
          MaxTime    \* bound on the clock

ASSUME LogStoreAssumption ==
  /\ Dummy \notin Entry
  /\ \A w \in Workloads : w.delay \in Nat
  /\ MaxIndex \in Nat /\ MaxPack \in Nat /\ MaxTime \in Nat

VARIABLES load,           \* the workload
          logs,           \* logs_, the dummy entry at 0 included
          start_idx,      \* start_idx_
          packing,        \* apply_pack under way: next index and what is left
          being_written,  \* disk_emul_logs_being_written_: time -> index
          durable,        \* disk_emul_last_durable_index_
          now,            \* the clock
          written,        \* the index that went to the disk last
          reader,         \* the call of the reader
          agreed,         \* Raft: the committed entries, by index
          sure            \* how much of it was so when the reader's call began

storeVars == <<logs, start_idx, packing>>
diskVars == <<being_written, durable, now, written>>
raftVars == <<agreed, sure>>
vars == <<load, storeVars, diskVars, reader, raftVars>>

Delay == load.delay
Calls == load.calls

NoPack == [idx |-> 0, left |-> <<>>]
NoCall == [op |-> "none"]

LogInit ==
  /\ load \in Workloads
  /\ logs = [k \in {0} |-> Dummy]
  /\ start_idx = 1
  /\ packing = NoPack
  /\ being_written = <<>>
  /\ durable = 0 /\ now = 0 /\ written = 0
  /\ reader = NoCall
  /\ agreed = <<>> /\ sure = 0

(* f[k] = v of a std::map. *)
assign(f, k, v) == [x \in {k} \cup DOMAIN f |-> IF x = k THEN v ELSE f[x]]

(* Faulty variant: the dummy entry is counted. *)
next_slot_with_dummy == start_idx + Cardinality(DOMAIN logs)

(* The size of logs_ counts the dummy entry. *)
next_slot == start_idx + Cardinality(DOMAIN logs) - 1

(* logs_.find(idx) or else the dummy entry: entry_at, term_at. *)
entry_at(idx) == IF idx \in DOMAIN logs THEN logs[idx] ELSE logs[0]

(* The entries without the dummy, and the last of them. *)
Keys(lg) == DOMAIN lg \ {0}
Last(lg) == IF Keys(lg) = {} THEN Dummy ELSE lg[Max(Keys(lg))]

(* Raft's threads: one writer at a time.  committed is Raft's commit index. *)
Raft(op) == op \in Calls /\ packing = NoPack
committed == Len(agreed)

(* What a last_entry call that is under way could notice of a write. *)
Watched(lg, unpacking) ==
  IF reader.op = "last_entry"
  THEN [reader EXCEPT !.seen = @ \cup {Last(lg)},
                      !.shrunk = @ \/ ~(DOMAIN logs \subseteq DOMAIN lg),
                      !.unpacked = @ \/ unpacking]
  ELSE reader
-----------------------------------------------------------------------------
(* Writers *)

(* Faulty variant: write_at forgets its own index as well. *)
to_disk_forgets_own(idx, forget) ==
  /\ IF Delay = 0
     THEN UNCHANGED <<being_written, written>>
     ELSE /\ now + Delay <= MaxTime
          /\ written' = idx
          /\ LET bw == assign(being_written, now + Delay, idx)
             IN being_written' =
                  Restrict(bw, {t \in DOMAIN bw : forget => bw[t] < idx})
  /\ UNCHANGED <<durable, now>>

(* An index goes to the emulated disk; write_at forgets the higher ones. *)
to_disk(idx, forget) ==
  /\ IF Delay = 0
     THEN UNCHANGED <<being_written, written>>
     ELSE /\ now + Delay <= MaxTime
          /\ written' = idx
          /\ LET bw == assign(being_written, now + Delay, idx)
             IN being_written' =
                  Restrict(bw, {t \in DOMAIN bw : forget => bw[t] <= idx})
  /\ UNCHANGED <<durable, now>>

append(e) ==
  /\ Raft("append") /\ next_slot <= MaxIndex
  /\ logs' = assign(logs, next_slot, e)
  /\ to_disk(next_slot, FALSE)
  /\ reader' = Watched(logs', FALSE)
  /\ UNCHANGED <<load, start_idx, packing, raftVars>>

(* Faulty variant: the entries behind index stay. *)
write_at_keeps_tail(index, e) ==
  /\ Raft("write_at")
  /\ index > committed /\ index \in start_idx .. next_slot /\ index <= MaxIndex
  /\ logs' = assign(logs, index, e)
  /\ to_disk(index, TRUE)
  /\ reader' = Watched(logs', FALSE)
  /\ UNCHANGED <<load, start_idx, packing, raftVars>>

(* Everything from index on is discarded. *)
write_at(index, e) ==
  /\ Raft("write_at")
  /\ index > committed /\ index \in start_idx .. next_slot /\ index <= MaxIndex
  /\ logs' = assign(Restrict(logs, {k \in DOMAIN logs : k < index}), index, e)
  /\ to_disk(index, TRUE)
  /\ reader' = Watched(logs', FALSE)
  /\ UNCHANGED <<load, start_idx, packing, raftVars>>

(* Faulty variant: start_idx_ moves only as far as entries were erased. *)
compact_only_erased(last_log_index) ==
  /\ Raft("compact")
  /\ last_log_index <= committed \/ last_log_index >= next_slot
  /\ logs' = Restrict(logs, DOMAIN logs \ (start_idx .. last_log_index))
  /\ start_idx' = start_idx + Cardinality(DOMAIN logs) - Cardinality(DOMAIN logs')
  /\ agreed' = [k \in 1 .. Max({committed, last_log_index}) |->
                  IF k <= committed THEN agreed[k] ELSE Dummy]
  /\ reader' = Watched(logs', FALSE)
  /\ UNCHANGED <<load, packing, diskVars, sure>>

(* start_idx_ moves even if nothing was erased. *)
compact(last_log_index) ==
  /\ Raft("compact")
  /\ last_log_index <= committed \/ last_log_index >= next_slot
  /\ logs' = Restrict(logs, DOMAIN logs \ (start_idx .. last_log_index))
  /\ start_idx' = IF start_idx <= last_log_index THEN last_log_index + 1
                                                ELSE start_idx
  /\ agreed' = [k \in 1 .. Max({committed, last_log_index}) |->
                  IF k <= committed THEN agreed[k] ELSE Dummy]
  /\ reader' = Watched(logs', FALSE)
  /\ UNCHANGED <<load, packing, diskVars, sure>>

(* What is left of n committed entries when a pack begins at index. *)
Below(n, index) == IF n < index THEN n ELSE index - 1

(* apply_pack: one critical section per entry, a last one for start_idx_.  *)
(* The pack of a joining server may begin at what it had committed in its  *)
(* group of one: those entries are overlaid and count as committed no      *)
(* more.  A tail behind the pack stays.                                    *)
apply_pack(index, pack) ==
  /\ Raft("apply_pack")
  /\ index >= start_idx /\ (Keys(logs) = {} \/ index <= next_slot)
  /\ index + Len(pack) - 1 <= MaxIndex
  /\ packing' = [idx |-> index, left |-> pack]
  /\ agreed' = SubSeq(agreed, 1, Below(committed, index))
  /\ sure' = Below(sure, index)
  /\ reader' = Watched(logs, TRUE)
  /\ UNCHANGED <<load, logs, start_idx, diskVars>>

apply_pack_entry ==
  /\ packing.left # <<>>
  /\ logs' = assign(logs, packing.idx, Head(packing.left))
  /\ packing' = [idx |-> packing.idx + 1, left |-> Tail(packing.left)]
  /\ reader' = Watched(logs', TRUE)
  /\ UNCHANGED <<load, start_idx, diskVars, raftVars>>

apply_pack_end ==
  /\ packing # NoPack /\ packing.left = <<>>
  /\ start_idx' = IF Keys(logs) = {} THEN 1 ELSE Min(Keys(logs))
  /\ packing' = NoPack
  /\ UNCHANGED <<load, logs, reader, diskVars, raftVars>>

(* Raft: entries up to m are committed. *)
commit_to(m) ==
  /\ packing = NoPack
  /\ m \in committed + 1 .. next_slot - 1
  /\ agreed' = [k \in 1..m |-> IF k <= committed THEN agreed[k] ELSE entry_at(k)]
  /\ UNCHANGED <<load, storeVars, diskVars, reader, sure>>
-----------------------------------------------------------------------------
(* The emulated disk *)

(* Faulty variant: the smallest expired time is picked. *)
disk_emul_loop_first ==
  /\ Delay > 0
  /\ LET expired == {t \in DOMAIN being_written : t <= now} IN
       /\ expired # {}
       /\ durable' = being_written[Min(expired)]
       /\ being_written' = Restrict(being_written, DOMAIN being_written \ expired)
  /\ UNCHANGED <<load, storeVars, now, written, reader, raftVars>>

disk_emul_loop ==
  /\ Delay > 0
  /\ LET expired == {t \in DOMAIN being_written : t <= now} IN
       /\ expired # {}
       /\ durable' = being_written[Max(expired)]
       /\ being_written' = Restrict(being_written, DOMAIN being_written \ expired)
  /\ UNCHANGED <<load, storeVars, now, written, reader, raftVars>>

tick ==
  /\ Delay > 0 /\ now < MaxTime
  /\ now' = now + 1
  /\ UNCHANGED <<load, storeVars, being_written, durable, written, reader, raftVars>>
-----------------------------------------------------------------------------
(* The reader *)

(* Faulty variant: looks the next slot up. *)
last_entry_find_next_slot ==
  /\ reader.op = "last_entry"
  /\ reader' = [op |-> "last", res |-> entry_at(reader.next),
                seen |-> reader.seen, shrunk |-> reader.shrunk,
                unpacked |-> reader.unpacked]
  /\ UNCHANGED <<load, storeVars, diskVars, raftVars>>

(* last_entry: next_slot() and the look-up are two critical sections. *)
last_entry ==
  /\ "last_entry" \in Calls /\ reader.op \in {"none", "last", "read"}
  /\ reader' = [op |-> "last_entry", next |-> next_slot, seen |-> {Last(logs)},
                shrunk |-> FALSE, unpacked |-> packing # NoPack]
  /\ UNCHANGED <<load, storeVars, diskVars, raftVars>>

last_entry_find ==
  /\ reader.op = "last_entry"
  /\ reader' = [op |-> "last", res |-> entry_at(reader.next - 1),
                seen |-> reader.seen, shrunk |-> reader.shrunk,
                unpacked |-> reader.unpacked]
  /\ UNCHANGED <<load, storeVars, diskVars, raftVars>>

(* log_entries_ext(start, end, hint), and log_entries for hint 0: one      *)
(* critical section per entry.  Raft asks for what the store has, also for *)
(* entries that are not committed yet.  Where an index is gone when its    *)
(* turn comes, an assertion ends the process; in a build without           *)
(* assertions the dummy entry is returned.                                 *)
log_entries(start, end, hint) ==
  /\ "log_entries" \in Calls /\ reader.op \in {"none", "last", "read"}
  /\ start_idx <= start /\ start < end
  /\ end <= committed + 1 \/ (packing = NoPack /\ end <= next_slot)
  /\ sure' = committed
  /\ reader' = IF hint < 0
               THEN [op |-> "read", start |-> start, got |-> <<>>]
               ELSE [op |-> "log_entries", start |-> start, end |-> end, hint |-> hint,
                     got |-> <<>>]
  /\ UNCHANGED <<load, storeVars, diskVars, agreed>>

log_entries_next ==
  /\ reader.op = "log_entries"
  /\ LET got == Append(reader.got, entry_at(reader.start + Len(reader.got)))
         full == \/ reader.start + Len(got) = reader.end
                 \/ reader.hint > 0 /\ Len(got) >= reader.hint
     IN reader' = IF full
                  THEN [op |-> "read", start |-> reader.start, got |-> got]
                  ELSE [reader EXCEPT !.got = got]
  /\ UNCHANGED <<load, storeVars, diskVars, raftVars>>

Packs == UNION {[1..m -> Entry] : m \in 1..MaxPack}

LogNext ==
  \/ \E e \in Entry : append(e) \/ \E k \in 1..MaxIndex : write_at(k, e)
  \/ \E k \in 1..MaxIndex : compact(k) \/ commit_to(k)
  \/ \E k \in 1..MaxIndex, p \in Packs : apply_pack(k, p)
  \/ apply_pack_entry \/ apply_pack_end
  \/ disk_emul_loop \/ tick
  \/ last_entry \/ last_entry_find \/ log_entries_next
  \/ \E a, b \in 1 .. MaxIndex + 1, hint \in {-1, 0, 1} : log_entries(a, b, hint)

LogSpec == LogInit /\ [][LogNext]_vars

(* Time passes, and the thread of disk_emul_loop wakes up at least every   *)
(* 100 ms.                                                                 *)
FairLogSpec == LogSpec /\ WF_vars(tick) /\ WF_vars(disk_emul_loop)
-----------------------------------------------------------------------------
(* Properties *)

(* Between two writes the indices are start_idx_ .. next_slot() - 1        *)
(* without a gap, which is what makes the size of logs_ usable for         *)
(* next_slot().                                                            *)
Contiguous ==
  packing = NoPack => DOMAIN logs = {0} \cup (start_idx .. next_slot - 1)

FirstIndex == IF Keys(logs) = {} THEN start_idx ELSE Min(Keys(logs))

Contract == INSTANCE LogStoreContract
              WITH start <- FirstIndex,
                   ents <- [j \in 1..Cardinality(Keys(logs)) |->
                              entry_at(FirstIndex + j - 1)],
                   unpacking <- packing # NoPack

(* The store implements the contract of a log store, step by step: no      *)
(* interleaving of writers, packs and compaction leaves it.                *)
ImplementsContract == Contract!ContractSpec

(* A reader of a range gets the entries that were committed when it asked, *)
(* whatever is appended, truncated or unpacked meanwhile; only where       *)
(* compaction has overtaken it is such an entry missing.                   *)
CommittedReads ==
  reader.op \in {"log_entries", "read"} =>
    \A j \in DOMAIN reader.got :
      LET k == reader.start + j - 1 IN
      k <= sure => \/ reader.got[j] = agreed[k]
                   \/ reader.got[j] = Dummy /\ k < start_idx

(* assert(0) in log_entries and log_entries_ext: an entry of the range     *)
(* that was asked for is never missing.                                    *)
AssertFound ==
  reader.op \in {"log_entries", "read"} =>
    \A j \in DOMAIN reader.got : reader.got[j] # Dummy

(* last_entry returns an entry that was the last one at some moment of the *)
(* call; the dummy entry only if the store was empty or has shrunk between *)
(* the two critical sections (or a pack is being applied).                 *)
LastEntryWasLast ==
  reader.op = "last" =>
    \/ reader.res \in reader.seen
    \/ reader.res = Dummy /\ reader.shrunk
    \/ reader.unpacked

(* The index written last is on its way to the disk or durable, so its     *)
(* completion is not lost when entries are overwritten.                    *)
LastWriteTracked ==
  Delay > 0 => \/ written = durable
               \/ written \in Range(being_written)

(* Once the writers pause, what they wrote becomes durable. *)
DurableCatchesUp == []<>(durable = written)
=============================================================================
