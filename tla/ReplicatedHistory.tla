-------------------------- MODULE ReplicatedHistory --------------------------
(***************************************************************************)
(* What the replicated store promises, without requests, leaders or logs:  *)
(* there is one history of entries, which only grows; every replica works  *)
(* it off in order, one entry at a time, without skipping or going back,   *)
(* and its store is what the entries it has worked off leave behind.       *)
(***************************************************************************)
EXTENDS Types, Sequences, SequencesExt

VARIABLES hist,     \* the agreed history
          applied,  \* applied[s]: how much of it replica s has worked off
          store     \* store[s]: the contents of replica s

histVars == <<hist, applied, store>>

HistInit ==
  /\ hist = <<>>
  /\ applied = [s \in Server |-> 0]
  /\ store = [s \in Server |-> [k \in Key |-> NotFound]]

(* More entries are agreed on. *)
Agree ==
  /\ IsPrefix(hist, hist') /\ hist' # hist
  /\ UNCHANGED <<applied, store>>

(* Replica s works off its next entry. *)
Apply(s) ==
  /\ applied[s] < Len(hist)
  /\ applied' = [applied EXCEPT ![s] = @ + 1]
  /\ LET e == hist[applied[s] + 1] IN
       store' = IF e.kind = "app"
                THEN [store EXCEPT ![s][e.op.key] = e.op.value] ELSE store
  /\ UNCHANGED hist

HistNext == Agree \/ \E s \in Server : Apply(s)

HistSpec == HistInit /\ [][HistNext]_histVars
=============================================================================
