-------------------------- MODULE LogStoreContract --------------------------
(***************************************************************************)
(* What NuRaft asks of a log store: a sequence of entries, the first of    *)
(* which has index start.  Appending adds at the end, writing at an index  *)
(* truncates there, compacting drops a prefix and may leave the store      *)
(* empty with a higher start.  A pack of entries is laid over the store    *)
(* one by one; no other operation runs meanwhile.                          *)
(***************************************************************************)
EXTENDS Integers, Sequences

CONSTANT Entry

VARIABLES start,     \* start_index()
          ents,      \* the entries; next_slot() is start + Len(ents)
          unpacking  \* apply_pack is under way

contractVars == <<start, ents, unpacking>>

ContractInit == start = 1 /\ ents = <<>> /\ unpacking = FALSE

Add(e) == ents' = Append(ents, e) /\ UNCHANGED <<start, unpacking>>

WriteAt(idx, e) ==
  /\ ~unpacking
  /\ ents' = Append(SubSeq(ents, 1, idx - start), e)
  /\ UNCHANGED <<start, unpacking>>

Compact(last) ==
  /\ ~unpacking
  /\ start' = last + 1
  /\ ents' = SubSeq(ents, last - start + 2, Len(ents))
  /\ UNCHANGED unpacking

BeginOrEndPack == unpacking' = ~unpacking /\ UNCHANGED <<start, ents>>

(* One entry of a pack: into an empty store at any index, otherwise over   *)
(* an entry or behind the last one.                                        *)
Overwrite(p, e) ==
  /\ unpacking
  /\ ents' = [ents EXCEPT ![p] = e]
  /\ UNCHANGED <<start, unpacking>>

Rebase(e) ==
  /\ unpacking
  /\ ents = <<>> /\ ents' = <<e>>
  /\ start' \in Nat \ {0}
  /\ UNCHANGED unpacking

ContractNext ==
  \/ \E e \in Entry : \/ Add(e) \/ Rebase(e)
                      \/ \E idx \in start .. start + Len(ents) : WriteAt(idx, e)
                      \/ \E p \in 1..Len(ents) : Overwrite(p, e)
  \/ start' \in Nat /\ start' > start /\ Compact(start' - 1)
  \/ BeginOrEndPack

ContractSpec == ContractInit /\ [][ContractNext]_contractVars
=============================================================================
