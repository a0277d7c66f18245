------------------------ MODULE InMemLogStoreProofs ------------------------
(***************************************************************************)
(* Proofs about the log store in memory, for any entries, indices, packs   *)
(* and disk delays: its indices have no gap, readers beside the writers    *)
(* get what was committed, the emulated disk loses no completion, and the  *)
(* store implements the contract of a log store.                           *)
(***************************************************************************)
EXTENDS InMemLogStore, FiniteSetTheorems, SequenceTheorems, TLAPS

(* The indices of lg are those of m entries from index f on. *)
Span(lg, f, m) ==
  /\ f \in Nat \ {0} /\ m \in Nat
  /\ DOMAIN lg = {0} \cup (f .. f + m - 1)

Size == Cardinality(Keys(logs))
Pack == [idx : Nat \ {0}, left : Seq(Entry)]

(* What the variables of the store are. *)
StoreTypeOK ==
  /\ load \in Workloads
  /\ logs[0] = Dummy /\ \A k \in Keys(logs) : logs[k] \in Entry
  /\ start_idx \in Nat \ {0}
  /\ packing \in Pack \cup {NoPack}
  /\ agreed \in Seq(Entry \cup {Dummy})

(* Entries f .. f + m - 1, also while a pack is laid over them: it is      *)
(* behind what is committed and leaves no gap.                             *)
SpanAt(f, m) ==
  /\ Span(logs, f, m)
  /\ start_idx <= f /\ committed <= f + m - 1
  /\ packing = NoPack => f = start_idx
  /\ m = 0 => f = start_idx /\ start_idx = committed + 1
  /\ packing # NoPack => /\ committed < packing.idx
                         /\ m = 0 => packing.left # <<>>
                         /\ m > 0 => packing.idx \in f .. f + m

SpanInv == SpanAt(FirstIndex, Size)

(* The store has what is committed and not yet compacted. *)
AgreedInv ==
  \A k \in start_idx .. committed : k \in DOMAIN logs /\ logs[k] = agreed[k]

Watching == [op : {"last_entry"}, next : Nat, seen : SUBSET (Entry \cup {Dummy}),
             shrunk : BOOLEAN, unpacked : BOOLEAN]
Reading == [op : {"log_entries"}, start : Nat \ {0}, end : Nat, hint : Int,
            got : Seq(Entry \cup {Dummy})]
HasRead == [op : {"read"}, start : Nat \ {0}, got : Seq(Entry \cup {Dummy})]

(* A reader of a range has entries below its end to read; what was         *)
(* committed when it asked still is, as far as sure says.                  *)
ReaderInv ==
  /\ sure \in 0..committed
  /\ reader.op = "last_entry" => reader \in Watching
  /\ reader.op = "log_entries" => /\ reader \in Reading
                                  /\ reader.start + Len(reader.got) < reader.end
  /\ reader.op = "read" => reader \in HasRead

(* Between the critical sections of last_entry: what is at the index it is *)
(* going to look up was the last entry at some moment.                     *)
WatchInv ==
  reader.op = "last_entry" /\ ~reader.unpacked =>
    /\ packing = NoPack
    /\ IF reader.next - 1 \in Keys(logs) THEN logs[reader.next - 1] \in reader.seen
                                         ELSE reader.shrunk \/ Dummy \in reader.seen

(* The index written last is the one with the latest time. *)
DiskInv ==
  Delay > 0 =>
    /\ now \in Nat /\ DOMAIN being_written \subseteq 0 .. now + Delay
    /\ \/ DOMAIN being_written = {} /\ written = durable
       \/ \E t \in DOMAIN being_written :
            being_written[t] = written /\ \A u \in DOMAIN being_written : u <= t

StoreInv == StoreTypeOK /\ SpanInv /\ AgreedInv
-----------------------------------------------------------------------------
(* Indices *)

LEMMA MaxMin ==
  ASSUME NEW a \in Int, NEW b \in Int, a <= b
  PROVE  Max(a .. b) = b /\ Min(a .. b) = a
<1>1. b \in a .. b /\ \A y \in a .. b : b >= y
  OBVIOUS
<1>2. a \in a .. b /\ \A y \in a .. b : a <= y
  OBVIOUS
<1>3. Max(a .. b) \in a .. b /\ \A y \in a .. b : Max(a .. b) >= y
  BY <1>1 DEF Max
<1>4. Min(a .. b) \in a .. b /\ \A y \in a .. b : Min(a .. b) <= y
  BY <1>2 DEF Min
<1> QED BY <1>1, <1>2, <1>3, <1>4

LEMMA MaxOfTwo ==
  ASSUME NEW a \in Nat, NEW b \in Nat
  PROVE  Max({a, b}) = IF a >= b THEN a ELSE b
<1>1. \E x \in {a, b} : \A y \in {a, b} : x >= y
  OBVIOUS
<1>2. Max({a, b}) \in {a, b} /\ \A y \in {a, b} : Max({a, b}) >= y
  BY <1>1 DEF Max
<1> QED BY <1>2

LEMMA SpanFacts ==
  ASSUME NEW lg, NEW f, NEW m, Span(lg, f, m)
  PROVE  /\ Keys(lg) = f .. f + m - 1 /\ Cardinality(Keys(lg)) = m
         /\ Cardinality(DOMAIN lg) = m + 1
         /\ m = 0 <=> Keys(lg) = {}
         /\ m > 0 => Min(Keys(lg)) = f /\ Last(lg) = lg[f + m - 1]
         /\ m = 0 => Last(lg) = Dummy
<1>1. f \in Nat \ {0} /\ m \in Nat /\ DOMAIN lg = {0} \cup (f .. f + m - 1)
  BY DEF Span
<1>2. Keys(lg) = f .. f + m - 1
  BY <1>1 DEF Keys
<1>3. Cardinality(f .. f + m - 1) = m /\ IsFiniteSet(f .. f + m - 1)
  BY <1>1, FS_Interval
<1>4. Cardinality(DOMAIN lg) = m + 1
  <2>1. 0 \notin f .. f + m - 1 /\ DOMAIN lg = (f .. f + m - 1) \cup {0}
    BY <1>1
  <2> QED BY <1>3, <2>1, FS_AddElement
<1>5. m = 0 <=> Keys(lg) = {}
  BY <1>1, <1>2
<1>6. m > 0 => Min(Keys(lg)) = f /\ Max(Keys(lg)) = f + m - 1
  <2>1. m > 0 => f <= f + m - 1 /\ f \in Int /\ f + m - 1 \in Int
    BY <1>1
  <2> QED BY <1>2, <2>1, MaxMin
<1> QED BY <1>1, <1>2, <1>3, <1>4, <1>5, <1>6 DEF Last

(* The numbers of this state. *)
LEMMA SpanState ==
  ASSUME StoreTypeOK, SpanInv
  PROVE  /\ SpanAt(FirstIndex, Size) /\ FirstIndex \in Nat \ {0} /\ Size \in Nat
         /\ committed \in Nat /\ start_idx \in Nat \ {0}
         /\ next_slot = start_idx + Size
         /\ DOMAIN logs = {0} \cup (FirstIndex .. FirstIndex + Size - 1)
         /\ Keys(logs) = FirstIndex .. FirstIndex + Size - 1
         /\ packing = NoPack => next_slot = FirstIndex + Size /\ committed < next_slot
<1>1. SpanAt(FirstIndex, Size) /\ Span(logs, FirstIndex, Size)
  BY DEF SpanInv, SpanAt
<1>2. FirstIndex \in Nat \ {0} /\ Size \in Nat /\ committed \in Nat /\ start_idx \in Nat \ {0}
  BY <1>1 DEF Span, StoreTypeOK, committed
<1>3. Cardinality(DOMAIN logs) = Size + 1 /\ Keys(logs) = FirstIndex .. FirstIndex + Size - 1
  BY <1>1, SpanFacts
<1>4. next_slot = start_idx + Size
  BY <1>2, <1>3 DEF next_slot
<1> QED BY <1>1, <1>2, <1>3, <1>4 DEF Span, SpanAt

(* The same numbers of the next state, once its indices are known. *)
LEMMA SpanNext ==
  ASSUME NEW f, NEW m, SpanAt(f, m)'
  PROVE  SpanInv' /\ FirstIndex' = f /\ Size' = m
<1>1. Span(logs', f, m) /\ (m = 0 => f = start_idx')
  BY DEF SpanAt, Span
<1>2. Cardinality(Keys(logs')) = m /\ (m = 0 <=> Keys(logs') = {})
      /\ (m > 0 => Min(Keys(logs')) = f) /\ m \in Nat
  BY <1>1, SpanFacts DEF Span
<1>3. Size' = m
  BY <1>2 DEF Size, Keys
<1>4. FirstIndex' = f
  BY <1>1, <1>2 DEF FirstIndex, Keys
<1> QED BY <1>3, <1>4 DEF SpanInv, SpanAt, Span
-----------------------------------------------------------------------------
(* What the writers do to the indices *)

LEMMA Appends ==
  ASSUME StoreInv, NEW f, NEW m, f = FirstIndex, m = Size, NEW e \in Entry, append(e)
  PROVE  /\ packing = NoPack /\ UNCHANGED <<load, start_idx, packing, agreed>>
         /\ logs' = assign(logs, f + m, e) /\ committed' = committed
         /\ SpanAt(f, m + 1)'
<1>1. /\ packing = NoPack /\ UNCHANGED <<load, start_idx, packing, agreed>>
      /\ logs' = assign(logs, next_slot, e)
  BY DEF append, Raft, raftVars
<1>2. /\ SpanAt(f, m) /\ f \in Nat \ {0} /\ m \in Nat /\ committed \in Nat
      /\ next_slot = f + m /\ DOMAIN logs = {0} \cup (f .. f + m - 1)
  BY <1>1, SpanState DEF StoreInv
<1>3. DOMAIN logs' = {0} \cup (f .. f + (m + 1) - 1)
  <2>1. DOMAIN logs' = {f + m} \cup DOMAIN logs
    BY <1>1, <1>2 DEF assign
  <2> QED BY <1>2, <2>1
<1>4. f = start_idx /\ committed <= f + m - 1 /\ committed' = committed
  BY <1>1, <1>2 DEF SpanAt, committed
<1>5. SpanAt(f, m + 1)'
  BY <1>1, <1>2, <1>3, <1>4 DEF SpanAt, Span
<1> QED BY <1>1, <1>2, <1>4, <1>5

LEMMA WritesAt ==
  ASSUME StoreInv, NEW f, NEW m, f = FirstIndex, m = Size,
         NEW index \in 1..MaxIndex, NEW e \in Entry, write_at(index, e)
  PROVE  /\ packing = NoPack /\ UNCHANGED <<load, start_idx, packing, agreed>>
         /\ index \in f .. f + m /\ committed < index /\ committed' = committed
         /\ logs'[index] = e /\ logs'[0] = logs[0]
         /\ \A x \in f .. index - 1 : x \in DOMAIN logs /\ logs'[x] = logs[x]
         /\ SpanAt(f, index - f + 1)'
<1> DEFINE below == {k \in DOMAIN logs : k < index}
           cut == Restrict(logs, below)
<1>1. /\ packing = NoPack /\ UNCHANGED <<load, start_idx, packing, agreed>>
      /\ logs' = assign(cut, index, e)
      /\ index > committed /\ index \in start_idx .. next_slot
  BY DEF write_at, Raft, raftVars
<1>2. /\ SpanAt(f, m) /\ f \in Nat \ {0} /\ m \in Nat /\ committed \in Nat
      /\ next_slot = f + m /\ DOMAIN logs = {0} \cup (f .. f + m - 1)
  BY <1>1, SpanState DEF StoreInv
<1>3. f = start_idx /\ committed' = committed
  BY <1>1, <1>2 DEF SpanAt, committed
<1>4. index \in Nat /\ f <= index /\ index <= f + m /\ committed < index
  BY <1>1, <1>2, <1>3
<1>5. below = {0} \cup (f .. index - 1)
  BY <1>2, <1>4
<1>6. DOMAIN cut = below /\ \A x \in below : cut[x] = logs[x]
  BY DEF Restrict
<1> HIDE DEF below, cut
<1>7. /\ DOMAIN logs' = {index} \cup below
      /\ \A x \in below : x # index => logs'[x] = logs[x]
      /\ logs'[index] = e
  BY <1>1, <1>6 DEF assign
<1>8. DOMAIN logs' = {0} \cup (f .. f + (index - f + 1) - 1)
  BY <1>2, <1>4, <1>5, <1>7
<1>9. SpanAt(f, index - f + 1)'
  BY <1>1, <1>2, <1>3, <1>4, <1>8 DEF SpanAt, Span
<1>10. logs'[0] = logs[0]
  BY <1>2, <1>4, <1>5, <1>7
<1>11. \A x \in f .. index - 1 : x \in DOMAIN logs /\ logs'[x] = logs[x]
  BY <1>2, <1>4, <1>5, <1>7
<1> QED BY <1>1, <1>3, <1>4, <1>7, <1>9, <1>10, <1>11, <1>2

LEMMA Compacts ==
  ASSUME StoreInv, NEW f, NEW m, f = FirstIndex, m = Size,
         NEW k \in 1..MaxIndex, compact(k)
  PROVE  /\ packing = NoPack /\ UNCHANGED <<load, packing>>
         /\ f = start_idx /\ committed <= committed'
         /\ agreed' \in Seq(Entry \cup {Dummy})
         /\ \A j \in 1..committed : agreed'[j] = agreed[j]
         /\ \A x \in DOMAIN logs' : x \in DOMAIN logs /\ logs'[x] = logs[x]
         /\ k < f => /\ start_idx' = start_idx /\ SpanAt(f, m)'
                     /\ committed' = committed
         /\ f <= k => /\ start_idx' = k + 1
                      /\ k < f + m => SpanAt(k + 1, f + m - 1 - k)'
                      /\ k >= f + m => SpanAt(k + 1, 0)'
                      /\ committed' = committed \/ committed' = k
<1>1. /\ packing = NoPack /\ UNCHANGED <<load, packing>>
      /\ k <= committed \/ k >= next_slot
      /\ logs' = Restrict(logs, DOMAIN logs \ (start_idx .. k))
      /\ start_idx' = IF start_idx <= k THEN k + 1 ELSE start_idx
      /\ agreed' = [j \in 1 .. Max({committed, k}) |->
                      IF j <= committed THEN agreed[j] ELSE Dummy]
  BY DEF compact, Raft
<1>2. /\ SpanAt(f, m) /\ f \in Nat \ {0} /\ m \in Nat /\ committed \in Nat
      /\ next_slot = f + m /\ DOMAIN logs = {0} \cup (f .. f + m - 1)
      /\ start_idx \in Nat \ {0} /\ k \in Nat
  BY <1>1, SpanState, LogStoreAssumption DEF StoreInv
<1>3. f = start_idx /\ committed <= f + m - 1 /\ (m = 0 => start_idx = committed + 1)
  BY <1>1, <1>2 DEF SpanAt
<1>4. PICK top \in Nat : top = IF committed >= k THEN committed ELSE k
  BY <1>2
<1>5. agreed' = [j \in 1..top |-> IF j <= committed THEN agreed[j] ELSE Dummy]
  BY <1>1, <1>2, <1>4, MaxOfTwo
<1>6. agreed \in Seq(Entry \cup {Dummy}) /\ committed = Len(agreed)
  BY DEF StoreInv, StoreTypeOK, committed
<1>7. agreed' \in Seq(Entry \cup {Dummy}) /\ committed' = top
  <2>1. \A j \in 1..top : (IF j <= committed THEN agreed[j] ELSE Dummy) \in Entry \cup {Dummy}
    BY <1>2, <1>6
  <2>2. agreed' \in [1..top -> Entry \cup {Dummy}]
    BY <1>5, <2>1
  <2> QED BY <1>4, <2>2 DEF committed
<1>8. \A j \in 1..committed : agreed'[j] = agreed[j]
  BY <1>2, <1>4, <1>5
<1>9. /\ DOMAIN logs' = DOMAIN logs \ (start_idx .. k)
      /\ \A x \in DOMAIN logs' : x \in DOMAIN logs /\ logs'[x] = logs[x]
  BY <1>1 DEF Restrict
<1>10. committed <= committed' /\ (committed' = committed \/ committed' = k)
  BY <1>2, <1>4, <1>7
<1>11. k < f => start_idx' = start_idx /\ SpanAt(f, m)' /\ committed' = committed
  <2> SUFFICES ASSUME k < f
               PROVE  start_idx' = start_idx /\ SpanAt(f, m)' /\ committed' = committed
    OBVIOUS
  <2>1. k <= committed
    BY <1>1, <1>2, <1>3
  <2>2. start_idx .. k = {}
    BY <1>2, <1>3
  <2>3. committed' = committed /\ start_idx' = start_idx
    BY <1>1, <1>2, <1>3, <1>4, <1>7, <2>1
  <2>4. DOMAIN logs' = DOMAIN logs
    BY <1>9, <2>2
  <2>5. SpanAt(f, m)'
    BY <1>1, <1>2, <1>3, <2>3, <2>4 DEF SpanAt, Span
  <2> QED BY <2>3, <2>5
<1>12. f <= k /\ k < f + m => start_idx' = k + 1 /\ SpanAt(k + 1, f + m - 1 - k)'
  <2> SUFFICES ASSUME f <= k, k < f + m
               PROVE  start_idx' = k + 1 /\ SpanAt(k + 1, f + m - 1 - k)'
    OBVIOUS
  <2>1. PICK z \in Nat : z = f + m - 1 - k
    BY <1>2
  <2>2. start_idx' = k + 1
    BY <1>1, <1>2, <1>3
  <2>3. ({0} \cup (f .. f + m - 1)) \ (f .. k) = {0} \cup (k + 1 .. (k + 1) + z - 1)
    <3>1. \A x : x \in {0} \cup (f .. f + m - 1) /\ x \notin f .. k
                   <=> x = 0 \/ x \in k + 1 .. (k + 1) + z - 1
      BY <1>2, <2>1
    <3> QED BY <3>1
  <2>4. DOMAIN logs' = {0} \cup (k + 1 .. (k + 1) + z - 1)
    BY <1>2, <1>3, <1>9, <2>3
  <2>5. committed' <= (k + 1) + z - 1 /\ (z = 0 => k + 1 = committed' + 1)
    BY <1>1, <1>2, <1>3, <1>4, <1>7, <2>1
  <2>6. SpanAt(k + 1, z)'
    BY <1>1, <1>2, <2>2, <2>4, <2>5 DEF SpanAt, Span
  <2> QED BY <2>1, <2>2, <2>6
<1>13. k >= f + m => start_idx' = k + 1 /\ SpanAt(k + 1, 0)'
  <2> SUFFICES ASSUME k >= f + m
               PROVE  start_idx' = k + 1 /\ SpanAt(k + 1, 0)'
    OBVIOUS
  <2>1. start_idx' = k + 1
    BY <1>1, <1>2, <1>3
  <2>2. DOMAIN logs' = {0} \cup (k + 1 .. (k + 1) + 0 - 1)
    BY <1>2, <1>3, <1>9
  <2>3. committed' = k
    BY <1>2, <1>3, <1>4, <1>7
  <2> QED BY <1>1, <1>2, <2>1, <2>2, <2>3 DEF SpanAt, Span
<1>14. f <= k => start_idx' = k + 1
  BY <1>1, <1>3
<1> QED BY <1>1, <1>3, <1>7, <1>8, <1>9, <1>10, <1>11, <1>12, <1>13, <1>14

LEMMA BeginsPack ==
  ASSUME StoreInv, NEW f, NEW m, f = FirstIndex, m = Size,
         NEW index \in 1..MaxIndex, NEW pack \in Packs, apply_pack(index, pack)
  PROVE  /\ packing = NoPack /\ packing' # NoPack /\ packing' \in Pack
         /\ UNCHANGED <<load, logs, start_idx>>
         /\ agreed' \in Seq(Entry \cup {Dummy}) /\ committed' = Below(committed, index)
         /\ \A j \in 1..committed' : agreed'[j] = agreed[j]
         /\ SpanAt(f, m)'
<1>1. /\ packing = NoPack /\ UNCHANGED <<load, logs, start_idx>>
      /\ index >= start_idx /\ (Keys(logs) = {} \/ index <= next_slot)
      /\ packing' = [idx |-> index, left |-> pack]
      /\ agreed' = SubSeq(agreed, 1, Below(committed, index))
  BY DEF apply_pack, Raft
<1>2. /\ SpanAt(f, m) /\ f \in Nat \ {0} /\ m \in Nat /\ committed \in Nat
      /\ next_slot = f + m /\ DOMAIN logs = {0} \cup (f .. f + m - 1)
      /\ Keys(logs) = f .. f + m - 1 /\ index \in Nat \ {0}
  BY <1>1, SpanState, LogStoreAssumption DEF StoreInv
<1>3. pack \in Seq(Entry) /\ pack # <<>>
  <2>1. PICK j \in 1..MaxPack : pack \in [1..j -> Entry]
    BY DEF Packs
  <2>2. j \in Nat \ {0} /\ pack \in Seq(Entry) /\ Len(pack) = j
    BY <2>1, LogStoreAssumption
  <2> QED BY <2>2
<1>4. packing' \in Pack /\ packing' # NoPack /\ packing'.idx = index /\ packing'.left = pack
  BY <1>1, <1>2, <1>3 DEF Pack, NoPack
<1>5. m > 0 => Keys(logs) # {} /\ index \in f .. f + m
  BY <1>1, <1>2 DEF SpanAt
<1>6. PICK n : n = Below(committed, index)
  OBVIOUS
<1>7. n \in 0..committed /\ n < index /\ (n = committed \/ n = index - 1)
  BY <1>2, <1>6 DEF Below
<1>8. agreed \in Seq(Entry \cup {Dummy}) /\ committed = Len(agreed)
  BY DEF StoreInv, StoreTypeOK, committed
<1>9. agreed' \in Seq(Entry \cup {Dummy}) /\ Len(agreed') = n
      /\ \A j \in 1..n : agreed'[j] = agreed[j]
  <2>1. n \in Nat /\ n <= Len(agreed) /\ agreed' = SubSeq(agreed, 1, n)
    BY <1>1, <1>2, <1>6, <1>7, <1>8
  <2> QED BY <1>8, <2>1
<1>10. committed' = n
  BY <1>9 DEF committed
<1>11. m = 0 => committed' = committed
  BY <1>1, <1>2, <1>7, <1>10 DEF SpanAt
<1>12. /\ start_idx' <= f /\ committed' <= f + m - 1 /\ committed' < packing'.idx
       /\ m = 0 => f = start_idx' /\ start_idx' = committed' + 1
  BY <1>1, <1>2, <1>4, <1>7, <1>10, <1>11 DEF SpanAt
<1> QED BY <1>1, <1>2, <1>3, <1>4, <1>5, <1>6, <1>9, <1>10, <1>12 DEF SpanAt, Span

LEMMA Unpacks ==
  ASSUME StoreInv, NEW f, NEW m, f = FirstIndex, m = Size,
         NEW i, i = packing.idx, apply_pack_entry
  PROVE  /\ packing # NoPack /\ packing' # NoPack /\ packing' \in Pack
         /\ i \in Nat \ {0} /\ Head(packing.left) \in Entry
         /\ logs' = assign(logs, i, Head(packing.left))
         /\ UNCHANGED <<load, start_idx, agreed>> /\ committed < i
         /\ m = 0 => SpanAt(i, 1)'
         /\ m > 0 => i \in f .. f + m
         /\ m > 0 /\ i < f + m => SpanAt(f, m)'
         /\ m > 0 /\ i = f + m => SpanAt(f, m + 1)'
<1>1. /\ packing.left # <<>> /\ UNCHANGED <<load, start_idx, agreed>>
      /\ logs' = assign(logs, i, Head(packing.left))
      /\ packing' = [idx |-> i + 1, left |-> Tail(packing.left)]
  BY DEF apply_pack_entry, raftVars
<1>2. packing # NoPack /\ packing \in Pack
  BY <1>1 DEF NoPack, StoreInv, StoreTypeOK
<1>3. i \in Nat \ {0} /\ packing.left \in Seq(Entry)
  BY <1>2 DEF Pack
<1>4. Head(packing.left) \in Entry /\ Tail(packing.left) \in Seq(Entry)
  BY <1>1, <1>3
<1>5. packing' \in Pack /\ packing' # NoPack /\ packing'.idx = i + 1
  BY <1>1, <1>3, <1>4 DEF Pack, NoPack
<1>6. /\ SpanAt(f, m) /\ f \in Nat \ {0} /\ m \in Nat /\ committed \in Nat
      /\ start_idx \in Nat \ {0} /\ DOMAIN logs = {0} \cup (f .. f + m - 1)
  BY SpanState DEF StoreInv
<1>7. /\ start_idx <= f /\ committed <= f + m - 1 /\ committed < i
      /\ m = 0 => start_idx = committed + 1
      /\ m > 0 => i \in f .. f + m
  BY <1>2, <1>6 DEF SpanAt
<1>8. DOMAIN logs' = {i} \cup DOMAIN logs
  BY <1>1 DEF assign
<1>9. committed' = committed /\ start_idx' = start_idx
  BY <1>1 DEF committed
<1>10. ASSUME m = 0 PROVE SpanAt(i, 1)'
  <2>1. DOMAIN logs' = {0} \cup (i .. i + 1 - 1)
    BY <1>3, <1>6, <1>8, <1>10
  <2> QED BY <1>3, <1>5, <1>6, <1>7, <1>9, <1>10, <2>1 DEF SpanAt, Span
<1>11. ASSUME m > 0, i < f + m PROVE SpanAt(f, m)'
  <2>1. DOMAIN logs' = {0} \cup (f .. f + m - 1)
    BY <1>3, <1>6, <1>7, <1>8, <1>11
  <2>2. i + 1 \in f .. f + m
    BY <1>3, <1>6, <1>7, <1>11
  <2> QED BY <1>3, <1>5, <1>6, <1>7, <1>9, <1>11, <2>1, <2>2 DEF SpanAt, Span
<1>12. ASSUME m > 0, i = f + m PROVE SpanAt(f, m + 1)'
  <2>1. DOMAIN logs' = {0} \cup (f .. f + (m + 1) - 1)
    BY <1>3, <1>6, <1>8, <1>12
  <2>2. i + 1 \in f .. f + (m + 1) /\ m + 1 > 0
    BY <1>3, <1>6, <1>12
  <2> QED BY <1>3, <1>5, <1>6, <1>7, <1>9, <1>12, <2>1, <2>2 DEF SpanAt, Span
<1> QED BY <1>1, <1>2, <1>3, <1>4, <1>5, <1>7, <1>10, <1>11, <1>12

LEMMA EndsPack ==
  ASSUME StoreInv, NEW f, NEW m, f = FirstIndex, m = Size, apply_pack_end
  PROVE  /\ packing # NoPack /\ packing' = NoPack
         /\ UNCHANGED <<load, logs, agreed>>
         /\ start_idx <= start_idx' /\ start_idx' = f /\ m > 0 /\ committed <= f + m - 1
         /\ SpanAt(f, m)'
<1>1. /\ packing # NoPack /\ packing.left = <<>> /\ packing' = NoPack
      /\ start_idx' = IF Keys(logs) = {} THEN 1 ELSE Min(Keys(logs))
      /\ UNCHANGED <<load, logs, agreed>>
  BY DEF apply_pack_end, raftVars
<1>2. /\ SpanAt(f, m) /\ f \in Nat \ {0} /\ m \in Nat /\ committed \in Nat
      /\ DOMAIN logs = {0} \cup (f .. f + m - 1) /\ Keys(logs) = f .. f + m - 1
  BY SpanState DEF StoreInv
<1>3. m > 0 /\ start_idx <= f /\ committed <= f + m - 1
  BY <1>1, <1>2 DEF SpanAt
<1>4. start_idx' = f
  <2>1. Keys(logs) # {} /\ Min(f .. f + m - 1) = f
    BY <1>2, <1>3, MaxMin
  <2> QED BY <1>1, <1>2, <2>1
<1>5. committed' = committed
  BY <1>1 DEF committed
<1> QED BY <1>1, <1>2, <1>3, <1>4, <1>5 DEF SpanAt, Span

LEMMA Commits ==
  ASSUME StoreInv, NEW f, NEW m, f = FirstIndex, m = Size, NEW k, commit_to(k)
  PROVE  /\ packing = NoPack /\ UNCHANGED <<load, storeVars>>
         /\ k \in committed + 1 .. f + m - 1 /\ committed' = k /\ f = start_idx
         /\ agreed' \in Seq(Entry \cup {Dummy})
         /\ \A j \in 1..committed : agreed'[j] = agreed[j]
         /\ \A j \in committed + 1 .. k : agreed'[j] = entry_at(j)
         /\ SpanAt(f, m)'
<1>1. /\ packing = NoPack /\ UNCHANGED <<load, storeVars>>
      /\ k \in committed + 1 .. next_slot - 1
      /\ agreed' = [j \in 1..k |-> IF j <= committed THEN agreed[j] ELSE entry_at(j)]
  BY DEF commit_to
<1>2. /\ SpanAt(f, m) /\ f \in Nat \ {0} /\ m \in Nat /\ committed \in Nat
      /\ DOMAIN logs = {0} \cup (f .. f + m - 1) /\ next_slot = f + m
      /\ Keys(logs) = f .. f + m - 1
  BY <1>1, SpanState DEF StoreInv
<1>3. k \in Nat /\ committed < k /\ k <= f + m - 1 /\ f = start_idx
  BY <1>1, <1>2 DEF SpanAt
<1>4. agreed \in Seq(Entry \cup {Dummy}) /\ committed = Len(agreed)
  BY DEF StoreInv, StoreTypeOK, committed
<1>5. \A j : entry_at(j) \in Entry \cup {Dummy}
  BY DEF entry_at, StoreInv, StoreTypeOK, Keys
<1>6. \A j \in 1..k : (IF j <= committed THEN agreed[j] ELSE entry_at(j)) \in Entry \cup {Dummy}
  BY <1>2, <1>3, <1>4, <1>5
<1>7. agreed' \in [1..k -> Entry \cup {Dummy}]
  BY <1>1, <1>6
<1>8. agreed' \in Seq(Entry \cup {Dummy}) /\ committed' = k
  BY <1>3, <1>7 DEF committed
<1>9. \A j \in 1..committed : agreed'[j] = agreed[j]
  BY <1>1, <1>2, <1>3
<1>10. \A j \in committed + 1 .. k : agreed'[j] = entry_at(j)
  BY <1>1, <1>2, <1>3
<1>11. m # 0
  BY <1>2, <1>3 DEF SpanAt
<1>12. SpanAt(f, m)'
  BY <1>1, <1>2, <1>3, <1>8, <1>11 DEF SpanAt, Span, storeVars
<1> QED BY <1>1, <1>2, <1>3, <1>8, <1>9, <1>10, <1>12
-----------------------------------------------------------------------------
(* The store, step by step *)

(* The first index moves up, and what is committed stays unless a pack is  *)
(* laid over it.                                                           *)
Forward ==
  /\ start_idx <= start_idx'
  /\ committed <= committed' \/ \E k \in 1..MaxIndex, p \in Packs : apply_pack(k, p)
  /\ \A j \in 1..committed : j <= committed' => agreed'[j] = agreed[j]

Rest == UNCHANGED <<load, storeVars, agreed>>

(* The actions, those that leave the store alone taken together. *)
Steps ==
  \/ \E e \in Entry : append(e)
  \/ \E k \in 1..MaxIndex, e \in Entry : write_at(k, e)
  \/ \E k \in 1..MaxIndex : compact(k)
  \/ \E k \in 1..MaxIndex : commit_to(k)
  \/ \E k \in 1..MaxIndex, p \in Packs : apply_pack(k, p)
  \/ apply_pack_entry \/ apply_pack_end
  \/ Rest

LEMMA StepCases == [LogNext]_vars => Steps
<1> SUFFICES ASSUME [LogNext]_vars PROVE Steps
  OBVIOUS
<1>1. CASE disk_emul_loop \/ tick
  BY <1>1 DEF disk_emul_loop, tick, Steps, Rest, raftVars
<1>2. CASE last_entry \/ last_entry_find \/ log_entries_next
  BY <1>2 DEF last_entry, last_entry_find, log_entries_next, Steps, Rest, raftVars
<1>3. CASE \E a, b \in 1 .. MaxIndex + 1, hint \in {-1, 0, 1} : log_entries(a, b, hint)
  BY <1>3 DEF log_entries, Steps, Rest
<1>4. CASE UNCHANGED vars
  BY <1>4 DEF vars, raftVars, Steps, Rest
<1> QED BY <1>1, <1>2, <1>3, <1>4 DEF LogNext, Steps

LEMMA StoreInitial == LogInit => StoreInv
<1> SUFFICES ASSUME LogInit PROVE StoreInv
  OBVIOUS
<1>1. /\ logs = [k \in {0} |-> Dummy] /\ start_idx = 1 /\ packing = NoPack /\ agreed = <<>>
      /\ load \in Workloads
  BY DEF LogInit
<1>2. DOMAIN logs = {0} /\ logs[0] = Dummy /\ Keys(logs) = {}
  BY <1>1 DEF Keys
<1>3. StoreTypeOK
  BY <1>1, <1>2 DEF StoreTypeOK
<1>4. FirstIndex = 1 /\ Size = 0 /\ committed = 0
  BY <1>1, <1>2, FS_EmptySet DEF FirstIndex, Size, committed
<1>5. SpanAt(1, 0)
  BY <1>1, <1>2, <1>4 DEF SpanAt, Span
<1>6. AgreedInv
  BY <1>1, <1>4 DEF AgreedInv
<1> QED BY <1>3, <1>4, <1>5, <1>6 DEF StoreInv, SpanInv

LEMMA StoreRest ==
  ASSUME StoreInv, Rest
  PROVE  StoreInv' /\ Forward
<1>1. /\ load' = load /\ logs' = logs /\ start_idx' = start_idx /\ packing' = packing
      /\ agreed' = agreed
  BY DEF Rest, storeVars
<1>2. FirstIndex' = FirstIndex /\ Size' = Size /\ committed' = committed
  BY <1>1 DEF FirstIndex, Size, committed, Keys
<1>3. StoreTypeOK'
  BY <1>1 DEF StoreInv, StoreTypeOK, Keys
<1>4. SpanInv'
  BY <1>1, <1>2 DEF StoreInv, SpanInv, SpanAt, Span
<1>5. AgreedInv'
  BY <1>1, <1>2 DEF StoreInv, AgreedInv
<1>6. Forward
  BY <1>1, <1>2, SpanState DEF StoreInv, Forward
<1> QED BY <1>3, <1>4, <1>5, <1>6 DEF StoreInv

LEMMA StoreAppend ==
  ASSUME StoreInv, NEW e \in Entry, append(e)
  PROVE  StoreInv' /\ Forward
<1>1. PICK f, m : f = FirstIndex /\ m = Size
  OBVIOUS
<1>2. /\ UNCHANGED <<load, start_idx, packing, agreed>>
      /\ logs' = assign(logs, f + m, e) /\ committed' = committed
      /\ SpanAt(f, m + 1)'
  BY <1>1, Appends
<1>3. /\ f \in Nat \ {0} /\ m \in Nat /\ committed \in Nat /\ start_idx \in Nat
      /\ DOMAIN logs = {0} \cup (f .. f + m - 1) /\ committed <= f + m - 1
  BY <1>1, SpanState DEF StoreInv, SpanAt
<1>4. /\ DOMAIN logs' = {f + m} \cup DOMAIN logs /\ logs'[f + m] = e
      /\ \A x \in DOMAIN logs : x # f + m => logs'[x] = logs[x]
  BY <1>2 DEF assign
<1>5. StoreTypeOK'
  BY <1>2, <1>3, <1>4 DEF StoreInv, StoreTypeOK, Keys
<1>6. AgreedInv'
  BY <1>2, <1>3, <1>4 DEF StoreInv, AgreedInv
<1> QED BY <1>2, <1>3, <1>5, <1>6, SpanNext DEF StoreInv, Forward

LEMMA StoreWriteAt ==
  ASSUME StoreInv, NEW k \in 1..MaxIndex, NEW e \in Entry, write_at(k, e)
  PROVE  StoreInv' /\ Forward
<1>1. PICK f, m : f = FirstIndex /\ m = Size
  OBVIOUS
<1>2. /\ UNCHANGED <<load, start_idx, packing, agreed>>
      /\ k \in f .. f + m /\ committed < k /\ committed' = committed
      /\ logs'[k] = e /\ logs'[0] = logs[0]
      /\ \A x \in f .. k - 1 : x \in DOMAIN logs /\ logs'[x] = logs[x]
      /\ SpanAt(f, k - f + 1)' /\ packing = NoPack
  BY <1>1, WritesAt
<1>3. /\ f \in Nat \ {0} /\ m \in Nat /\ committed \in Nat /\ start_idx \in Nat
      /\ f = start_idx /\ DOMAIN logs = {0} \cup (f .. f + m - 1)
  BY <1>1, <1>2, SpanState DEF StoreInv, SpanAt
<1>4. DOMAIN logs' = {0} \cup (f .. k)
  <2>1. DOMAIN logs' = {0} \cup (f .. f + (k - f + 1) - 1)
    BY <1>2 DEF SpanAt, Span
  <2> QED BY <1>2, <1>3, <2>1
<1>5. StoreTypeOK'
  <2>1. \A x \in Keys(logs') : logs'[x] \in Entry
    BY <1>2, <1>3, <1>4 DEF StoreInv, StoreTypeOK, Keys
  <2> QED BY <1>2, <2>1 DEF StoreInv, StoreTypeOK, Keys
<1>6. AgreedInv'
  BY <1>2, <1>3, <1>4 DEF StoreInv, AgreedInv
<1> QED BY <1>2, <1>3, <1>5, <1>6, SpanNext DEF StoreInv, Forward

LEMMA StoreCompact ==
  ASSUME StoreInv, NEW k \in 1..MaxIndex, compact(k)
  PROVE  StoreInv' /\ Forward
<1>1. PICK f, m : f = FirstIndex /\ m = Size
  OBVIOUS
<1>2. /\ packing = NoPack /\ UNCHANGED <<load, packing>>
      /\ f = start_idx /\ committed <= committed'
      /\ agreed' \in Seq(Entry \cup {Dummy})
      /\ \A j \in 1..committed : agreed'[j] = agreed[j]
      /\ \A x \in DOMAIN logs' : x \in DOMAIN logs /\ logs'[x] = logs[x]
      /\ k < f => /\ start_idx' = start_idx /\ SpanAt(f, m)'
                  /\ committed' = committed
      /\ f <= k => /\ start_idx' = k + 1
                   /\ k < f + m => SpanAt(k + 1, f + m - 1 - k)'
                   /\ k >= f + m => SpanAt(k + 1, 0)'
                   /\ committed' = committed \/ committed' = k
  BY <1>1, Compacts
<1>3. /\ f \in Nat \ {0} /\ m \in Nat /\ committed \in Nat /\ k \in Nat /\ start_idx \in Nat \ {0}
      /\ DOMAIN logs = {0} \cup (f .. f + m - 1)
  BY <1>1, <1>2, SpanState, LogStoreAssumption DEF StoreInv
<1>4. PICK g, n : /\ SpanAt(g, n)' /\ g = start_idx' /\ start_idx <= start_idx'
                  /\ start_idx' > committed \/ committed' = committed
  <2>1. CASE k < f
    <3>1. /\ SpanAt(f, m)' /\ f = start_idx' /\ start_idx <= start_idx'
          /\ committed' = committed
      BY <1>2, <1>3, <2>1
    <3> QED BY <3>1, Zenon
  <2>2. CASE f <= k /\ k < f + m
    <3>1. /\ SpanAt(k + 1, f + m - 1 - k)' /\ k + 1 = start_idx'
          /\ start_idx <= start_idx'
          /\ start_idx' > committed \/ committed' = committed
      BY <1>2, <1>3, <2>2
    <3> QED BY <3>1, Zenon
  <2>3. CASE k >= f + m
    <3>1. /\ SpanAt(k + 1, 0)' /\ k + 1 = start_idx' /\ start_idx <= start_idx'
          /\ start_idx' > committed \/ committed' = committed
      BY <1>2, <1>3, <2>3
    <3> QED BY <3>1, Zenon
  <2> QED BY <1>3, <2>1, <2>2, <2>3
<1>5. SpanInv' /\ Forward
  BY <1>2, <1>4, SpanNext DEF Forward
<1>6. DOMAIN logs' = {0} \cup (g .. g + n - 1) /\ g \in Nat \ {0} /\ n \in Nat
      /\ committed' <= g + n - 1
  BY <1>4 DEF SpanAt, Span
<1>7. StoreTypeOK'
  <2>1. \A x \in Keys(logs') : logs'[x] \in Entry
    BY <1>2 DEF StoreInv, StoreTypeOK, Keys
  <2> QED BY <1>2, <1>4, <1>6, <2>1 DEF StoreInv, StoreTypeOK, Keys
<1>8. AgreedInv'
  <2> SUFFICES ASSUME NEW j \in start_idx' .. committed'
               PROVE  j \in DOMAIN logs' /\ logs'[j] = agreed'[j]
    BY DEF AgreedInv
  <2>1. committed' \in Nat
    BY <1>2 DEF committed
  <2>2. j \in Nat /\ g <= j /\ j <= g + n - 1 /\ j \in DOMAIN logs'
    <3>1. j \in g .. committed'
      BY <1>4
    <3>2. j \in Nat /\ g <= j /\ j <= committed'
      BY <1>6, <2>1, <3>1
    <3>3. j \in g .. g + n - 1
      BY <1>6, <2>1, <3>2
    <3> QED BY <1>6, <3>2, <3>3
  <2>3. committed' = committed
    BY <1>2, <1>3, <1>4, <1>6, <2>1, <2>2
  <2>4. j \in start_idx .. committed /\ j \in 1..committed
    BY <1>3, <1>4, <1>6, <2>2, <2>3
  <2> QED BY <1>2, <2>2, <2>4 DEF StoreInv, AgreedInv
<1> QED BY <1>5, <1>7, <1>8 DEF StoreInv

LEMMA StoreCommit ==
  ASSUME StoreInv, NEW k \in 1..MaxIndex, commit_to(k)
  PROVE  StoreInv' /\ Forward
<1>1. PICK f, m : f = FirstIndex /\ m = Size
  OBVIOUS
<1>2. /\ packing = NoPack /\ UNCHANGED <<load, storeVars>>
      /\ k \in committed + 1 .. f + m - 1 /\ committed' = k /\ f = start_idx
      /\ agreed' \in Seq(Entry \cup {Dummy})
      /\ \A j \in 1..committed : agreed'[j] = agreed[j]
      /\ \A j \in committed + 1 .. k : agreed'[j] = entry_at(j)
      /\ SpanAt(f, m)'
  BY <1>1, Commits
<1>3. /\ f \in Nat \ {0} /\ m \in Nat /\ committed \in Nat /\ k \in Nat /\ start_idx \in Nat \ {0}
      /\ DOMAIN logs = {0} \cup (f .. f + m - 1)
  BY <1>1, <1>2, SpanState, LogStoreAssumption DEF StoreInv
<1>4. StoreTypeOK'
  BY <1>2 DEF StoreInv, StoreTypeOK, Keys, storeVars
<1>5. AgreedInv'
  <2> SUFFICES ASSUME NEW j \in f .. k
               PROVE  j \in DOMAIN logs /\ logs[j] = agreed'[j]
    BY <1>2 DEF AgreedInv, storeVars
  <2>1. j \in Nat /\ j \in DOMAIN logs
    BY <1>2, <1>3
  <2>2. CASE j <= committed
    BY <1>2, <1>3, <2>1, <2>2 DEF StoreInv, AgreedInv
  <2>3. CASE j > committed
    BY <1>2, <1>3, <2>1, <2>3 DEF entry_at
  <2> QED BY <1>3, <2>1, <2>2, <2>3
<1> QED BY <1>2, <1>3, <1>4, <1>5, SpanNext DEF StoreInv, Forward, storeVars

LEMMA StorePack ==
  ASSUME StoreInv, NEW k \in 1..MaxIndex, NEW p \in Packs, apply_pack(k, p)
  PROVE  StoreInv' /\ Forward
<1>1. PICK f, m : f = FirstIndex /\ m = Size
  OBVIOUS
<1>2. /\ packing' \in Pack /\ UNCHANGED <<load, logs, start_idx>> /\ SpanAt(f, m)'
      /\ agreed' \in Seq(Entry \cup {Dummy}) /\ committed' = Below(committed, k)
      /\ \A j \in 1..committed' : agreed'[j] = agreed[j]
  BY <1>1, BeginsPack
<1>3. committed \in Nat /\ committed' \in 0..committed /\ start_idx \in Nat \ {0}
  BY <1>2, SpanState, LogStoreAssumption DEF StoreInv, Below
<1>4. StoreTypeOK'
  BY <1>2 DEF StoreInv, StoreTypeOK, Keys
<1>5. AgreedInv'
  <2> SUFFICES ASSUME NEW j \in start_idx .. committed'
               PROVE  j \in DOMAIN logs /\ logs[j] = agreed'[j]
    BY <1>2 DEF AgreedInv
  <2>1. j \in start_idx .. committed /\ j \in 1..committed'
    BY <1>3
  <2> QED BY <1>2, <2>1 DEF StoreInv, AgreedInv
<1>6. Forward
  BY <1>2, <1>3 DEF Forward
<1> QED BY <1>2, <1>3, <1>4, <1>5, <1>6, SpanNext DEF StoreInv

LEMMA StoreUnpack ==
  ASSUME StoreInv, apply_pack_entry
  PROVE  StoreInv' /\ Forward
<1>1. PICK f, m, i : f = FirstIndex /\ m = Size /\ i = packing.idx
  OBVIOUS
<1>2. /\ packing' \in Pack /\ i \in Nat \ {0} /\ Head(packing.left) \in Entry
      /\ logs' = assign(logs, i, Head(packing.left))
      /\ UNCHANGED <<load, start_idx, agreed>> /\ committed < i
      /\ m = 0 => SpanAt(i, 1)'
      /\ m > 0 => i \in f .. f + m
      /\ m > 0 /\ i < f + m => SpanAt(f, m)'
      /\ m > 0 /\ i = f + m => SpanAt(f, m + 1)'
  BY <1>1, Unpacks
<1>3. /\ f \in Nat \ {0} /\ m \in Nat /\ committed \in Nat /\ start_idx \in Nat \ {0}
      /\ committed' = committed
  BY <1>1, <1>2, SpanState DEF StoreInv, committed
<1>4. SpanInv'
  BY <1>2, <1>3, SpanNext
<1>5. /\ DOMAIN logs' = {i} \cup DOMAIN logs /\ logs'[i] = Head(packing.left)
      /\ \A x \in DOMAIN logs : x # i => logs'[x] = logs[x]
  BY <1>2 DEF assign
<1>6. 0 \in DOMAIN logs
  BY SpanState DEF StoreInv
<1>7. StoreTypeOK'
  BY <1>2, <1>5, <1>6 DEF StoreInv, StoreTypeOK, Keys
<1>8. AgreedInv'
  BY <1>2, <1>3, <1>5 DEF StoreInv, AgreedInv
<1> QED BY <1>2, <1>3, <1>4, <1>7, <1>8 DEF StoreInv, Forward

LEMMA StoreEndPack ==
  ASSUME StoreInv, apply_pack_end
  PROVE  StoreInv' /\ Forward
<1>1. PICK f, m : f = FirstIndex /\ m = Size
  OBVIOUS
<1>2. /\ packing' = NoPack /\ UNCHANGED <<load, logs, agreed>>
      /\ start_idx <= start_idx' /\ start_idx' = f /\ SpanAt(f, m)'
  BY <1>1, EndsPack
<1>3. committed' = committed /\ committed \in Nat /\ start_idx \in Nat /\ f \in Nat \ {0}
  BY <1>1, <1>2, SpanState DEF committed, StoreInv
<1>4. StoreTypeOK'
  BY <1>2, <1>3 DEF StoreInv, StoreTypeOK, Keys
<1>5. AgreedInv'
  BY <1>2, <1>3 DEF StoreInv, AgreedInv
<1> QED BY <1>2, <1>3, <1>4, <1>5, SpanNext DEF StoreInv, Forward

LEMMA StoreStep == StoreInv /\ [LogNext]_vars => StoreInv' /\ Forward
BY StepCases, StoreRest, StoreAppend, StoreWriteAt, StoreCompact, StoreCommit, StorePack,
   StoreUnpack, StoreEndPack DEF Steps

LEMMA StoreIsInv == LogSpec => []StoreInv
BY StoreInitial, StoreStep, PTL DEF LogSpec

(* Contiguous holds of every behaviour, for any entries, indices and packs. *)
THEOREM ContiguousCorrect == LogSpec => []Contiguous
<1>1. StoreInv => Contiguous
  <2> SUFFICES ASSUME StoreInv, packing = NoPack
               PROVE  DOMAIN logs = {0} \cup (start_idx .. next_slot - 1)
    BY DEF Contiguous
  <2>1. /\ SpanAt(FirstIndex, Size) /\ next_slot = FirstIndex + Size
        /\ FirstIndex \in Nat /\ Size \in Nat
        /\ DOMAIN logs = {0} \cup (FirstIndex .. FirstIndex + Size - 1)
    BY SpanState DEF StoreInv
  <2>2. FirstIndex = start_idx
    BY <2>1 DEF SpanAt
  <2>3. FirstIndex + Size - 1 = next_slot - 1
    BY <2>1
  <2> QED BY <2>1, <2>2, <2>3, Zenon
<1> QED BY <1>1, StoreIsInv, PTL
-----------------------------------------------------------------------------
(* A reader beside the writers *)

LEMMA LastIn ==
  ASSUME NEW lg, NEW f, NEW m, Span(lg, f, m), \A k \in Keys(lg) : lg[k] \in Entry
  PROVE  Last(lg) \in Entry \cup {Dummy}
<1>1. f \in Nat \ {0} /\ m \in Nat /\ Keys(lg) = f .. f + m - 1
  BY SpanFacts DEF Span
<1>2. m = 0 => Last(lg) = Dummy
  BY SpanFacts
<1>3. m > 0 => Last(lg) = lg[f + m - 1] /\ f + m - 1 \in Keys(lg)
  BY <1>1, SpanFacts
<1> QED BY <1>1, <1>2, <1>3

LEMMA LastTyped ==
  /\ StoreInv => Last(logs) \in Entry \cup {Dummy}
  /\ StoreInv' => Last(logs') \in Entry \cup {Dummy}
<1>1. ASSUME StoreInv PROVE Last(logs) \in Entry \cup {Dummy}
  BY <1>1, LastIn DEF StoreInv, StoreTypeOK, SpanInv, SpanAt
<1>2. ASSUME StoreInv' PROVE Last(logs') \in Entry \cup {Dummy}
  <2>1. \A k \in Keys(logs') : logs'[k] \in Entry
    BY <1>2 DEF StoreInv, StoreTypeOK, Keys
  <2>2. Span(logs', FirstIndex', Size')
    BY <1>2 DEF StoreInv, SpanInv, SpanAt, Span
  <2> QED BY <2>1, <2>2, LastIn
<1> QED BY <1>1, <1>2

(* What a write does to the call of a reader. *)
LEMMA WatchedIs ==
  ASSUME NEW lg, NEW u \in BOOLEAN, reader \in Watching, Last(lg) \in Entry \cup {Dummy}
  PROVE  /\ Watched(lg, u) \in Watching
         /\ Watched(lg, u).next = reader.next
         /\ Watched(lg, u).seen = reader.seen \cup {Last(lg)}
         /\ Watched(lg, u).shrunk <=> (reader.shrunk \/ ~(DOMAIN logs \subseteq DOMAIN lg))
         /\ Watched(lg, u).unpacked <=> (reader.unpacked \/ u)
<1>1. PICK s \in BOOLEAN, p \in BOOLEAN :
         /\ s <=> (reader.shrunk \/ ~(DOMAIN logs \subseteq DOMAIN lg))
         /\ p <=> (reader.unpacked \/ u)
  BY Zenon
<1>2. s = (reader.shrunk \/ ~(DOMAIN logs \subseteq DOMAIN lg)) /\ p = (reader.unpacked \/ u)
  BY <1>1, Zenon
<1>3. reader.op = "last_entry"
  BY DEF Watching
<1>4. Watched(lg, u) = [reader EXCEPT !.seen = @ \cup {Last(lg)}, !.shrunk = s, !.unpacked = p]
  BY <1>2, <1>3, Zenon DEF Watched
<1>5. /\ Watched(lg, u) \in Watching /\ Watched(lg, u).next = reader.next
      /\ Watched(lg, u).seen = reader.seen \cup {Last(lg)}
      /\ Watched(lg, u).shrunk = s /\ Watched(lg, u).unpacked = p
  <2>1. PICK S \in SUBSET (Entry \cup {Dummy}) : S = reader.seen \cup {Last(lg)}
    BY DEF Watching
  <2>2. Watched(lg, u) = [reader EXCEPT !.seen = S, !.shrunk = s, !.unpacked = p]
    BY <1>4, <2>1, Zenon
  <2>3. PICK w : w = Watched(lg, u)
    OBVIOUS
  <2>4. w \in Watching /\ w.next = reader.next /\ w.seen = S /\ w.shrunk = s /\ w.unpacked = p
    BY <2>2, <2>3 DEF Watching
  <2> QED BY <2>1, <2>3, <2>4
<1> QED BY <1>1, <1>5, Zenon

LEMMA WatchedOther ==
  ASSUME NEW lg, NEW u, reader.op # "last_entry"
  PROVE  Watched(lg, u) = reader
BY DEF Watched

(* The reader in a step: it is left alone, it watches a write, or it has   *)
(* a step of its own.                                                      *)
OwnStep ==
  \/ last_entry \/ last_entry_find \/ log_entries_next
  \/ \E a, b \in 1 .. MaxIndex + 1, hint \in {-1, 0, 1} : log_entries(a, b, hint)

LEMMA ReaderCases ==
  ASSUME StoreInv, ReaderInv, StoreInv', [LogNext]_vars
  PROVE  \/ reader' = reader
         \/ reader.op = "last_entry" /\ reader' \in Watching
         \/ OwnStep
<1>1. ASSUME NEW u \in BOOLEAN, reader' = Watched(logs', u)
      PROVE  reader' = reader \/ (reader.op = "last_entry" /\ reader' \in Watching)
  <2>1. Last(logs') \in Entry \cup {Dummy}
    BY LastTyped
  <2>2. CASE reader.op = "last_entry"
    BY <1>1, <2>1, <2>2, WatchedIs DEF ReaderInv
  <2>3. CASE reader.op # "last_entry"
    BY <1>1, <2>3, WatchedOther
  <2> QED BY <2>2, <2>3
<1>2. CASE \E e \in Entry : append(e)
  BY <1>1, <1>2 DEF append
<1>3. CASE \E e \in Entry, k \in 1..MaxIndex : write_at(k, e)
  BY <1>1, <1>3 DEF write_at
<1>4. CASE \E k \in 1..MaxIndex : compact(k)
  BY <1>1, <1>4 DEF compact
<1>5. CASE \E k \in 1..MaxIndex : commit_to(k)
  BY <1>5 DEF commit_to
<1>6. CASE \E k \in 1..MaxIndex, p \in Packs : apply_pack(k, p)
  <2>1. reader' = Watched(logs', TRUE)
    BY <1>6 DEF apply_pack
  <2> QED BY <1>1, <2>1
<1>7. CASE apply_pack_entry
  BY <1>1, <1>7 DEF apply_pack_entry
<1>8. CASE apply_pack_end \/ disk_emul_loop \/ tick \/ UNCHANGED vars
  BY <1>8 DEF apply_pack_end, disk_emul_loop, tick, vars
<1> QED BY <1>2, <1>3, <1>4, <1>5, <1>6, <1>7, <1>8 DEF LogNext, OwnStep

(* Entries up to committed: the agreed one, or the dummy if it is gone. *)
LEMMA EntryAt ==
  ASSUME StoreInv, NEW k \in Nat \ {0}, k <= committed
  PROVE  \/ entry_at(k) = agreed[k]
         \/ entry_at(k) = Dummy /\ k < start_idx
<1>1. PICK f, m : f = FirstIndex /\ m = Size
  OBVIOUS
<1>2. /\ f \in Nat \ {0} /\ m \in Nat /\ committed \in Nat /\ start_idx \in Nat
      /\ start_idx <= f /\ DOMAIN logs = {0} \cup (f .. f + m - 1)
  BY <1>1, SpanState DEF StoreInv, SpanAt
<1>3. CASE start_idx <= k
  BY <1>2, <1>3 DEF StoreInv, AgreedInv, entry_at
<1>4. CASE k < start_idx
  <2>1. k \notin DOMAIN logs
    BY <1>2, <1>4
  <2> QED BY <1>4, <2>1 DEF entry_at, StoreInv, StoreTypeOK
<1> QED BY <1>2, <1>3, <1>4

(* The part of what is committed that a reader counts on. *)
LEMMA SureStep ==
  ASSUME StoreInv, Forward, StoreInv', sure \in 0..committed, [LogNext]_vars
  PROVE  /\ sure' \in 0..committed'
         /\ sure' <= sure \/ \E a, b \in 1 .. MaxIndex + 1, hint \in {-1, 0, 1} :
                               log_entries(a, b, hint)
<1>1. committed \in Nat /\ committed' \in Nat /\ sure \in Nat /\ sure <= committed
  BY DEF StoreInv, StoreTypeOK, committed
<1>2. CASE \E k \in 1..MaxIndex, p \in Packs : apply_pack(k, p)
  <2>1. PICK k \in 1..MaxIndex, p \in Packs : apply_pack(k, p)
    BY <1>2
  <2>2. committed' = Below(committed, k) /\ sure' = Below(sure, k) /\ k \in Nat \ {0}
    <3>1. PICK f, m : f = FirstIndex /\ m = Size
      OBVIOUS
    <3>2. committed' = Below(committed, k)
      BY <2>1, <3>1, BeginsPack
    <3>3. sure' = Below(sure, k)
      BY <2>1 DEF apply_pack
    <3> QED BY <3>2, <3>3, LogStoreAssumption
  <2> QED BY <1>1, <2>2 DEF Below
<1>3. CASE \E a, b \in 1 .. MaxIndex + 1, hint \in {-1, 0, 1} : log_entries(a, b, hint)
  <2>1. sure' = committed /\ committed' = committed
    BY <1>3 DEF log_entries, committed
  <2> QED BY <1>1, <1>3, <2>1
<1>4. ASSUME sure' = sure, ~ \E k \in 1..MaxIndex, p \in Packs : apply_pack(k, p)
      PROVE  sure' \in 0..committed' /\ sure' <= sure
  <2>1. committed <= committed'
    BY <1>4 DEF Forward
  <2> QED BY <1>1, <1>4, <2>1
<1>5. \/ \E k \in 1..MaxIndex, p \in Packs : apply_pack(k, p)
      \/ \E a, b \in 1 .. MaxIndex + 1, hint \in {-1, 0, 1} : log_entries(a, b, hint)
      \/ sure' = sure
  BY DEF LogNext, append, write_at, compact, commit_to, apply_pack_entry, apply_pack_end,
         disk_emul_loop, tick, last_entry, last_entry_find, log_entries_next, vars, raftVars
<1> QED BY <1>2, <1>3, <1>4, <1>5

LEMMA ReadsUnchanged ==
  ASSUME StoreInv, Forward, StoreInv', ReaderInv, CommittedReads, reader' = reader,
         sure' \in 0..committed', sure' <= sure
  PROVE  ReaderInv' /\ CommittedReads'
<1>1. /\ committed \in Nat /\ committed' \in Nat /\ sure \in 0..committed
      /\ start_idx \in Nat /\ start_idx' \in Nat /\ start_idx <= start_idx'
      /\ \A j \in 1..committed : j <= committed' => agreed'[j] = agreed[j]
  BY DEF Forward, StoreInv, StoreTypeOK, committed, ReaderInv
<1>2. ReaderInv'
  BY DEF ReaderInv
<1>3. CommittedReads'
  <2> SUFFICES ASSUME reader.op \in {"log_entries", "read"}, NEW j \in DOMAIN reader.got,
                      NEW k, k = reader.start + j - 1, k <= sure'
               PROVE  reader.got[j] = agreed'[k] \/ (reader.got[j] = Dummy /\ k < start_idx')
    BY DEF CommittedReads
  <2>1. k \in Nat \ {0}
    <3>1. reader.start \in Nat \ {0} /\ reader.got \in Seq(Entry \cup {Dummy})
      BY DEF ReaderInv, Reading, HasRead
    <3>2. j \in 1..Len(reader.got)
      BY <3>1
    <3> QED BY <3>1, <3>2
  <2>2. k <= sure /\ k \in 1..committed /\ k <= committed'
    BY <1>1, <2>1
  <2>3. reader.got[j] = agreed[k] \/ (reader.got[j] = Dummy /\ k < start_idx)
    BY <2>2 DEF CommittedReads
  <2> QED BY <1>1, <2>1, <2>2, <2>3
<1> QED BY <1>2, <1>3

LEMMA ReadsNext ==
  ASSUME StoreInv, ReaderInv, CommittedReads, log_entries_next
  PROVE  ReaderInv' /\ CommittedReads'
<1>1. /\ reader.op = "log_entries" /\ reader \in Reading /\ sure \in 0..committed
      /\ reader.start + Len(reader.got) < reader.end /\ committed \in Nat
      /\ UNCHANGED <<start_idx, agreed, sure>> /\ committed' = committed
  BY DEF log_entries_next, ReaderInv, StoreInv, StoreTypeOK, committed, storeVars, raftVars
<1>2. PICK s, n, x : s = reader.start /\ n = Len(reader.got) /\ x = entry_at(s + n)
  OBVIOUS
<1>3. /\ s \in Nat \ {0} /\ n \in Nat /\ reader.end \in Nat
      /\ reader.got \in Seq(Entry \cup {Dummy})
      /\ s + n \in Nat \ {0} /\ s + (n + 1) <= reader.end
  BY <1>1, <1>2 DEF Reading
<1>4. s + n <= sure => x = agreed[s + n] \/ (x = Dummy /\ s + n < start_idx)
  BY <1>1, <1>2, <1>3, EntryAt
<1>5. x \in Entry \cup {Dummy}
  BY <1>2, SpanState DEF entry_at, StoreInv, StoreTypeOK, Keys
<1>6. PICK got : got = Append(reader.got, x)
  OBVIOUS
<1>7. got \in Seq(Entry \cup {Dummy}) /\ Len(got) = n + 1 /\ got[n + 1] = x
      /\ \A j \in 1..n : got[j] = reader.got[j]
  BY <1>2, <1>3, <1>5, <1>6
<1>8. \A j \in DOMAIN got : s + j - 1 <= sure => \/ got[j] = agreed[s + j - 1]
                                                 \/ got[j] = Dummy /\ s + j - 1 < start_idx
  <2> SUFFICES ASSUME NEW j \in 1 .. n + 1, s + j - 1 <= sure
               PROVE  got[j] = agreed[s + j - 1] \/ (got[j] = Dummy /\ s + j - 1 < start_idx)
    BY <1>3, <1>7
  <2>1. CASE j = n + 1
    <3>1. s + j - 1 = s + n
      BY <1>3, <2>1
    <3> QED BY <1>4, <1>7, <2>1, <3>1
  <2>2. CASE j \in 1..n
    <3>1. j \in DOMAIN reader.got
      BY <1>2, <1>3, <2>2
    <3> QED BY <1>1, <1>2, <1>7, <2>2, <3>1 DEF CommittedReads
  <2> QED BY <1>3, <2>1, <2>2
<1>9. \/ /\ reader' = [op |-> "read", start |-> s, got |-> got]
      \/ /\ reader' = [reader EXCEPT !.got = got] /\ s + Len(got) # reader.end
  BY <1>2, <1>6 DEF log_entries_next
<1>10. CASE reader' = [op |-> "read", start |-> s, got |-> got]
  <2>1. reader'.op = "read" /\ reader'.start = s /\ reader'.got = got /\ reader' \in HasRead
    BY <1>3, <1>7, <1>10 DEF HasRead
  <2> QED BY <1>1, <1>8, <2>1 DEF ReaderInv, CommittedReads
<1>11. CASE reader' = [reader EXCEPT !.got = got] /\ s + Len(got) # reader.end
  <2>1. /\ reader'.op = "log_entries" /\ reader'.start = s /\ reader'.got = got
        /\ reader' \in Reading /\ reader'.end = reader.end
    BY <1>1, <1>2, <1>7, <1>11 DEF Reading
  <2>2. s + Len(got) < reader.end
    <3>1. s + Len(got) = s + (n + 1) /\ s + (n + 1) # reader.end
      BY <1>7, <1>11
    <3> QED BY <1>3, <3>1
  <2> QED BY <1>1, <1>8, <2>1, <2>2 DEF ReaderInv, CommittedReads
<1> QED BY <1>9, <1>10, <1>11

LEMMA ReadsOwn ==
  ASSUME StoreInv, ReaderInv, CommittedReads, OwnStep, sure' \in 0..committed'
  PROVE  ReaderInv' /\ CommittedReads'
<1>1. CASE last_entry
  <2>1. next_slot \in Nat
    BY SpanState DEF StoreInv
  <2>2. (packing # NoPack) \in BOOLEAN
    OBVIOUS
  <2>3. PICK p \in BOOLEAN : p = (packing # NoPack)
    BY <2>2
  <2>4. reader' = [op |-> "last_entry", next |-> next_slot, seen |-> {Last(logs)},
                   shrunk |-> FALSE, unpacked |-> p]
    BY <1>1, <2>3, Zenon DEF last_entry
  <2>5. reader' \in Watching /\ reader'.op = "last_entry"
    BY <2>1, <2>4, LastTyped DEF Watching
  <2> QED BY <2>5 DEF ReaderInv, CommittedReads
<1>2. CASE last_entry_find
  <2>1. reader'.op = "last"
    BY <1>2 DEF last_entry_find
  <2> QED BY <2>1 DEF ReaderInv, CommittedReads
<1>3. CASE log_entries_next
  BY <1>3, ReadsNext
<1>4. ASSUME NEW a \in 1 .. MaxIndex + 1, NEW b \in 1 .. MaxIndex + 1,
             NEW hint \in {-1, 0, 1}, log_entries(a, b, hint)
      PROVE  ReaderInv' /\ CommittedReads'
  <2>1. /\ a < b /\ a \in Nat \ {0} /\ b \in Nat /\ hint \in Int
        /\ committed' = committed /\ committed \in Nat
    BY <1>4, LogStoreAssumption DEF log_entries, committed, StoreInv, StoreTypeOK
  <2>2. CASE reader' = [op |-> "read", start |-> a, got |-> <<>>]
    <3>1. reader' \in HasRead /\ reader'.op = "read" /\ reader'.got = <<>> /\ reader'.start = a
      BY <2>1, <2>2 DEF HasRead
    <3> QED BY <2>1, <3>1 DEF ReaderInv, CommittedReads
  <2>3. CASE reader' = [op |-> "log_entries", start |-> a, end |-> b, hint |-> hint, got |-> <<>>]
    <3>1. /\ reader' \in Reading /\ reader'.op = "log_entries" /\ reader'.got = <<>>
          /\ reader'.start = a /\ reader'.end = b
      BY <2>1, <2>3 DEF Reading
    <3> QED BY <2>1, <3>1 DEF ReaderInv, CommittedReads
  <2> QED BY <1>4, <2>2, <2>3 DEF log_entries
<1> QED BY <1>1, <1>2, <1>3, <1>4 DEF OwnStep

ReadInv == StoreInv /\ ReaderInv /\ CommittedReads

LEMMA ReadInitial == LogInit => ReadInv
<1> SUFFICES ASSUME LogInit PROVE ReadInv
  OBVIOUS
<1>1. reader.op = "none" /\ sure = 0 /\ committed = 0
  BY DEF LogInit, NoCall, committed
<1> QED BY <1>1, StoreInitial DEF ReadInv, ReaderInv, CommittedReads

LEMMA ReadStep == ReadInv /\ [LogNext]_vars => ReadInv'
<1> SUFFICES ASSUME ReadInv, [LogNext]_vars PROVE ReadInv'
  OBVIOUS
<1>1. StoreInv /\ ReaderInv /\ CommittedReads /\ StoreInv' /\ Forward
  BY StoreStep DEF ReadInv
<1>2. sure' \in 0..committed' /\ (sure' <= sure \/ OwnStep)
  BY <1>1, SureStep DEF ReaderInv, OwnStep
<1>3. CASE OwnStep
  BY <1>1, <1>2, <1>3, ReadsOwn DEF ReadInv
<1>4. CASE reader' = reader /\ ~OwnStep
  BY <1>1, <1>2, <1>4, ReadsUnchanged DEF ReadInv
<1>5. CASE reader' \in Watching
  <2>1. reader'.op = "last_entry"
    BY <1>5 DEF Watching
  <2> QED BY <1>1, <1>2, <1>5, <2>1 DEF ReadInv, ReaderInv, CommittedReads
<1> QED BY <1>1, <1>3, <1>4, <1>5, ReaderCases

LEMMA ReadIsInv == LogSpec => []ReadInv
BY ReadInitial, ReadStep, PTL DEF LogSpec

(* CommittedReads holds of every behaviour: what was committed when a      *)
(* range was asked for is read, whatever is written, unpacked or committed *)
(* beside it, except where compaction has taken the entry away meanwhile.  *)
THEOREM CommittedReadsCorrect == LogSpec => []CommittedReads
BY ReadIsInv, PTL DEF ReadInv
-----------------------------------------------------------------------------
(* last_entry beside the writers *)

(* Three kinds of write between the two critical sections: an index that   *)
(* comes in is the last one, an index that stays keeps its entry, an index *)
(* that goes is noticed.                                                   *)
LEMMA WatchWrite ==
  ASSUME StoreInv, StoreInv', ReaderInv, WatchInv, packing' = packing,
         reader.op = "last_entry", reader' = Watched(logs', FALSE),
         \A x \in Keys(logs') : \/ x \in Keys(logs) /\ logs'[x] = logs[x]
                                \/ logs'[x] = Last(logs')
  PROVE  WatchInv'
<1>1. reader \in Watching /\ Last(logs') \in Entry \cup {Dummy}
  BY LastTyped DEF ReaderInv
<1>2. /\ reader'.next = reader.next /\ reader'.seen = reader.seen \cup {Last(logs')}
      /\ reader'.shrunk <=> (reader.shrunk \/ ~(DOMAIN logs \subseteq DOMAIN logs'))
      /\ reader'.unpacked <=> (reader.unpacked \/ FALSE)
  BY <1>1, WatchedIs
<1> SUFFICES ASSUME ~reader'.unpacked, NEW n, n = reader.next - 1
             PROVE  /\ packing' = NoPack
                    /\ IF n \in Keys(logs') THEN logs'[n] \in reader'.seen
                                            ELSE reader'.shrunk \/ Dummy \in reader'.seen
  BY <1>2 DEF WatchInv, Keys
<1>3. /\ packing = NoPack
      /\ IF n \in Keys(logs) THEN logs[n] \in reader.seen
                             ELSE reader.shrunk \/ Dummy \in reader.seen
  BY <1>2 DEF WatchInv
<1>4. CASE n \in Keys(logs')
  BY <1>2, <1>3, <1>4
<1>5. CASE n \notin Keys(logs') /\ n \in Keys(logs)
  <2>1. ~(DOMAIN logs \subseteq DOMAIN logs')
    BY <1>5 DEF Keys
  <2> QED BY <1>2, <1>3, <1>5, <2>1
<1>6. CASE n \notin Keys(logs') /\ n \notin Keys(logs)
  BY <1>2, <1>3, <1>6
<1> QED BY <1>3, <1>4, <1>5, <1>6

LEMMA WatchUnpack ==
  ASSUME StoreInv', ReaderInv, reader.op = "last_entry", reader' = Watched(logs', TRUE)
  PROVE  WatchInv'
<1>1. reader \in Watching /\ Last(logs') \in Entry \cup {Dummy}
  BY LastTyped DEF ReaderInv
<1>2. reader'.unpacked <=> (reader.unpacked \/ TRUE)
  BY <1>1, WatchedIs
<1> QED BY <1>2 DEF WatchInv

LEMMA WatchOther ==
  ASSUME NEW lg, NEW u, reader.op # "last_entry", reader' = Watched(lg, u)
  PROVE  WatchInv' /\ reader' = reader
BY WatchedOther DEF WatchInv

LEMMA WatchAppend ==
  ASSUME StoreInv, StoreInv', ReaderInv, WatchInv, NEW e \in Entry, append(e)
  PROVE  WatchInv'
<1>1. PICK f, m : f = FirstIndex /\ m = Size
  OBVIOUS
<1>2. /\ packing' = packing /\ logs' = assign(logs, f + m, e) /\ SpanAt(f, m + 1)'
  BY <1>1, Appends
<1>3. reader' = Watched(logs', FALSE)
  BY DEF append
<1>4. Span(logs', f, m + 1)
  BY <1>2 DEF SpanAt, Span
<1>5. f \in Nat /\ m \in Nat /\ Last(logs') = logs'[f + m]
  <2>1. f \in Nat /\ m \in Nat
    BY <1>1, SpanState DEF StoreInv
  <2>2. Last(logs') = logs'[f + (m + 1) - 1] /\ f + (m + 1) - 1 = f + m
    BY <1>4, <2>1, SpanFacts
  <2> QED BY <2>1, <2>2
<1>6. /\ Keys(logs') \subseteq {f + m} \cup Keys(logs)
      /\ \A x \in Keys(logs) : x # f + m => logs'[x] = logs[x]
  BY <1>2 DEF assign, Keys
<1>7. CASE reader.op = "last_entry"
  BY <1>2, <1>3, <1>5, <1>6, <1>7, WatchWrite
<1> QED BY <1>3, <1>7, WatchOther

LEMMA WatchWriteAt ==
  ASSUME StoreInv, StoreInv', ReaderInv, WatchInv,
         NEW k \in 1..MaxIndex, NEW e \in Entry, write_at(k, e)
  PROVE  WatchInv'
<1>1. PICK f, m : f = FirstIndex /\ m = Size
  OBVIOUS
<1>2. /\ packing' = packing /\ k \in f .. f + m
      /\ \A x \in f .. k - 1 : x \in DOMAIN logs /\ logs'[x] = logs[x]
      /\ SpanAt(f, k - f + 1)'
  BY <1>1, WritesAt
<1>3. reader' = Watched(logs', FALSE)
  BY DEF write_at
<1>4. PICK n : n = k - f + 1
  OBVIOUS
<1>5. f \in Nat \ {0} /\ n \in Nat /\ n > 0 /\ f + n - 1 = k /\ Span(logs', f, n) /\ k \in Nat
  <2>1. f \in Nat \ {0} /\ m \in Nat
    BY <1>1, SpanState DEF StoreInv
  <2>2. Span(logs', f, n)
    BY <1>2, <1>4 DEF SpanAt, Span
  <2> QED BY <1>2, <1>4, <2>1, <2>2
<1>6. Keys(logs') = f .. k /\ Last(logs') = logs'[k]
  BY <1>5, SpanFacts
<1>7. \A x \in Keys(logs') : \/ x \in Keys(logs) /\ logs'[x] = logs[x]
                             \/ logs'[x] = Last(logs')
  <2> SUFFICES ASSUME NEW x \in f .. k, x # k
               PROVE  x \in Keys(logs) /\ logs'[x] = logs[x]
    BY <1>6
  <2>1. x \in f .. k - 1 /\ x # 0
    BY <1>5
  <2> QED BY <1>2, <2>1 DEF Keys
<1>8. CASE reader.op = "last_entry"
  BY <1>2, <1>3, <1>7, <1>8, WatchWrite
<1> QED BY <1>3, <1>8, WatchOther

LEMMA WatchCompact ==
  ASSUME StoreInv, StoreInv', ReaderInv, WatchInv, NEW k \in 1..MaxIndex, compact(k)
  PROVE  WatchInv'
<1>1. /\ packing' = packing
      /\ \A x \in DOMAIN logs' : x \in DOMAIN logs /\ logs'[x] = logs[x]
  BY Compacts
<1>2. reader' = Watched(logs', FALSE)
  BY DEF compact
<1>3. CASE reader.op = "last_entry"
  BY <1>1, <1>2, <1>3, WatchWrite DEF Keys
<1> QED BY <1>2, <1>3, WatchOther

LEMMA WatchStart ==
  ASSUME StoreInv, last_entry
  PROVE  WatchInv'
<1>1. /\ reader'.next = next_slot /\ reader'.seen = {Last(logs)}
      /\ reader'.unpacked = (packing # NoPack)
      /\ logs' = logs /\ packing' = packing
  BY DEF last_entry, storeVars
<1> SUFFICES ASSUME packing = NoPack
             PROVE  IF next_slot - 1 \in Keys(logs) THEN logs[next_slot - 1] = Last(logs)
                                                    ELSE Dummy = Last(logs)
  BY <1>1 DEF WatchInv, Keys
<1>2. PICK f, m : f = FirstIndex /\ m = Size
  OBVIOUS
<1>3. /\ f \in Nat \ {0} /\ m \in Nat /\ next_slot = f + m /\ Span(logs, f, m)
      /\ Keys(logs) = f .. f + m - 1
  BY <1>2, SpanState DEF StoreInv, SpanAt
<1>4. CASE m = 0
  <2>1. next_slot - 1 \notin Keys(logs) /\ Last(logs) = Dummy
    BY <1>3, <1>4, SpanFacts
  <2> QED BY <2>1
<1>5. CASE m > 0
  <2>1. next_slot - 1 = f + m - 1 /\ next_slot - 1 \in Keys(logs)
    BY <1>3, <1>5
  <2>2. Last(logs) = logs[f + m - 1]
    BY <1>3, <1>5, SpanFacts
  <2> QED BY <2>1, <2>2
<1> QED BY <1>3, <1>4, <1>5

LEMMA WatchFind ==
  ASSUME StoreInv, ReaderInv, WatchInv, last_entry_find
  PROVE  WatchInv' /\ LastEntryWasLast'
<1>1. /\ reader.op = "last_entry" /\ reader'.op = "last"
      /\ reader'.res = entry_at(reader.next - 1) /\ reader'.seen = reader.seen
      /\ reader'.shrunk = reader.shrunk /\ reader'.unpacked = reader.unpacked
  BY DEF last_entry_find
<1>2. WatchInv'
  BY <1>1 DEF WatchInv
<1>3. LastEntryWasLast'
  <2> SUFFICES ASSUME ~reader.unpacked, NEW n, n = reader.next - 1
               PROVE  entry_at(n) \in reader.seen \/ (entry_at(n) = Dummy /\ reader.shrunk)
    BY <1>1 DEF LastEntryWasLast
  <2>1. CASE n \in Keys(logs)
    BY <1>1, <2>1 DEF WatchInv, entry_at, Keys
  <2>2. CASE n \notin Keys(logs)
    <3>1. entry_at(n) = Dummy
      BY <2>2 DEF entry_at, Keys, StoreInv, StoreTypeOK
    <3> QED BY <1>1, <2>2, <3>1 DEF WatchInv
  <2> QED BY <2>1, <2>2
<1> QED BY <1>2, <1>3

LastInv == ReadInv /\ WatchInv /\ LastEntryWasLast

LEMMA WatchStep ==
  ASSUME ReadInv, ReadInv', WatchInv, [LogNext]_vars
  PROVE  WatchInv'
<1>1. StoreInv /\ StoreInv' /\ ReaderInv
  BY DEF ReadInv
<1>2. CASE \E e \in Entry : append(e)
  BY <1>1, <1>2, WatchAppend
<1>3. CASE \E e \in Entry, k \in 1..MaxIndex : write_at(k, e)
  BY <1>1, <1>3, WatchWriteAt
<1>4. CASE \E k \in 1..MaxIndex : compact(k)
  BY <1>1, <1>4, WatchCompact
<1>5. CASE \E k \in 1..MaxIndex : commit_to(k)
  BY <1>5 DEF commit_to, storeVars, WatchInv, Keys
<1>6. ASSUME NEW lg, lg = logs', reader' = Watched(lg, TRUE) PROVE WatchInv'
  BY <1>1, <1>6, WatchUnpack, WatchOther
<1>7. CASE \E k \in 1..MaxIndex, p \in Packs : apply_pack(k, p)
  <2>1. reader' = Watched(logs', TRUE)
    BY <1>7 DEF apply_pack
  <2> QED BY <1>6, <2>1
<1>8. CASE apply_pack_entry
  BY <1>6, <1>8 DEF apply_pack_entry
<1>9. CASE apply_pack_end
  BY <1>9 DEF apply_pack_end, WatchInv
<1>10. CASE disk_emul_loop \/ tick \/ UNCHANGED vars
  BY <1>10 DEF disk_emul_loop, tick, vars, storeVars, WatchInv, Keys
<1>11. CASE last_entry
  BY <1>1, <1>11, WatchStart
<1>12. CASE last_entry_find
  BY <1>1, <1>12, WatchFind
<1>13. CASE log_entries_next
  <2>1. reader'.op # "last_entry"
    <3>1. reader \in Reading
      BY <1>1, <1>13 DEF log_entries_next, ReaderInv
    <3> QED BY <1>13, <3>1 DEF log_entries_next, Reading
  <2> QED BY <2>1 DEF WatchInv
<1>14. CASE \E a, b \in 1 .. MaxIndex + 1, hint \in {-1, 0, 1} : log_entries(a, b, hint)
  <2>1. reader'.op # "last_entry"
    BY <1>14 DEF log_entries
  <2> QED BY <2>1 DEF WatchInv
<1> QED BY <1>2, <1>3, <1>4, <1>5, <1>7, <1>8, <1>9, <1>10, <1>11, <1>12, <1>13, <1>14
        DEF LogNext

LEMMA LastStep == LastInv /\ [LogNext]_vars => LastInv'
<1> SUFFICES ASSUME LastInv, [LogNext]_vars PROVE LastInv'
  OBVIOUS
<1>1. ReadInv /\ WatchInv /\ LastEntryWasLast /\ ReadInv' /\ WatchInv'
  BY ReadStep, WatchStep DEF LastInv
<1>2. CASE reader' = reader
  BY <1>1, <1>2 DEF LastEntryWasLast, LastInv
<1>3. CASE reader' \in Watching
  <2>1. reader'.op # "last"
    BY <1>3 DEF Watching
  <2> QED BY <1>1, <2>1 DEF LastInv, LastEntryWasLast
<1>4. CASE last_entry_find
  BY <1>1, <1>4, WatchFind DEF ReadInv, LastInv
<1>5. CASE last_entry
  <2>1. reader'.op = "last_entry"
    BY <1>5 DEF last_entry
  <2> QED BY <1>1, <2>1 DEF LastInv, LastEntryWasLast
<1>6. CASE log_entries_next
  <2>1. reader'.op # "last"
    <3>1. reader \in Reading
      BY <1>1, <1>6 DEF log_entries_next, ReadInv, ReaderInv
    <3> QED BY <1>6, <3>1 DEF log_entries_next, Reading
  <2> QED BY <1>1, <2>1 DEF LastInv, LastEntryWasLast
<1>7. CASE \E a, b \in 1 .. MaxIndex + 1, hint \in {-1, 0, 1} : log_entries(a, b, hint)
  <2>1. reader'.op # "last"
    BY <1>7 DEF log_entries
  <2> QED BY <1>1, <2>1 DEF LastInv, LastEntryWasLast
<1>8. reader' = reader \/ reader' \in Watching \/ OwnStep
  BY <1>1, ReaderCases DEF ReadInv
<1> QED BY <1>2, <1>3, <1>4, <1>5, <1>6, <1>7, <1>8 DEF OwnStep

LEMMA LastInitial == LogInit => LastInv
<1> SUFFICES ASSUME LogInit PROVE LastInv
  OBVIOUS
<1>1. reader.op = "none"
  BY DEF LogInit, NoCall
<1> QED BY <1>1, ReadInitial DEF LastInv, WatchInv, LastEntryWasLast

(* LastEntryWasLast holds of every behaviour: between the two critical     *)
(* sections of last_entry any number of writes may happen.                 *)
THEOREM LastEntryCorrect == LogSpec => []LastEntryWasLast
<1>1. LastInv => LastEntryWasLast
  BY DEF LastInv
<1> QED BY <1>1, LastInitial, LastStep, PTL DEF LogSpec
-----------------------------------------------------------------------------
(* The emulated disk *)

LEMMA ToDisk ==
  ASSUME DiskInv, load \in Workloads, load' = load,
         NEW idx \in Int, NEW forget, to_disk(idx, forget)
  PROVE  DiskInv'
<1> SUFFICES ASSUME Delay > 0 PROVE DiskInv'
  BY DEF DiskInv, Delay
<1>1. Delay' = Delay /\ Delay \in Nat /\ now' = now /\ now \in Nat
      /\ DOMAIN being_written \subseteq 0 .. now + Delay
  BY LogStoreAssumption DEF Delay, to_disk, DiskInv
<1>2. PICK bw : bw = assign(being_written, now + Delay, idx)
  OBVIOUS
<1>3. DOMAIN bw = {now + Delay} \cup DOMAIN being_written /\ bw[now + Delay] = idx
  BY <1>2 DEF assign
<1>4. PICK kept : kept = {t \in DOMAIN bw : forget => bw[t] <= idx}
  OBVIOUS
<1>5. written' = idx /\ being_written' = Restrict(bw, kept)
  BY <1>1, <1>2, <1>4 DEF to_disk
<1>6. DOMAIN being_written' = kept /\ \A t \in kept : being_written'[t] = bw[t]
  BY <1>5 DEF Restrict
<1>7. now + Delay \in kept /\ kept \subseteq 0 .. now + Delay
  BY <1>1, <1>3, <1>4
<1>8. being_written'[now + Delay] = written' /\ \A u \in DOMAIN being_written' : u <= now + Delay
  <2>1. being_written'[now + Delay] = bw[now + Delay]
    BY <1>6, <1>7
  <2>2. \A u \in 0 .. now + Delay : u <= now + Delay
    BY <1>1
  <2> QED BY <1>3, <1>5, <1>6, <1>7, <2>1, <2>2
<1> QED BY <1>1, <1>6, <1>7, <1>8 DEF DiskInv

LEMMA DiskDone ==
  ASSUME DiskInv, load \in Workloads, disk_emul_loop
  PROVE  DiskInv'
<1>1. PICK expired : expired = {t \in DOMAIN being_written : t <= now}
  OBVIOUS
<1>2. /\ Delay > 0 /\ load' = load /\ now' = now /\ written' = written
      /\ expired # {} /\ durable' = being_written[Max(expired)]
      /\ being_written' = Restrict(being_written, DOMAIN being_written \ expired)
  BY <1>1 DEF disk_emul_loop
<1>3. /\ DOMAIN being_written' = DOMAIN being_written \ expired
      /\ \A t \in DOMAIN being_written' : being_written'[t] = being_written[t]
  BY <1>2 DEF Restrict
<1>4. Delay' = Delay /\ now \in Nat /\ DOMAIN being_written \subseteq 0 .. now + Delay
      /\ Delay \in Nat
  BY <1>2, LogStoreAssumption DEF DiskInv, Delay
<1>5. PICK t \in DOMAIN being_written :
         being_written[t] = written /\ \A u \in DOMAIN being_written : u <= t
  BY <1>1, <1>2 DEF DiskInv
<1>6. CASE t \in expired
  <2>1. expired = DOMAIN being_written
    <3>1. t <= now /\ t \in Int /\ now \in Int
      BY <1>1, <1>4, <1>6
    <3>2. \A u \in DOMAIN being_written : u <= t /\ u \in Int
      BY <1>4, <1>5
    <3>3. \A u \in DOMAIN being_written : u <= now
      BY <3>1, <3>2
    <3> QED BY <1>1, <3>3
  <2>2. Max(expired) = t
    <3>1. t \in expired /\ \A u \in expired : t >= u
      BY <1>4, <1>5, <1>6, <2>1
    <3>2. Max(expired) \in expired /\ \A u \in expired : Max(expired) >= u
      BY <3>1 DEF Max
    <3>3. Max(expired) \in Int /\ t \in Int
      BY <1>4, <1>5, <2>1, <3>2
    <3> QED BY <3>1, <3>2, <3>3
  <2>3. DOMAIN being_written' = {} /\ written' = durable'
    BY <1>2, <1>3, <1>5, <2>1, <2>2
  <2> QED BY <1>2, <1>4, <2>3 DEF DiskInv
<1>7. CASE t \notin expired
  <2>1. t \in DOMAIN being_written' /\ being_written'[t] = written'
        /\ \A u \in DOMAIN being_written' : u <= t
    BY <1>2, <1>3, <1>5, <1>7
  <2> QED BY <1>2, <1>3, <1>4, <2>1 DEF DiskInv
<1> QED BY <1>6, <1>7

LEMMA DiskStep == StoreInv /\ DiskInv /\ [LogNext]_vars => DiskInv'
<1> SUFFICES ASSUME StoreInv, DiskInv, [LogNext]_vars PROVE DiskInv'
  OBVIOUS
<1>1. load \in Workloads /\ Delay \in Nat /\ next_slot \in Int
  BY SpanState, LogStoreAssumption DEF StoreInv, StoreTypeOK, Delay
<1>2. CASE \E e \in Entry : append(e)
  BY <1>1, <1>2, ToDisk DEF append
<1>3. CASE \E e \in Entry, k \in 1..MaxIndex : write_at(k, e)
  <2>1. PICK k \in 1..MaxIndex : load' = load /\ to_disk(k, TRUE)
    BY <1>3 DEF write_at
  <2>2. k \in Int
    OBVIOUS
  <2> QED BY <1>1, <2>1, <2>2, ToDisk, Zenon
<1>4. ASSUME UNCHANGED <<load, diskVars>> PROVE DiskInv'
  BY <1>4 DEF DiskInv, diskVars, Delay
<1>5. CASE \E k \in 1..MaxIndex : compact(k) \/ commit_to(k)
  BY <1>4, <1>5 DEF compact, commit_to
<1>6. CASE \E k \in 1..MaxIndex, p \in Packs : apply_pack(k, p)
  BY <1>4, <1>6 DEF apply_pack
<1>7. CASE apply_pack_entry \/ apply_pack_end \/ OwnStep \/ UNCHANGED vars
  BY <1>4, <1>7 DEF apply_pack_entry, apply_pack_end, OwnStep, last_entry, last_entry_find,
                    log_entries_next, log_entries, vars
<1>8. CASE disk_emul_loop
  BY <1>1, <1>8, DiskDone
<1>9. CASE tick
  <2>1. /\ UNCHANGED <<load, being_written, durable, written>> /\ now' = now + 1
        /\ Delay' = Delay
    BY <1>9 DEF tick, Delay
  <2> SUFFICES ASSUME Delay > 0 PROVE DiskInv'
    BY <2>1 DEF DiskInv
  <2>2. now \in Nat /\ DOMAIN being_written \subseteq 0 .. (now + 1) + Delay
    BY <1>1 DEF DiskInv
  <2> QED BY <2>1, <2>2 DEF DiskInv
<1> QED BY <1>2, <1>3, <1>5, <1>6, <1>7, <1>8, <1>9 DEF LogNext, OwnStep

(* LastWriteTracked holds of every behaviour, for any delay of the disk: a *)
(* completion is not lost when write_at forgets the higher indices.        *)
THEOREM LastWriteCorrect == LogSpec => []LastWriteTracked
<1>1. LogInit => DiskInv
  BY DEF LogInit, DiskInv
<1>2. DiskInv => LastWriteTracked
  BY DEF DiskInv, LastWriteTracked, Range
<1> QED BY <1>1, <1>2, StoreIsInv, DiskStep, PTL DEF LogSpec
-----------------------------------------------------------------------------
(* The contract of a log store *)

(* The entries in order: what the contract calls ents. *)
Entries == [j \in 1..Cardinality(Keys(logs)) |-> entry_at(FirstIndex + j - 1)]

(* They are those of logs from f on. *)
LEMMA EntriesAre ==
  ASSUME StoreInv, NEW f, NEW m, f = FirstIndex, m = Size
  PROVE  /\ Entries \in Seq(Entry) /\ Len(Entries) = m /\ f \in Nat \ {0} /\ m \in Nat
         /\ Entries = [j \in 1..m |-> logs[f + j - 1]]
         /\ \A j \in 1..m : f + j - 1 \in DOMAIN logs /\ logs[f + j - 1] \in Entry
<1>1. /\ f \in Nat \ {0} /\ m \in Nat /\ Keys(logs) = f .. f + m - 1
      /\ \A x \in Keys(logs) : x \in DOMAIN logs /\ logs[x] \in Entry
  BY SpanState DEF StoreInv, StoreTypeOK, Keys
<1>2. \A j \in 1..m : f + j - 1 \in Keys(logs)
  BY <1>1
<1>3. \A j \in 1..m : /\ f + j - 1 \in DOMAIN logs /\ logs[f + j - 1] \in Entry
                      /\ entry_at(f + j - 1) = logs[f + j - 1]
  BY <1>1, <1>2 DEF entry_at
<1>4. Entries = [j \in 1..m |-> entry_at(f + j - 1)]
  BY DEF Entries, Size
<1>5. Entries = [j \in 1..m |-> logs[f + j - 1]]
  BY <1>3, <1>4
<1> QED BY <1>1, <1>3, <1>5

(* The same of the next state. *)
LEMMA EntriesNext ==
  ASSUME StoreInv', NEW f, NEW m, SpanAt(f, m)'
  PROVE  /\ Entries' \in Seq(Entry) /\ Len(Entries') = m /\ FirstIndex' = f
         /\ Entries' = [j \in 1..m |-> logs'[f + j - 1]]
<1>1. f = FirstIndex' /\ m = Size'
  BY SpanNext
<1>2. /\ DOMAIN logs' = {0} \cup (f .. f + m - 1) /\ f \in Nat \ {0} /\ m \in Nat
  BY DEF SpanAt, Span
<1>3. \A x \in DOMAIN logs' : x # 0 => logs'[x] \in Entry
  BY DEF StoreInv, StoreTypeOK, Keys
<1>4. \A j \in 1..m : f + j - 1 \in DOMAIN logs' /\ f + j - 1 # 0
  BY <1>2
<1>5. Entries' = [j \in 1..m |-> entry_at(f + j - 1)']
  BY <1>1 DEF Entries, Size
<1>6. \A j \in 1..m : entry_at(f + j - 1)' = logs'[f + j - 1] /\ logs'[f + j - 1] \in Entry
  BY <1>3, <1>4 DEF entry_at
<1>7. Entries' = [j \in 1..m |-> logs'[f + j - 1]]
  BY <1>5, <1>6
<1>8. Entries' \in [1..m -> Entry]
  BY <1>6, <1>7
<1>9. Entries' \in Seq(Entry) /\ Len(Entries') = m
  BY <1>2, <1>8
<1> QED BY <1>1, <1>7, <1>9

LEMMA ContractAppend ==
  ASSUME StoreInv, StoreInv', NEW e \in Entry, append(e)
  PROVE  /\ FirstIndex' = FirstIndex /\ packing' = packing
         /\ Entries' = Append(Entries, e)
<1>1. PICK f, m : f = FirstIndex /\ m = Size
  OBVIOUS
<1>2. packing' = packing /\ logs' = assign(logs, f + m, e) /\ SpanAt(f, m + 1)'
  BY <1>1, Appends
<1>3. /\ Entries \in Seq(Entry) /\ Len(Entries) = m /\ f \in Nat \ {0} /\ m \in Nat
      /\ \A j \in 1..m : f + j - 1 \in DOMAIN logs /\ Entries[j] = logs[f + j - 1]
  BY <1>1, EntriesAre
<1>4. /\ Entries' \in Seq(Entry) /\ Len(Entries') = m + 1 /\ FirstIndex' = f
      /\ \A j \in 1 .. m + 1 : Entries'[j] = logs'[f + j - 1]
  BY <1>2, EntriesNext
<1>5. logs'[f + m] = e /\ \A x \in DOMAIN logs : x # f + m => logs'[x] = logs[x]
  BY <1>2 DEF assign
<1>6. /\ Append(Entries, e) \in Seq(Entry) /\ Len(Append(Entries, e)) = m + 1
      /\ \A j \in 1..m : Append(Entries, e)[j] = Entries[j]
      /\ Append(Entries, e)[m + 1] = e
  BY <1>3, AppendProperties
<1>7. \A j \in 1 .. m + 1 : Entries'[j] = Append(Entries, e)[j]
  <2> SUFFICES ASSUME NEW j \in 1 .. m + 1 PROVE Entries'[j] = Append(Entries, e)[j]
    OBVIOUS
  <2>1. CASE j = m + 1
    <3>1. f + j - 1 = f + m
      BY <1>3, <2>1
    <3> QED BY <1>4, <1>5, <1>6, <2>1, <3>1
  <2>2. CASE j \in 1..m
    <3>1. f + j - 1 # f + m
      BY <1>3, <2>2
    <3> QED BY <1>3, <1>4, <1>5, <1>6, <2>2, <3>1
  <2> QED BY <1>3, <2>1, <2>2
<1>8. Entries' = Append(Entries, e)
  BY <1>4, <1>6, <1>7, SeqEqual
<1> QED BY <1>1, <1>2, <1>4, <1>8

LEMMA ContractWriteAt ==
  ASSUME StoreInv, StoreInv', NEW k \in 1..MaxIndex, NEW e \in Entry, write_at(k, e)
  PROVE  /\ FirstIndex' = FirstIndex /\ packing' = packing /\ packing = NoPack
         /\ k \in FirstIndex .. FirstIndex + Len(Entries)
         /\ Entries' = Append(SubSeq(Entries, 1, k - FirstIndex), e)
<1>1. PICK f, m : f = FirstIndex /\ m = Size
  OBVIOUS
<1>2. /\ packing' = packing /\ packing = NoPack /\ k \in f .. f + m /\ logs'[k] = e
      /\ \A x \in f .. k - 1 : x \in DOMAIN logs /\ logs'[x] = logs[x]
      /\ SpanAt(f, k - f + 1)'
  BY <1>1, WritesAt
<1>3. /\ Entries \in Seq(Entry) /\ Len(Entries) = m /\ f \in Nat \ {0} /\ m \in Nat
      /\ \A j \in 1..m : Entries[j] = logs[f + j - 1] /\ logs[f + j - 1] \in Entry
  BY <1>1, EntriesAre
<1>4. PICK n \in Nat : n = k - f
  BY <1>2, <1>3
<1>5. k = f + n /\ n <= m /\ n + 1 = k - f + 1
  BY <1>2, <1>3, <1>4
<1>6. /\ Entries' \in Seq(Entry) /\ Len(Entries') = n + 1 /\ FirstIndex' = f
      /\ \A j \in 1 .. n + 1 : Entries'[j] = logs'[f + j - 1]
  BY <1>2, <1>5, EntriesNext
<1>7. PICK cut : cut = SubSeq(Entries, 1, n)
  OBVIOUS
<1>8. cut \in Seq(Entry) /\ Len(cut) = n /\ \A j \in 1..n : cut[j] = Entries[j]
  <2>1. \A j \in 1..n : Entries[j] \in Entry
    BY <1>3, <1>5
  <2> QED BY <1>5, <1>7, <2>1, SubSeqProperties
<1>9. /\ Append(cut, e) \in Seq(Entry) /\ Len(Append(cut, e)) = n + 1
      /\ \A j \in 1..n : Append(cut, e)[j] = cut[j]
      /\ Append(cut, e)[n + 1] = e
  BY <1>8, AppendProperties
<1>10. \A j \in 1 .. n + 1 : Entries'[j] = Append(cut, e)[j]
  <2> SUFFICES ASSUME NEW j \in 1 .. n + 1 PROVE Entries'[j] = Append(cut, e)[j]
    OBVIOUS
  <2>1. CASE j = n + 1
    <3>1. f + j - 1 = k
      BY <1>3, <1>5, <2>1
    <3> QED BY <1>2, <1>6, <1>9, <2>1, <3>1
  <2>2. CASE j \in 1..n
    <3>1. f + j - 1 \in f .. k - 1 /\ j \in 1..m
      BY <1>3, <1>5, <2>2
    <3> QED BY <1>2, <1>3, <1>6, <1>8, <1>9, <2>2, <3>1
  <2>3. j = n + 1 \/ j \in 1..n
    OBVIOUS
  <2> QED BY <2>1, <2>2, <2>3, Zenon
<1>11. Entries' = Append(cut, e)
  BY <1>6, <1>9, <1>10, SeqEqual
<1> QED BY <1>1, <1>2, <1>3, <1>4, <1>6, <1>7, <1>11

LEMMA ContractCompact ==
  ASSUME StoreInv, StoreInv', NEW k \in 1..MaxIndex, compact(k)
  PROVE  /\ packing' = packing /\ packing = NoPack
         /\ \/ FirstIndex' = FirstIndex /\ Entries' = Entries
            \/ /\ FirstIndex' = k + 1 /\ FirstIndex' > FirstIndex /\ k \in Nat
               /\ Entries' = SubSeq(Entries, k - FirstIndex + 2, Len(Entries))
<1>1. PICK f, m : f = FirstIndex /\ m = Size
  OBVIOUS
<1>2. /\ packing = NoPack /\ packing' = packing /\ f = start_idx
      /\ \A x \in DOMAIN logs' : x \in DOMAIN logs /\ logs'[x] = logs[x]
      /\ k < f => SpanAt(f, m)'
      /\ f <= k => /\ k < f + m => SpanAt(k + 1, f + m - 1 - k)'
                   /\ k >= f + m => SpanAt(k + 1, 0)'
  BY <1>1, Compacts
<1>3. /\ Entries \in Seq(Entry) /\ Len(Entries) = m /\ f \in Nat \ {0} /\ m \in Nat
      /\ Entries = [j \in 1..m |-> logs[f + j - 1]] /\ k \in Nat
      /\ \A j \in 1..m : logs[f + j - 1] \in Entry
  BY <1>1, EntriesAre
<1>4. CASE k < f
  <2>1. /\ Entries' = [j \in 1..m |-> logs'[f + j - 1]] /\ FirstIndex' = f
    BY <1>2, <1>4, EntriesNext
  <2>2. DOMAIN logs' = {0} \cup (f .. f + m - 1)
    BY <1>2, <1>4 DEF SpanAt, Span
  <2>3. \A j \in 1..m : f + j - 1 \in DOMAIN logs'
    BY <1>3, <2>2
  <2>4. Entries' = Entries
    BY <1>2, <1>3, <2>1, <2>3
  <2> QED BY <1>1, <1>2, <2>1, <2>4
<1>5. CASE f <= k
  <2>1. PICK n \in Nat : /\ n = IF k < f + m THEN f + m - 1 - k ELSE 0
    <3>1. CASE k < f + m
      <4>1. f + m - 1 - k \in Nat
        BY <1>3, <3>1
      <4> QED BY <3>1, <4>1
    <3>2. CASE ~(k < f + m)
      BY <3>2
    <3> QED BY <3>1, <3>2
  <2>2. SpanAt(k + 1, n)'
    BY <1>2, <1>3, <1>5, <2>1
  <2>3. /\ Entries' \in Seq(Entry) /\ Len(Entries') = n /\ FirstIndex' = k + 1
        /\ \A j \in 1..n : Entries'[j] = logs'[k + 1 + j - 1]
    BY <2>2, EntriesNext
  <2>4. PICK q : q = k - f + 2
    OBVIOUS
  <2>5. q \in Nat /\ q >= 2 /\ n = (IF q <= m THEN m - q + 1 ELSE 0)
    BY <1>3, <1>5, <2>1, <2>4
  <2>6. \A j \in q..m : Entries[j] \in Entry
    BY <1>3, <2>5
  <2>7. PICK cut : cut = SubSeq(Entries, q, m)
    OBVIOUS
  <2>8. /\ cut \in Seq(Entry) /\ Len(cut) = n
        /\ \A j \in 1 .. m - q + 1 : cut[j] = Entries[q + j - 1]
    <3>1. q \in Int /\ m \in Int
      BY <1>3, <2>5
    <3>2. /\ cut \in Seq(Entry) /\ Len(cut) = IF q <= m THEN m - q + 1 ELSE 0
          /\ \A j \in 1 .. m - q + 1 : cut[j] = Entries[q + j - 1]
      BY <2>6, <2>7, <3>1, SubSeqProperties
    <3> QED BY <2>5, <3>2
  <2>9. \A j \in 1..n : Entries'[j] = cut[j]
    <3> SUFFICES ASSUME NEW j \in 1..n PROVE Entries'[j] = cut[j]
      OBVIOUS
    <3>1. /\ j \in 1 .. m - q + 1 /\ q + j - 1 \in 1..m
          /\ k + 1 + j - 1 = f + (q + j - 1) - 1
      BY <1>3, <2>4, <2>5
    <3>2. k + 1 + j - 1 \in DOMAIN logs'
      <4>1. DOMAIN logs' = {0} \cup (k + 1 .. (k + 1) + n - 1)
        BY <2>2 DEF SpanAt, Span
      <4> QED BY <1>3, <4>1
    <3>3. Entries'[j] = logs[f + (q + j - 1) - 1]
      BY <1>2, <2>3, <3>1, <3>2
    <3>4. cut[j] = Entries[q + j - 1]
      BY <2>8, <3>1
    <3>5. Entries[q + j - 1] = logs[f + (q + j - 1) - 1]
      BY <1>3, <3>1
    <3> QED BY <3>3, <3>4, <3>5
  <2>10. Entries' = cut
    BY <2>3, <2>8, <2>9, SeqEqual
  <2>11. k + 1 > f
    BY <1>3, <1>5
  <2> QED BY <1>1, <1>2, <1>3, <2>3, <2>4, <2>7, <2>10, <2>11
<1>6. k < f \/ f <= k
  BY <1>3
<1> QED BY <1>4, <1>5, <1>6, Zenon

LEMMA ContractUnpack ==
  ASSUME StoreInv, StoreInv', apply_pack_entry
  PROVE  /\ packing # NoPack /\ packing' # NoPack
         /\ \E e \in Entry :
              \/ /\ Entries = <<>> /\ Entries' = <<e>> /\ FirstIndex' \in Nat \ {0}
              \/ /\ FirstIndex' = FirstIndex /\ Entries' = Append(Entries, e)
              \/ /\ FirstIndex' = FirstIndex
                 /\ \E p \in 1..Len(Entries) : Entries' = [Entries EXCEPT ![p] = e]
<1>1. PICK f, m, i, e : f = FirstIndex /\ m = Size /\ i = packing.idx /\ e = Head(packing.left)
  OBVIOUS
<1>2. /\ packing # NoPack /\ packing' # NoPack /\ i \in Nat \ {0} /\ e \in Entry
      /\ logs' = assign(logs, i, e)
      /\ m = 0 => SpanAt(i, 1)'
      /\ m > 0 => i \in f .. f + m
      /\ m > 0 /\ i < f + m => SpanAt(f, m)'
      /\ m > 0 /\ i = f + m => SpanAt(f, m + 1)'
  BY <1>1, Unpacks
<1>3. /\ Entries \in Seq(Entry) /\ Len(Entries) = m /\ f \in Nat \ {0} /\ m \in Nat
      /\ Entries = [j \in 1..m |-> logs[f + j - 1]]
      /\ \A j \in 1..m : f + j - 1 \in DOMAIN logs
  BY <1>1, EntriesAre
<1>4. logs'[i] = e /\ \A x \in DOMAIN logs : x # i => logs'[x] = logs[x]
  BY <1>2 DEF assign
<1>5. CASE m = 0
  <2>1. Entries' = [j \in 1..1 |-> logs'[i + j - 1]] /\ FirstIndex' = i
    BY <1>2, <1>5, EntriesNext
  <2>2. Entries' \in Seq(Entry) /\ Len(Entries') = 1 /\ Entries'[1] = e
    BY <1>2, <1>4, <2>1, <1>5, EntriesNext
  <2>3. Entries' = <<e>>
    BY <1>2, <2>2, SeqEqual
  <2>4. Entries = <<>>
    BY <1>3, <1>5
  <2> QED BY <1>2, <2>1, <2>3, <2>4
<1>6. CASE m > 0 /\ i < f + m
  <2>1. Entries' = [j \in 1..m |-> logs'[f + j - 1]] /\ FirstIndex' = f
    BY <1>2, <1>6, EntriesNext
  <2>2. PICK p : p = i - f + 1
    OBVIOUS
  <2>3. p \in 1..m /\ f + p - 1 = i /\ \A j \in 1..m : f + j - 1 = i <=> j = p
    BY <1>2, <1>3, <1>6, <2>2
  <2>4. \A j \in 1..m : logs'[f + j - 1] = IF j = p THEN e ELSE Entries[j]
    BY <1>3, <1>4, <2>3
  <2>5. Entries' = [Entries EXCEPT ![p] = e]
    BY <1>3, <2>1, <2>3, <2>4
  <2> QED BY <1>1, <1>2, <1>3, <2>1, <2>3, <2>5
<1>7. CASE m > 0 /\ i = f + m
  <2>1. /\ Entries' \in Seq(Entry) /\ Len(Entries') = m + 1 /\ FirstIndex' = f
        /\ \A j \in 1 .. m + 1 : Entries'[j] = logs'[f + j - 1]
    BY <1>2, <1>7, EntriesNext
  <2>2. /\ Append(Entries, e) \in Seq(Entry) /\ Len(Append(Entries, e)) = m + 1
        /\ \A j \in 1..m : Append(Entries, e)[j] = Entries[j]
        /\ Append(Entries, e)[m + 1] = e
    BY <1>2, <1>3, AppendProperties
  <2>3. \A j \in 1 .. m + 1 : Entries'[j] = Append(Entries, e)[j]
    <3> SUFFICES ASSUME NEW j \in 1 .. m + 1 PROVE Entries'[j] = Append(Entries, e)[j]
      OBVIOUS
    <3>1. CASE j = m + 1
      <4>1. f + j - 1 = i
        BY <1>3, <1>7, <3>1
      <4> QED BY <1>4, <2>1, <2>2, <3>1, <4>1
    <3>2. CASE j \in 1..m
      <4>1. f + j - 1 # i
        BY <1>3, <1>7, <3>2
      <4> QED BY <1>3, <1>4, <2>1, <2>2, <3>2, <4>1
    <3> QED BY <1>3, <3>1, <3>2
  <2>4. Entries' = Append(Entries, e)
    BY <2>1, <2>2, <2>3, SeqEqual
  <2> QED BY <1>1, <1>2, <2>1, <2>4
<1>8. m = 0 \/ (m > 0 /\ i < f + m) \/ (m > 0 /\ i = f + m)
  BY <1>2, <1>3
<1> QED BY <1>5, <1>6, <1>7, <1>8, Zenon

(* Where only the pack begins or ends, or nothing happens. *)
LEMMA ContractSame ==
  ASSUME StoreInv, StoreInv', logs' = logs, NEW f, NEW m, f = FirstIndex, m = Size,
         SpanAt(f, m)'
  PROVE  FirstIndex' = FirstIndex /\ Entries' = Entries
<1>1. Entries = [j \in 1..m |-> logs[f + j - 1]]
  BY EntriesAre
<1>2. Entries' = [j \in 1..m |-> logs'[f + j - 1]] /\ FirstIndex' = f
  BY EntriesNext
<1> QED BY <1>1, <1>2

LEMMA ContractStep ==
  StoreInv /\ StoreInv' /\ [LogNext]_vars => [Contract!ContractNext]_(Contract!contractVars)
<1> SUFFICES ASSUME StoreInv, StoreInv', [LogNext]_vars
             PROVE  [Contract!ContractNext]_(Contract!contractVars)
  OBVIOUS
<1>1. PICK f, m : f = FirstIndex /\ m = Size
  OBVIOUS
<1>2. CASE \E e \in Entry : append(e)
  <2>1. PICK e \in Entry : /\ FirstIndex' = FirstIndex /\ packing' = packing
                           /\ Entries' = Append(Entries, e)
    BY <1>2, ContractAppend
  <2>2. Contract!Add(e)
    BY <2>1 DEF Contract!Add, Entries
  <2> QED BY <2>2 DEF Contract!ContractNext
<1>3. CASE \E k \in 1..MaxIndex, e \in Entry : write_at(k, e)
  <2>1. PICK k \in 1..MaxIndex, e \in Entry :
           /\ FirstIndex' = FirstIndex /\ packing' = packing /\ packing = NoPack
           /\ k \in FirstIndex .. FirstIndex + Len(Entries)
           /\ Entries' = Append(SubSeq(Entries, 1, k - FirstIndex), e)
    BY <1>3, ContractWriteAt
  <2>2. Contract!WriteAt(k, e)
    BY <2>1 DEF Contract!WriteAt, Entries
  <2> QED BY <2>1, <2>2 DEF Contract!ContractNext, Entries
<1>4. CASE \E k \in 1..MaxIndex : compact(k)
  <2>1. PICK k \in 1..MaxIndex :
          /\ packing' = packing /\ packing = NoPack
          /\ \/ FirstIndex' = FirstIndex /\ Entries' = Entries
             \/ /\ FirstIndex' = k + 1 /\ FirstIndex' > FirstIndex /\ k \in Nat
                /\ Entries' = SubSeq(Entries, k - FirstIndex + 2, Len(Entries))
    BY <1>4, ContractCompact
  <2>2. CASE FirstIndex' = FirstIndex /\ Entries' = Entries
    BY <2>1, <2>2 DEF Contract!contractVars, Entries
  <2>3. CASE /\ FirstIndex' = k + 1 /\ FirstIndex' > FirstIndex /\ k \in Nat
             /\ Entries' = SubSeq(Entries, k - FirstIndex + 2, Len(Entries))
    <3>1. Contract!Compact(k)
      BY <2>1, <2>3 DEF Contract!Compact, Entries
    <3>2. FirstIndex' - 1 = k /\ FirstIndex' \in Nat
      BY <2>3
    <3> QED BY <2>3, <3>1, <3>2 DEF Contract!ContractNext
  <2> QED BY <2>1, <2>2, <2>3
<1>5. CASE \E k \in 1..MaxIndex : commit_to(k)
  <2>1. SpanAt(f, m)' /\ logs' = logs /\ packing' = packing
    BY <1>1, <1>5, Commits DEF storeVars
  <2> QED BY <1>1, <2>1, ContractSame DEF Contract!contractVars, Entries
<1>6. CASE \E k \in 1..MaxIndex, p \in Packs : apply_pack(k, p)
  <2>1. SpanAt(f, m)' /\ logs' = logs /\ packing = NoPack /\ packing' # NoPack
    BY <1>1, <1>6, BeginsPack
  <2>2. Contract!BeginOrEndPack
    BY <1>1, <2>1, ContractSame DEF Contract!BeginOrEndPack, Entries
  <2> QED BY <2>2 DEF Contract!ContractNext
<1>7. CASE apply_pack_end
  <2>1. SpanAt(f, m)' /\ logs' = logs /\ packing # NoPack /\ packing' = NoPack
    BY <1>1, <1>7, EndsPack
  <2>2. Contract!BeginOrEndPack
    BY <1>1, <2>1, ContractSame DEF Contract!BeginOrEndPack, Entries
  <2> QED BY <2>2 DEF Contract!ContractNext
<1>8. CASE apply_pack_entry
  <2>1. packing # NoPack /\ packing' # NoPack
    BY <1>8, ContractUnpack
  <2>2. PICK e \in Entry :
          \/ /\ Entries = <<>> /\ Entries' = <<e>> /\ FirstIndex' \in Nat \ {0}
          \/ /\ FirstIndex' = FirstIndex /\ Entries' = Append(Entries, e)
          \/ /\ FirstIndex' = FirstIndex
             /\ \E p \in 1..Len(Entries) : Entries' = [Entries EXCEPT ![p] = e]
    BY <1>8, ContractUnpack
  <2>3. CASE Entries = <<>> /\ Entries' = <<e>> /\ FirstIndex' \in Nat \ {0}
    <3>1. Contract!Rebase(e)
      BY <2>1, <2>3 DEF Contract!Rebase, Entries
    <3> QED BY <3>1 DEF Contract!ContractNext
  <2>4. CASE FirstIndex' = FirstIndex /\ Entries' = Append(Entries, e)
    <3>1. Contract!Add(e)
      BY <2>1, <2>4 DEF Contract!Add, Entries
    <3> QED BY <3>1 DEF Contract!ContractNext
  <2>5. CASE /\ FirstIndex' = FirstIndex
             /\ \E p \in 1..Len(Entries) : Entries' = [Entries EXCEPT ![p] = e]
    <3>1. PICK p \in 1..Len(Entries) : Entries' = [Entries EXCEPT ![p] = e]
      BY <2>5
    <3>2. Contract!Overwrite(p, e)
      BY <2>1, <2>5, <3>1 DEF Contract!Overwrite, Entries
    <3> QED BY <3>2 DEF Contract!ContractNext, Entries
  <2> QED BY <2>2, <2>3, <2>4, <2>5
<1>9. CASE Rest
  <2>1. logs' = logs /\ packing' = packing /\ start_idx' = start_idx
    BY <1>9 DEF Rest, storeVars
  <2> QED BY <2>1 DEF Contract!contractVars, FirstIndex, Keys, entry_at
<1> QED BY <1>2, <1>3, <1>4, <1>5, <1>6, <1>7, <1>8, <1>9, StepCases DEF Steps

(* The store implements the contract of a log store: every behaviour of    *)
(* InMemLogStore, seen as entries from a first index on, is one of         *)
(* LogStoreContract.                                                       *)
THEOREM ContractCorrect == LogSpec => ImplementsContract
<1>1. LogInit => Contract!ContractInit
  <2> SUFFICES ASSUME LogInit PROVE Contract!ContractInit
    OBVIOUS
  <2>1. Keys(logs) = {} /\ start_idx = 1 /\ packing = NoPack
    BY DEF LogInit, Keys
  <2>2. FirstIndex = 1 /\ Cardinality(Keys(logs)) = 0
    BY <2>1, FS_EmptySet DEF FirstIndex
  <2>3. Entries = <<>>
    BY <2>2 DEF Entries
  <2> QED BY <2>1, <2>2, <2>3 DEF Contract!ContractInit, Entries
<1> QED BY <1>1, StoreIsInv, ContractStep, PTL DEF LogSpec, ImplementsContract, Contract!ContractSpec
=============================================================================
