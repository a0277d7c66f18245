------------------------- MODULE SimpleLoggerProofs -------------------------
(***************************************************************************)
(* Proofs about the logger: its ring, the lock of its flushes and its      *)
(* files, for any number of callers, elements, lines, starts and faults.   *)
(***************************************************************************)
EXTENDS SimpleLogger, WellFoundedInduction, TLAPS

Threads == Writers \cup {Flusher}
Pc == {"idle", "put", "check", "full", "wait", "write", "copy", "flush", "out"}
Frame == [pc : Pc, elem : Elems, n : 0 .. NumElems, lapped : BOOLEAN]
LogElems == [status : {"CLEAN", "WRITING", "DIRTY", "FLUSHING"}, ctx : Lines \cup {Torn}]

Flushes(t) == th[t].pc \in {"flush", "out"}
Full(e) == e.status \in {"DIRTY", "FLUSHING"}

(* t has taken an element for a line and has not written it yet. *)
Claimed(t) ==
  \/ th[t].pc \in {"put", "check", "full", "wait", "write", "copy"}
  \/ Flushes(t) /\ (t \in Callers \/ (t = Owner /\ stage = "put"))

EverLines == UNION Range(ever)

(* Where the threads can be in which stage. *)
StageInv ==
  /\ stage \in {"down", "run", "remove", "returned", "line", "put", "close", "wait"}
  /\ stage \notin {"down", "run"} => \A t \in Callers : th[t].pc = "idle"
  /\ stage \in {"line", "put", "close", "wait"} => th[Flusher].pc = "idle" /\ ~registered
  /\ th[Flusher].pc \in {"idle", "flush", "out"}
  /\ stage \in {"run", "returned", "line", "wait"} => th[Owner].pc = "idle"
  /\ stage \in {"remove", "close"} => th[Owner].pc \in {"idle", "flush", "out"}
  /\ stage = "down" => \A t \in Threads : th[t].pc = "idle"

(* One thread flushes, and it is at the element that is being flushed.     *)
LockInv ==
  /\ \A t \in Threads : Flushes(t) <=> flushing = t
  /\ flushing = NoThread \/ fs # "good" => buf = {}
  /\ \A t \in Threads : th[t].pc = "out" => th[t].n < NumElems /\ logs[Position(t)].status = "FLUSHING"
  /\ \A k \in Elems : logs[k].status = "FLUSHING" =>
       \E t \in Threads : th[t].pc = "out" /\ Position(t) = k

(* An element that is being written has one writer. *)
CopyInv ==
  /\ \A t \in Writers : th[t].pc = "copy" => Elem(t).status = "WRITING"
  /\ \A t, u \in Writers : th[t].pc = "copy" /\ th[u].pc = "copy" /\ th[t].elem = th[u].elem => t = u
  /\ \A k \in Elems : logs[k].status = "WRITING" =>
       \E t \in Writers : th[t].pc = "copy" /\ th[t].elem = k

(* Lines that were written are older than the ones under way. *)
NumberInv ==
  /\ written \subseteq Lines
  /\ \A x \in written : /\ x[2] <= put_lines[x[1]]
                        /\ Claimed(x[1]) => x[2] < put_lines[x[1]]
  /\ \A t \in Writers : Claimed(t) => put_lines[t] > 0

(* A written line is in one place: the ring, the buffer of the stream or   *)
(* one revision; or it is lost.                                            *)
PlaceInv ==
  /\ \A k \in Elems : Full(logs[k]) => /\ logs[k].ctx \in written
                                       /\ logs[k].ctx \notin buf \cup EverLines
  /\ \A j, k \in Elems : Full(logs[j]) /\ Full(logs[k]) /\ j # k => logs[j].ctx # logs[k].ctx
  /\ buf \cup EverLines \cup gone \subseteq written
  /\ buf \cap EverLines = {}
  /\ \A m, n \in DOMAIN ever : m # n => ever[m] \cap ever[n] = {}
  /\ \A x \in written : \/ x \in buf \cup gone \cup EverLines
                         \/ \E k \in Elems : Full(logs[k]) /\ logs[k].ctx = x

(* Who has an element for itself finds it free when it comes to write. *)
LapInv ==
  /\ \A t, u \in Writers : /\ t # u /\ Claimed(t) /\ Claimed(u) /\ th[t].elem = th[u].elem
                           => th[t].lapped
  /\ \A t \in Writers : Claimed(t) /\ ~th[t].lapped =>
       /\ th[t].pc = "write" => Elem(t).status \in {"CLEAN", "FLUSHING"}
       /\ Flushes(t) /\ th[t].n > 0 => Elem(t).status = "CLEAN"

(* The last flush leaves nothing behind. *)
LastFlushInv ==
  /\ stage = "close" /\ th[Owner].pc # "idle" =>
       \A j \in 0 .. NumElems - 1 :
         j < th[Owner].n => ~Full(logs[(th[Owner].elem + j) % NumElems])
  /\ stage \in {"close", "wait"} /\ th[Owner].pc = "idle" => \A k \in Elems : ~Full(logs[k])

TarLines(n) == IF n \in DOMAIN tar THEN tar[n] ELSE {}

(* The files: packed ones are older than the current one, and what waits   *)
(* to be packed is there and in order.                                     *)
FileInv ==
  /\ cur_revnum \in Nat /\ min_revnum \in Nat
  /\ DOMAIN plain \subseteq Nat /\ DOMAIN tar \subseteq Nat /\ DOMAIN ever \subseteq Nat
  /\ \A n \in DOMAIN plain : n <= cur_revnum
  /\ \A n \in DOMAIN tar : n < cur_revnum
  /\ Up => min_revnum <= cur_revnum /\ cur_revnum \in DOMAIN ever
  /\ fs = "good" => cur_revnum \in DOMAIN plain /\ Up
  /\ \A n \in DOMAIN plain : n \in DOMAIN ever /\ plain[n] \subseteq ever[n]
  /\ NoneForgotten

QueueInv ==
  /\ comp_elems \in Seq(Nat) /\ comp \in [pc : {"idle", "tar", "rm", "expire"}, file : Nat]
  /\ comp_jobs = Len(comp_elems) + (IF comp.pc = "idle" THEN 0 ELSE 1)
  /\ ~Up => comp_elems = <<>> /\ comp.pc = "idle"
  /\ \A i \in 1..Len(comp_elems) : /\ comp_elems[i] \in DOMAIN plain \ DOMAIN tar
                                   /\ comp_elems[i] < cur_revnum
                                   /\ comp.pc # "idle" => comp.file < comp_elems[i]
  /\ \A i, j \in 1..Len(comp_elems) : i < j => comp_elems[i] < comp_elems[j]
  /\ comp.pc # "idle" => comp.file < cur_revnum
  /\ comp.pc = "tar" => comp.file \in DOMAIN plain \ DOMAIN tar
  /\ comp.pc = "rm" => comp.file \in DOMAIN plain /\ plain[comp.file] \subseteq TarLines(comp.file) \cup gone

(* What a file had is there, packed or lost, until the file expires. *)
KeptInv ==
  \A n \in DOMAIN ever :
    (\A m \in DOMAIN ever : m <= n + MaxLogFiles) => ever[n] \ gone \subseteq Disk(n)

TypeInv ==
  /\ cursor \in Elems
  /\ th \in [Threads -> Frame]
  /\ logs \in [Elems -> LogElems]
  /\ flushing \in Threads \cup {NoThread}
  /\ fs \in {"closed", "good", "failed", "bad"}
  /\ registered \in BOOLEAN
  /\ put_lines \in [Writers -> Nat]
-----------------------------------------------------------------------------
(* Arithmetic: least and greatest elements, positions in the ring *)

LEMMA MinExists ==
  ASSUME NEW T, T \subseteq Nat, T # {}
  PROVE  \E x \in T : \A y \in T : x <= y
<1>1. PICK x \in T : \A y \in T : ~(<<y, x>> \in OpToRel(<, Nat))
  BY NatLessThanWellFounded, WFMin
<1>2. \A y \in T : ~(y < x)
  BY <1>1 DEF OpToRel
<1> QED BY <1>2

LEMMA MaxOf ==
  ASSUME NEW S, S \subseteq Nat, S # {}, NEW K \in Nat, \A x \in S : x <= K
  PROVE  Max(S) \in S /\ \A x \in S : x <= Max(S)
<1> DEFINE T == {K - x : x \in S}
<1>1. T \subseteq Nat /\ T # {}
  OBVIOUS
<1>2. PICK t \in T : \A y \in T : t <= y
  BY <1>1, MinExists
<1>3. PICK m \in S : t = K - m
  OBVIOUS
<1>4. \A x \in S : x <= m
  <2> TAKE x \in S
  <2>1. K - x \in T /\ x \in Nat /\ m \in Nat
    OBVIOUS
  <2>2. K - m <= K - x
    BY <1>2, <1>3, <2>1
  <2> QED BY <2>1, <2>2
<1>5. \E x \in S : \A y \in S : x >= y
  BY <1>4
<1> QED BY <1>5 DEF Max

LEMMA MinOf ==
  ASSUME NEW S, S \subseteq Nat, S # {}
  PROVE  Min(S) \in S /\ \A x \in S : Min(S) <= x
<1>1. \E x \in S : \A y \in S : x <= y
  BY MinExists
<1> QED BY <1>1 DEF Min

LEMMA ModSmall ==
  ASSUME NEW N \in Nat \ {0}, NEW x \in 0 .. N - 1
  PROVE  x % N = x
OBVIOUS
LEMMA ModWrap ==
  ASSUME NEW N \in Nat \ {0}, NEW x \in N .. N + N - 1
  PROVE  x % N = x - N
OBVIOUS
LEMMA ModRange ==
  ASSUME NEW N \in Nat \ {0}, NEW x \in Nat
  PROVE  x % N \in 0 .. N - 1
OBVIOUS

(* Fewer than N steps from an element lead to different elements, ... *)
LEMMA ModDistinct ==
  ASSUME NEW N \in Nat \ {0}, NEW e \in 0 .. N - 1, NEW j \in Nat, NEW n \in Nat, j < n, n < N
  PROVE  (e + j) % N # (e + n) % N
<1>1. CASE e + n < N
  BY <1>1, ModSmall
<1>2. CASE e + j < N /\ e + n >= N
  <2>1. (e + j) % N = e + j
    BY <1>2, ModSmall
  <2>2. (e + n) % N = e + n - N
    BY <1>2, ModWrap
  <2> QED BY <2>1, <2>2
<1>3. CASE e + j >= N
  <2>1. (e + j) % N = e + j - N
    BY <1>3, ModWrap
  <2>2. (e + n) % N = e + n - N
    BY <1>3, ModWrap
  <2> QED BY <2>1, <2>2
<1> QED BY <1>1, <1>2, <1>3

(* ... and N steps lead to all of them. *)
LEMMA ModOnto ==
  ASSUME NEW N \in Nat \ {0}, NEW e \in 0 .. N - 1, NEW k \in 0 .. N - 1
  PROVE  \E j \in 0 .. N - 1 : (e + j) % N = k
<1>1. CASE k >= e
  <2>1. k - e \in 0 .. N - 1 /\ e + (k - e) = k
    BY <1>1
  <2> QED BY <2>1, ModSmall
<1>2. CASE k < e
  <2>1. k - e + N \in 0 .. N - 1 /\ e + (k - e + N) = k + N
    BY <1>2
  <2>2. (k + N) % N = k
    BY <2>1, ModWrap
  <2> QED BY <2>1, <2>2
<1> QED BY <1>1, <1>2
-----------------------------------------------------------------------------
(* The ring and the lock *)

RingInv == TypeInv /\ StageInv /\ LockInv /\ CopyInv

(* t goes on in its frame, everybody else stays where it is. *)
Moved(t, p, e, n) ==
  /\ th' \in [Threads -> Frame]
  /\ \A u \in Threads : u # t => th'[u] = th[u]
  /\ th'[t].pc = p /\ th'[t].elem = e /\ th'[t].n = n
  /\ th'[t].lapped = th[t].lapped

Returned(t) ==
  /\ th' \in [Threads -> Frame]
  /\ \A u \in Threads : u # t => th'[u] = th[u]
  /\ th'[t] = Idle

LEMMA Sorts ==
  /\ Owner \in Threads /\ Flusher \in Threads /\ Writers \subseteq Threads
  /\ Callers \subseteq Writers /\ Owner \in Writers /\ Flusher \notin Writers
  /\ NoThread \notin Threads /\ Owner \notin Callers
  /\ NumElems \in Nat \ {0} /\ 0 \in Elems /\ Idle \in Frame
  /\ Torn \notin Lines
BY LoggerAssumption DEF Threads, Writers, Elems, Idle, Frame, Pc, Lines

LEMMA PositionIn ==
  ASSUME TypeInv, NEW t \in Threads
  PROVE  Position(t) \in Elems
<1>1. th[t].elem \in 0 .. NumElems - 1 /\ th[t].n \in 0 .. NumElems
  BY DEF TypeInv, Frame, Elems
<1> QED BY <1>1, Sorts, ModRange DEF Position, Elems

LEMMA GotoMoves ==
  ASSUME TypeInv, NEW t \in Threads, NEW p \in Pc, Goto(t, p)
  PROVE  Moved(t, p, th[t].elem, th[t].n)
<1>1. th[t] \in Frame /\ DOMAIN th = Threads
  BY DEF TypeInv
<1>2. th'[t] = [th[t] EXCEPT !.pc = p] /\ \A u \in Threads : u # t => th'[u] = th[u]
  BY <1>1 DEF Goto
<1>3. th'[t] \in Frame /\ th'[t].pc = p /\ th'[t].elem = th[t].elem
      /\ th'[t].n = th[t].n /\ th'[t].lapped = th[t].lapped
  BY <1>1, <1>2 DEF Frame
<1>4. th' \in [Threads -> Frame]
  BY <1>1, <1>3 DEF Goto, TypeInv
<1> QED BY <1>2, <1>3, <1>4 DEF Moved

LEMMA NextMoves ==
  ASSUME TypeInv, NEW t \in Threads, NEW p \in Pc, th[t].n < NumElems,
         th' = [th EXCEPT ![t].pc = p, ![t].n = @ + 1]
  PROVE  Moved(t, p, th[t].elem, th[t].n + 1)
<1>1. th[t] \in Frame /\ DOMAIN th = Threads
  BY DEF TypeInv
<1>2. th'[t] = [th[t] EXCEPT !.pc = p, !.n = @ + 1] /\ \A u \in Threads : u # t => th'[u] = th[u]
  BY <1>1
<1>3. th'[t] \in Frame /\ th'[t].pc = p /\ th'[t].elem = th[t].elem
      /\ th'[t].n = th[t].n + 1 /\ th'[t].lapped = th[t].lapped
  BY <1>1, <1>2, Sorts DEF Frame
<1>4. th' \in [Threads -> Frame]
  BY <1>1, <1>3 DEF TypeInv
<1> QED BY <1>2, <1>3, <1>4 DEF Moved

LEMMA SkipMoves ==
  ASSUME TypeInv, NEW t \in Threads, th[t].n < NumElems, th' = [th EXCEPT ![t].n = @ + 1]
  PROVE  Moved(t, th[t].pc, th[t].elem, th[t].n + 1)
<1>1. th[t] \in Frame /\ DOMAIN th = Threads
  BY DEF TypeInv
<1>2. th'[t] = [th[t] EXCEPT !.n = @ + 1] /\ \A u \in Threads : u # t => th'[u] = th[u]
  BY <1>1
<1>3. th'[t] \in Frame /\ th'[t].pc = th[t].pc /\ th'[t].elem = th[t].elem
      /\ th'[t].n = th[t].n + 1 /\ th'[t].lapped = th[t].lapped
  BY <1>1, <1>2, Sorts DEF Frame
<1>4. th' \in [Threads -> Frame]
  BY <1>1, <1>3 DEF TypeInv
<1> QED BY <1>2, <1>3, <1>4 DEF Moved

LEMMA StartMoves ==
  ASSUME TypeInv, NEW t \in Threads, NEW e \in Elems, NEW p \in Pc, start_flush(t, e, p)
  PROVE  /\ Moved(t, IF flushing = NoThread THEN "flush" ELSE p, e, 0)
         /\ flushing' = IF flushing = NoThread THEN t ELSE flushing
<1>1. PICK q \in Pc : q = IF flushing = NoThread THEN "flush" ELSE p
  BY DEF Pc
<1>2. th[t] \in Frame /\ DOMAIN th = Threads /\ 0 \in 0 .. NumElems
  BY Sorts DEF TypeInv
<1>3. th' = [th EXCEPT ![t].pc = q, ![t].elem = e, ![t].n = 0]
  BY <1>1 DEF start_flush
<1>4. th'[t] = [th[t] EXCEPT !.pc = q, !.elem = e, !.n = 0] /\ \A u \in Threads : u # t => th'[u] = th[u]
  BY <1>2, <1>3
<1>5. th'[t] \in Frame /\ th'[t].pc = q /\ th'[t].elem = e
      /\ th'[t].n = 0 /\ th'[t].lapped = th[t].lapped
  BY <1>2, <1>4 DEF Frame
<1>6. th' \in [Threads -> Frame]
  BY <1>2, <1>3, <1>5 DEF TypeInv
<1>7. Moved(t, q, e, 0)
  BY <1>4, <1>5, <1>6 DEF Moved
<1> QED BY <1>1, <1>7 DEF start_flush

LEMMA ReturnMoves ==
  ASSUME TypeInv, NEW t \in Threads, Return(t)
  PROVE  Returned(t)
BY Sorts DEF TypeInv, Return, Returned

QuietPc == {"idle", "put", "check", "full", "wait", "write"}

(* u stays where it is, or moves where it holds neither an element nor the lock. *)
Stays(u) ==
  \/ th'[u].pc = th[u].pc /\ th'[u].elem = th[u].elem /\ th'[u].n = th[u].n
  \/ th[u].pc \in QuietPc /\ th'[u].pc \in QuietPc

LEMMA QuietStep ==
  ASSUME TypeInv, TypeInv', LockInv, CopyInv, \A u \in Threads : Stays(u),
         UNCHANGED <<logs, flushing>>, flushing' = NoThread \/ fs' # "good" => buf' = {}
  PROVE  LockInv' /\ CopyInv'
<1>1. \A u \in Threads : Flushes(u)' <=> Flushes(u)
  BY DEF Stays, QuietPc, Flushes
<1>2. \A u \in Threads : /\ th'[u].pc = "out" <=> th[u].pc = "out"
                         /\ th'[u].pc = "copy" <=> th[u].pc = "copy"
                         /\ th'[u].pc \in {"out", "copy"} => /\ th'[u].elem = th[u].elem
                                                             /\ th'[u].n = th[u].n
  BY DEF Stays, QuietPc
<1>3. \A u \in Threads : th'[u].pc = "out" => Position(u)' = Position(u)
  BY <1>2 DEF Position
<1>4. LockInv'
  BY <1>1, <1>2, <1>3 DEF LockInv
<1>5. CopyInv'
  BY <1>2, Sorts DEF CopyInv, Elem
<1> QED BY <1>4, <1>5

LEMMA MovedPosition ==
  ASSUME NEW t \in Threads, NEW p, NEW e, NEW n, Moved(t, p, e, n) \/ Returned(t),
         NEW u \in Threads, u # t
  PROVE  Position(u)' = Position(u) /\ (Flushes(u)' <=> Flushes(u))
BY DEF Moved, Returned, Position, Flushes

LEMMA TakeLockStep ==
  ASSUME TypeInv, LockInv, CopyInv, NEW t \in Threads, NEW e \in Elems,
         flushing = NoThread, Moved(t, "flush", e, 0), flushing' = t,
         th[t].pc \in QuietPc, UNCHANGED <<logs, fs, buf>>
  PROVE  LockInv' /\ CopyInv'
<1>1. \A u \in Threads : u # t => th'[u] = th[u] /\ Position(u)' = Position(u) /\ (Flushes(u)' <=> Flushes(u))
  BY MovedPosition DEF Moved
<1>2. th'[t].pc = "flush" /\ Flushes(t)' /\ th[t].pc # "out" /\ th[t].pc # "copy"
  BY DEF Moved, Flushes, QuietPc
<1>3. \A u \in Threads : Flushes(u)' <=> flushing' = u
  BY <1>1, <1>2, Sorts DEF LockInv
<1>4. flushing' # NoThread /\ (fs' # "good" => buf' = {})
  BY Sorts DEF LockInv
<1>5. LockInv'
  BY <1>1, <1>2, <1>3, <1>4 DEF LockInv
<1>6. CopyInv'
  BY <1>1, <1>2, Sorts DEF CopyInv, Elem
<1> QED BY <1>5, <1>6

(* An element goes from CLEAN to WRITING. *)
LEMMA WriteStep ==
  ASSUME TypeInv, LockInv, CopyInv, NEW t \in Writers, th[t].pc = "write",
         NEW k \in Elems, k = th[t].elem, logs[k].status = "CLEAN",
         logs' = [logs EXCEPT ![k] = [status |-> "WRITING", ctx |-> Torn]],
         Moved(t, "copy", k, th[t].n), UNCHANGED <<flushing, fs, buf>>
  PROVE  LockInv' /\ CopyInv'
<1>1. \A u \in Threads : u # t => th'[u] = th[u] /\ Position(u)' = Position(u) /\ (Flushes(u)' <=> Flushes(u))
  BY MovedPosition, Sorts DEF Moved
<1>2. t \in Threads /\ th'[t].pc = "copy" /\ th'[t].elem = k /\ ~Flushes(t)' /\ ~Flushes(t)
  BY Sorts DEF Moved, Flushes
<1>3. logs'[k].status = "WRITING" /\ \A j \in Elems : j # k => logs'[j] = logs[j]
  BY DEF TypeInv
<1>4. \A u \in Threads : Position(u) \in Elems
  BY PositionIn
<1>5. LockInv'
  <2>1. \A u \in Threads : Flushes(u)' <=> flushing' = u
    BY <1>1, <1>2 DEF LockInv
  <2>2. \A u \in Threads : th'[u].pc = "out" => th'[u].n < NumElems /\ logs'[Position(u)'].status = "FLUSHING"
    BY <1>1, <1>2, <1>3, <1>4 DEF LockInv
  <2>3. \A j \in Elems : logs'[j].status = "FLUSHING" =>
          \E u \in Threads : th'[u].pc = "out" /\ Position(u)' = j
    <3> SUFFICES ASSUME NEW j \in Elems, logs'[j].status = "FLUSHING"
                 PROVE  \E u \in Threads : th'[u].pc = "out" /\ Position(u)' = j
      OBVIOUS
    <3>1. logs[j].status = "FLUSHING"
      BY <1>3
    <3>2. PICK u \in Threads : th[u].pc = "out" /\ Position(u) = j
      BY <3>1 DEF LockInv
    <3>3. u # t
      BY <3>2
    <3> QED BY <3>2, <3>3, <1>1
  <2> QED BY <2>1, <2>2, <2>3 DEF LockInv
<1>6. \A u \in Writers : th[u].pc = "copy" => th[u].elem # k
  BY DEF CopyInv, Elem
<1>7. \A u \in Writers : th[u].elem \in Elems
  BY Sorts DEF TypeInv, Frame
<1>8. CopyInv'
  <2>1. \A u \in Writers : th'[u].pc = "copy" => Elem(u)'.status = "WRITING"
    BY <1>1, <1>2, <1>3, <1>6, <1>7, Sorts DEF CopyInv, Elem
  <2>2. \A u, v \in Writers : th'[u].pc = "copy" /\ th'[v].pc = "copy" /\ th'[u].elem = th'[v].elem => u = v
    BY <1>1, <1>2, <1>6, Sorts DEF CopyInv
  <2>3. \A j \in Elems : logs'[j].status = "WRITING" =>
          \E u \in Writers : th'[u].pc = "copy" /\ th'[u].elem = j
    <3> SUFFICES ASSUME NEW j \in Elems, logs'[j].status = "WRITING", j # k
                 PROVE  \E u \in Writers : th'[u].pc = "copy" /\ th'[u].elem = j
      BY <1>2
    <3>1. PICK u \in Writers : th[u].pc = "copy" /\ th[u].elem = j
      BY <1>3 DEF CopyInv
    <3> QED BY <3>1, <1>1, Sorts
  <2> QED BY <2>1, <2>2, <2>3 DEF CopyInv
<1> QED BY <1>5, <1>8

(* An element goes from WRITING to DIRTY. *)
LEMMA WriteEndStep ==
  ASSUME TypeInv, LockInv, CopyInv, NEW t \in Writers, th[t].pc = "copy",
         NEW k \in Elems, k = th[t].elem, NEW line,
         logs' = [logs EXCEPT ![k] = [status |-> "DIRTY", ctx |-> line]],
         Returned(t), UNCHANGED <<flushing, fs, buf>>
  PROVE  LockInv' /\ CopyInv'
<1>1. \A u \in Threads : u # t => th'[u] = th[u] /\ Position(u)' = Position(u) /\ (Flushes(u)' <=> Flushes(u))
  BY MovedPosition, Sorts DEF Returned
<1>2. t \in Threads /\ th'[t].pc = "idle" /\ ~Flushes(t)' /\ ~Flushes(t)
  BY Sorts DEF Returned, Flushes, Idle
<1>3. logs'[k].status = "DIRTY" /\ \A j \in Elems : j # k => logs'[j] = logs[j]
  BY DEF TypeInv
<1>4. logs[k].status = "WRITING"
  BY DEF CopyInv, Elem
<1>5. \A u \in Threads : Position(u) \in Elems
  BY PositionIn
<1>6. LockInv'
  <2>1. \A u \in Threads : Flushes(u)' <=> flushing' = u
    BY <1>1, <1>2 DEF LockInv
  <2>2. \A u \in Threads : th'[u].pc = "out" => th'[u].n < NumElems /\ logs'[Position(u)'].status = "FLUSHING"
    BY <1>1, <1>2, <1>3, <1>4, <1>5 DEF LockInv
  <2>3. \A j \in Elems : logs'[j].status = "FLUSHING" =>
          \E u \in Threads : th'[u].pc = "out" /\ Position(u)' = j
    <3> SUFFICES ASSUME NEW j \in Elems, logs'[j].status = "FLUSHING"
                 PROVE  \E u \in Threads : th'[u].pc = "out" /\ Position(u)' = j
      OBVIOUS
    <3>1. logs[j].status = "FLUSHING"
      BY <1>3
    <3>2. PICK u \in Threads : th[u].pc = "out" /\ Position(u) = j
      BY <3>1 DEF LockInv
    <3>3. u # t
      BY <3>2
    <3> QED BY <3>2, <3>3, <1>1
  <2> QED BY <2>1, <2>2, <2>3 DEF LockInv
<1>7. \A u \in Writers : th[u].elem \in Elems
  BY Sorts DEF TypeInv, Frame
<1>8. CopyInv'
  <2>1. \A u \in Writers : u # t /\ th[u].pc = "copy" => th[u].elem # k
    BY DEF CopyInv
  <2>2. \A u \in Writers : th'[u].pc = "copy" => Elem(u)'.status = "WRITING"
    BY <1>1, <1>2, <1>3, <1>7, <2>1, Sorts DEF CopyInv, Elem
  <2>3. \A u, v \in Writers : th'[u].pc = "copy" /\ th'[v].pc = "copy" /\ th'[u].elem = th'[v].elem => u = v
    BY <1>1, <1>2, Sorts DEF CopyInv
  <2>4. \A j \in Elems : logs'[j].status = "WRITING" =>
          \E u \in Writers : th'[u].pc = "copy" /\ th'[u].elem = j
    <3> SUFFICES ASSUME NEW j \in Elems, logs'[j].status = "WRITING", j # k
                 PROVE  \E u \in Writers : th'[u].pc = "copy" /\ th'[u].elem = j
      BY <1>3
    <3>1. PICK u \in Writers : th[u].pc = "copy" /\ th[u].elem = j
      BY <1>3 DEF CopyInv
    <3>2. u # t
      BY <3>1
    <3> QED BY <3>1, <3>2, <1>1, Sorts
  <2> QED BY <2>2, <2>3, <2>4 DEF CopyInv
<1> QED BY <1>6, <1>8

(* Nobody but the holder of the lock is at an element that is being flushed. *)
LEMMA OneFlusher ==
  ASSUME LockInv, NEW t \in Threads, Flushes(t)
  PROVE  /\ flushing = t
         /\ \A u \in Threads : u # t => ~Flushes(u) /\ th[u].pc # "out"
         /\ \A k \in Elems : logs[k].status = "FLUSHING" => th[t].pc = "out" /\ Position(t) = k
<1>1. flushing = t /\ \A u \in Threads : u # t => ~Flushes(u)
  BY DEF LockInv
<1>2. \A u \in Threads : u # t => th[u].pc # "out"
  BY <1>1 DEF Flushes
<1> QED BY <1>1, <1>2 DEF LockInv

(* The holder takes the next dirty element, ... *)
LEMMA TakeElemStep ==
  ASSUME TypeInv, LockInv, CopyInv, NEW t \in Threads, th[t].pc = "flush", th[t].n < NumElems,
         logs[Position(t)].status = "DIRTY", SetStatus(Position(t), "FLUSHING"),
         Moved(t, "out", th[t].elem, th[t].n), UNCHANGED <<flushing, fs, buf>>
  PROVE  LockInv' /\ CopyInv'
<1>1. PICK k \in Elems : k = Position(t)
  BY PositionIn
<1>2. Flushes(t) /\ Flushes(t)' /\ Position(t)' = k /\ th'[t].pc = "out" /\ th'[t].n < NumElems
  BY <1>1 DEF Moved, Flushes, Position
<1>3. \A u \in Threads : u # t => th'[u] = th[u] /\ ~Flushes(u) /\ ~Flushes(u)' /\ th[u].pc # "out"
  BY <1>2, OneFlusher, MovedPosition DEF Moved
<1>4. logs'[k].status = "FLUSHING" /\ \A j \in Elems : j # k => logs'[j] = logs[j]
  BY <1>1 DEF TypeInv, SetStatus, LogElems
<1>5. LockInv'
  <2>1. \A u \in Threads : Flushes(u)' <=> flushing' = u
    BY <1>2, <1>3 DEF LockInv
  <2>2. \A u \in Threads : th'[u].pc = "out" => th'[u].n < NumElems /\ logs'[Position(u)'].status = "FLUSHING"
    BY <1>2, <1>3, <1>4
  <2>3. \A j \in Elems : logs'[j].status = "FLUSHING" => j = k
    BY <1>2, <1>4, OneFlusher
  <2>4. flushing' = NoThread \/ fs' # "good" => buf' = {}
    BY DEF LockInv
  <2> QED BY <1>2, <2>1, <2>2, <2>3, <2>4 DEF LockInv
<1>6. CopyInv'
  <2>1. th[t].pc # "copy" /\ th'[t].pc # "copy" /\ \A u \in Writers : th[u].elem \in Elems
    BY <1>2, Sorts DEF TypeInv, Frame
  <2>2. \A u \in Writers : th[u].pc = "copy" => th[u].elem # k
    BY <1>1 DEF CopyInv, Elem
  <2> QED BY <1>3, <1>4, <2>1, <2>2, Sorts DEF CopyInv, Elem
<1> QED BY <1>5, <1>6

(* ... or leaves it, if there is nothing to flush. *)
LEMMA SkipElemStep ==
  ASSUME TypeInv, LockInv, CopyInv, NEW t \in Threads, th[t].pc = "flush",
         NEW n, Moved(t, "flush", th[t].elem, n), UNCHANGED <<logs, flushing, fs, buf>>
  PROVE  LockInv' /\ CopyInv'
<1>1. Flushes(t) /\ Flushes(t)' /\ th'[t].pc = "flush"
  BY DEF Moved, Flushes
<1>2. \A u \in Threads : u # t => th'[u] = th[u] /\ ~Flushes(u) /\ ~Flushes(u)' /\ th[u].pc # "out"
  BY <1>1, OneFlusher, MovedPosition DEF Moved
<1>3. \A k \in Elems : logs[k].status # "FLUSHING"
  BY <1>1, OneFlusher
<1>4. LockInv'
  BY <1>1, <1>2, <1>3 DEF LockInv
<1>5. CopyInv'
  BY <1>1, <1>2, Sorts DEF CopyInv, Elem
<1> QED BY <1>4, <1>5

(* The element is written to the stream and is clean again. *)
LEMMA ElemOutStep ==
  ASSUME TypeInv, LockInv, CopyInv, NEW t \in Threads, th[t].pc = "out",
         logs' = [logs EXCEPT ![Position(t)] = LogElem],
         NEW n, Moved(t, "flush", th[t].elem, n),
         UNCHANGED flushing, fs' # "good" => buf' = {}
  PROVE  LockInv' /\ CopyInv'
<1>1. PICK k \in Elems : k = Position(t)
  BY PositionIn
<1>2. Flushes(t) /\ Flushes(t)' /\ th'[t].pc = "flush"
  BY <1>1 DEF Moved, Flushes
<1>3. \A u \in Threads : u # t => th'[u] = th[u] /\ ~Flushes(u) /\ ~Flushes(u)' /\ th[u].pc # "out"
  BY <1>2, OneFlusher, MovedPosition DEF Moved
<1>4. logs'[k].status = "CLEAN" /\ \A j \in Elems : j # k => logs'[j] = logs[j]
  BY <1>1 DEF TypeInv, LogElem
<1>5. LockInv'
  <2>1. \A u \in Threads : (Flushes(u)' <=> flushing' = u) /\ th'[u].pc # "out"
    BY <1>2, <1>3 DEF LockInv
  <2>2. \A j \in Elems : logs'[j].status # "FLUSHING"
    BY <1>1, <1>2, <1>4, OneFlusher
  <2>3. flushing' = NoThread \/ fs' # "good" => buf' = {}
    <3>1. flushing' = t /\ t # NoThread
      BY <1>2, OneFlusher, Sorts
    <3> QED BY <3>1
  <2> QED BY <2>1, <2>2, <2>3 DEF LockInv
<1>6. CopyInv'
  <2>1. th[t].pc # "copy" /\ th'[t].pc # "copy" /\ \A u \in Writers : th[u].elem \in Elems
    BY <1>2, Sorts DEF TypeInv, Frame
  <2>2. logs[k].status = "FLUSHING"
    BY <1>1 DEF LockInv
  <2>3. \A u \in Writers : th[u].pc = "copy" => th[u].elem # k
    BY <2>2 DEF CopyInv, Elem
  <2> QED BY <1>3, <1>4, <2>1, <2>3, Sorts DEF CopyInv, Elem
<1> QED BY <1>5, <1>6

(* The lock is given back. *)
LEMMA UnlockStep ==
  ASSUME TypeInv, LockInv, CopyInv, NEW t \in Threads, th[t].pc = "flush",
         \/ Moved(t, "write", th[t].elem, th[t].n)
         \/ Returned(t),
         UNCHANGED logs, flushing' = NoThread, buf' = {}
  PROVE  LockInv' /\ CopyInv'
<1>1. Flushes(t) /\ ~Flushes(t)' /\ th'[t].pc \in {"write", "idle"}
  BY DEF Moved, Returned, Flushes, Idle
<1>2. \A u \in Threads : u # t => th'[u] = th[u] /\ ~Flushes(u) /\ ~Flushes(u)' /\ th[u].pc # "out"
  BY <1>1, OneFlusher, MovedPosition DEF Moved, Returned
<1>3. \A k \in Elems : logs[k].status # "FLUSHING"
  BY <1>1, OneFlusher
<1>4. LockInv'
  BY <1>1, <1>2, <1>3, Sorts DEF LockInv
<1>5. CopyInv'
  BY <1>1, <1>2, Sorts DEF CopyInv, Elem
<1> QED BY <1>4, <1>5

(* A new process, or none. *)
LEMMA FreshRing ==
  ASSUME logs' = [k \in Elems |-> LogElem], th' = [t \in Writers \cup {Flusher} |-> Idle],
         flushing' = NoThread, buf' = {}
  PROVE  LockInv' /\ CopyInv'
<1>1. \A t \in Threads : th'[t].pc = "idle" /\ ~Flushes(t)'
  BY DEF Threads, Idle, Flushes
<1>2. \A k \in Elems : logs'[k].status = "CLEAN"
  BY DEF LogElem
<1> QED BY <1>1, <1>2, Sorts DEF LockInv, CopyInv

(* A thread that is inside put or flush stays within its stage. *)
LEMMA StageStep ==
  ASSUME StageInv, NEW t \in Threads, th[t].pc # "idle",
         NEW p, NEW e, NEW n, Moved(t, p, e, n) \/ Returned(t),
         t = Flusher => th'[t].pc \in {"idle", "flush", "out"},
         t = Owner /\ stage \in {"remove", "close"} => th'[t].pc \in {"idle", "flush", "out"},
         UNCHANGED <<stage, registered>>
  PROVE  StageInv'
<1>1. \A u \in Threads : u # t => th'[u] = th[u]
  BY DEF Moved, Returned
<1>2. t \in Callers \/ t = Owner \/ t = Flusher
  BY DEF Threads, Writers
<1>3. CASE t \in Callers
  <2>1. stage = "run" /\ t # Owner /\ t # Flusher
    BY <1>3, Sorts DEF StageInv
  <2> QED BY <1>1, <2>1, Sorts DEF StageInv
<1>4. CASE t = Owner
  <2>1. stage \in {"remove", "put", "close"} /\ t \notin Callers /\ t # Flusher
    BY <1>4, Sorts DEF StageInv
  <2> QED BY <1>1, <1>4, <2>1, Sorts DEF StageInv
<1>5. CASE t = Flusher
  <2>1. stage \in {"run", "remove", "returned"} /\ t \notin Callers /\ t # Owner
    BY <1>5, Sorts DEF StageInv
  <2> QED BY <1>1, <1>5, <2>1, Sorts DEF StageInv
<1> QED BY <1>2, <1>3, <1>4, <1>5

(* Only the destroying thread is at work in the last stages. *)
LEMMA AtWork ==
  ASSUME StageInv, NEW t \in Threads, th[t].pc # "idle"
  PROVE  /\ stage # "down" /\ stage # "wait"
         /\ th[t].pc \notin {"flush", "out"} \/ t # Owner => stage # "close"
         /\ th[t].pc \notin {"flush", "out"} => t \in Callers \/ (t = Owner /\ stage = "put")
BY Sorts DEF StageInv, Threads, Writers

LEMMA ClaimedStays ==
  ASSUME NEW t \in Threads, NEW p, NEW e, NEW n, Moved(t, p, e, n) \/ Returned(t),
         UNCHANGED stage, NEW u \in Threads, u # t
  PROVE  /\ Claimed(u)' <=> Claimed(u)
         /\ th'[u] = th[u]
BY DEF Moved, Returned, Claimed, Flushes

LEMMA NumberStep ==
  ASSUME NumberInv, \A u \in Writers : Claimed(u)' => Claimed(u), UNCHANGED <<written, put_lines>>
  PROVE  NumberInv'
<1>1. \A x \in written : x[1] \in Writers
  BY DEF NumberInv, Lines
<1> QED BY <1>1 DEF NumberInv

(* Nobody else has the element of a thread that is not lapped. *)
LEMMA Alone ==
  ASSUME CopyInv, LapInv, NEW t \in Writers, Claimed(t), ~th[t].lapped
  PROVE  /\ \A u \in Writers : u # t /\ Claimed(u) => th[u].elem # th[t].elem
         /\ \A u \in Writers : u # t /\ th[u].pc = "copy" => th[u].elem # th[t].elem
         /\ th[t].elem \in Elems /\ Elem(t).status = "WRITING" => th[t].pc = "copy"
<1>1. \A u \in Writers : u # t /\ Claimed(u) => th[u].elem # th[t].elem
  BY DEF LapInv
<1>2. \A u \in Writers : th[u].pc = "copy" => Claimed(u)
  BY DEF Claimed
<1>3. ASSUME th[t].elem \in Elems, Elem(t).status = "WRITING"
      PROVE  th[t].pc = "copy"
  <2>1. PICK u \in Writers : th[u].pc = "copy" /\ th[u].elem = th[t].elem
    BY <1>3 DEF CopyInv, Elem
  <2> QED BY <2>1, <1>1, <1>2
<1> QED BY <1>1, <1>2, <1>3

LEMMA LapPairs ==
  ASSUME LapInv,
         \A u \in Writers : Claimed(u)' =>
           Claimed(u) /\ th'[u].elem = th[u].elem /\ th'[u].lapped = th[u].lapped
  PROVE  \A t, u \in Writers :
           t # u /\ Claimed(t)' /\ Claimed(u)' /\ th'[t].elem = th'[u].elem => th'[t].lapped
BY DEF LapInv

(* A thread that has no element of its own in its way. *)
Free(t) == Claimed(t) /\ ~th[t].lapped =>
             /\ th[t].pc = "write" => Elem(t).status \in {"CLEAN", "FLUSHING"}
             /\ Flushes(t) /\ th[t].n > 0 => Elem(t).status = "CLEAN"

LEMMA LapStep ==
  ASSUME LapInv,
         \A u \in Writers : Claimed(u)' =>
           Claimed(u) /\ th'[u].elem = th[u].elem /\ th'[u].lapped = th[u].lapped,
         \A u \in Writers : Free(u)'
  PROVE  LapInv'
BY LapPairs DEF LapInv, Free
-----------------------------------------------------------------------------
(* What is in memory, step by step *)

MemInv == TypeInv /\ StageInv /\ LockInv /\ CopyInv /\ NumberInv /\ LapInv /\ LastFlushInv

(* Who has the element at the cursor and has not written it yet. *)
Rivals == {u \in Writers : th[u].pc # "idle" /\ th[u].elem = cursor}

LEMMA ClaimMoves ==
  ASSUME TypeInv, NEW t \in Writers, claim(t)
  PROVE  /\ TypeInv'
         /\ th'[t].pc = "put" /\ th'[t].elem = cursor /\ (Rivals # {} => th'[t].lapped)
         /\ \A u \in Threads : u # t =>
              /\ th'[u].pc = th[u].pc /\ th'[u].elem = th[u].elem /\ th'[u].n = th[u].n
              /\ th[u].lapped \/ u \in Rivals => th'[u].lapped
<1>1. PICK rivals : /\ rivals = Rivals
                    /\ th' = [u \in DOMAIN th |->
                                IF u = t
                                THEN [pc |-> "put", elem |-> cursor, n |-> 0, lapped |-> rivals # {}]
                                ELSE [th[u] EXCEPT !.lapped = @ \/ u \in rivals]]
  BY DEF claim, Rivals
<1>2. DOMAIN th = Threads /\ t \in Threads /\ (\A u \in Threads : th[u] \in Frame) /\ cursor \in Elems
      /\ 0 \in 0 .. NumElems
  BY Sorts DEF TypeInv
<1>3. /\ th'[t] = [pc |-> "put", elem |-> cursor, n |-> 0, lapped |-> rivals # {}]
      /\ \A u \in Threads : u # t => th'[u] = [th[u] EXCEPT !.lapped = @ \/ u \in rivals]
  BY <1>1, <1>2
<1>4. \A u \in Threads : u # t =>
        /\ th'[u] \in Frame
        /\ th'[u].pc = th[u].pc /\ th'[u].elem = th[u].elem /\ th'[u].n = th[u].n
        /\ th'[u].lapped = (th[u].lapped \/ u \in rivals)
  <2> SUFFICES ASSUME NEW u \in Threads, u # t
               PROVE  /\ th'[u] \in Frame
                      /\ th'[u].pc = th[u].pc /\ th'[u].elem = th[u].elem /\ th'[u].n = th[u].n
                      /\ th'[u].lapped = (th[u].lapped \/ u \in rivals)
    OBVIOUS
  <2>1. PICK b \in BOOLEAN : b = (th[u].lapped \/ u \in rivals)
    OBVIOUS
  <2>2. th'[u] = [th[u] EXCEPT !.lapped = b]
    <3>1. th'[u] = [th[u] EXCEPT !.lapped = th[u].lapped \/ u \in rivals]
      BY <1>3
    <3> QED BY <3>1, <2>1, Zenon
  <2>3. /\ th'[u] \in Frame /\ th'[u].lapped = b
        /\ th'[u].pc = th[u].pc /\ th'[u].elem = th[u].elem /\ th'[u].n = th[u].n
    BY <1>2, <2>2 DEF Frame
  <2> QED BY <2>1, <2>3, Zenon
<1>5. th'[t].pc = "put" /\ th'[t].elem = cursor /\ th'[t].lapped = (rivals # {}) /\ th'[t] \in Frame
  BY <1>2, <1>3 DEF Frame, Pc
<1>6. th' \in [Threads -> Frame]
  BY <1>1, <1>2, <1>4, <1>5
<1>7. cursor' \in Elems
  <2>1. cursor + 1 \in Nat
    BY <1>2, Sorts DEF Elems
  <2> QED BY <2>1, Sorts, ModRange DEF claim, Elems
<1>8. TypeInv'
  <2>1. put_lines' \in [Writers -> Nat]
    BY DEF TypeInv, claim
  <2> QED BY <1>6, <1>7, <2>1 DEF TypeInv, claim, fileVars
<1> QED BY <1>1, <1>4, <1>5, <1>8

LEMMA ClaimStep ==
  ASSUME MemInv, NEW t \in Writers, claim(t),
         \/ t \in Callers /\ stage = "run" /\ stage' = "run"
         \/ t = Owner /\ stage = "line" /\ stage' = "put"
  PROVE  MemInv'
<1> USE DEF MemInv
<1>1. PICK rivals : rivals = Rivals
  OBVIOUS
<1>2. t \in Threads /\ cursor \in Elems
  BY Sorts DEF TypeInv
<1>4. \A u \in Threads : u # t =>
        /\ th'[u].pc = th[u].pc /\ th'[u].elem = th[u].elem /\ th'[u].n = th[u].n
        /\ th[u].lapped \/ u \in rivals => th'[u].lapped
  BY <1>1, ClaimMoves
<1>5. th'[t].pc = "put" /\ th'[t].elem = cursor /\ (rivals # {} => th'[t].lapped)
  BY <1>1, ClaimMoves
<1>8. TypeInv'
  BY ClaimMoves
<1>9. th[t].pc = "idle" /\ UNCHANGED <<logs, flushing, fs, buf, registered, written>>
  BY DEF claim, fileVars
<1>10. StageInv'
  BY <1>2, <1>4, <1>5, <1>9, Sorts DEF StageInv, Threads, Writers
<1>11. LockInv' /\ CopyInv'
  <2>1. \A u \in Threads : Stays(u)
    BY <1>4, <1>5, <1>9 DEF Stays, QuietPc
  <2>2. flushing' = NoThread \/ fs' # "good" => buf' = {}
    BY <1>9 DEF LockInv
  <2> QED BY <1>8, <1>9, <2>1, <2>2, QuietStep
<1>12. \A u \in Writers : u # t => (Claimed(u)' <=> Claimed(u))
  <2> SUFFICES ASSUME NEW u \in Writers, u # t PROVE Claimed(u)' <=> Claimed(u)
    OBVIOUS
  <2>1. th'[u].pc = th[u].pc
    BY <1>4, Sorts
  <2>2. u = Owner => stage = "run" /\ stage' = "run"
    BY DEF Writers
  <2>3. u \in Callers \/ u = Owner
    BY DEF Writers
  <2> QED BY <2>1, <2>2, <2>3 DEF Claimed, Flushes
<1>13. NumberInv'
  <2>1. put_lines'[t] = put_lines[t] + 1 /\ put_lines[t] \in Nat
        /\ \A u \in Writers : u # t => put_lines'[u] = put_lines[u]
    BY DEF claim, TypeInv
  <2>2. \A x \in written : x[1] \in Writers /\ x[2] \in Nat
    BY DEF NumberInv, Lines
  <2>3. \A x \in written : x[2] <= put_lines'[x[1]] /\ (Claimed(x[1])' => x[2] < put_lines'[x[1]])
    <3> SUFFICES ASSUME NEW x \in written
                 PROVE  x[2] <= put_lines'[x[1]] /\ (Claimed(x[1])' => x[2] < put_lines'[x[1]])
      OBVIOUS
    <3>1. CASE x[1] = t
      BY <3>1, <2>1, <2>2 DEF NumberInv
    <3>2. CASE x[1] # t
      BY <3>2, <2>1, <2>2, <1>12 DEF NumberInv
    <3> QED BY <3>1, <3>2
  <2>4. \A u \in Writers : Claimed(u)' => put_lines'[u] > 0
    <3> SUFFICES ASSUME NEW u \in Writers, Claimed(u)' PROVE put_lines'[u] > 0
      OBVIOUS
    <3>1. CASE u = t
      BY <3>1, <2>1
    <3>2. CASE u # t
      BY <3>2, <2>1, <1>12 DEF NumberInv
    <3> QED BY <3>1, <3>2
  <2> QED BY <1>9, <2>3, <2>4 DEF NumberInv
<1>14. LapInv'
  <2>1. \A u \in Writers : u \in Threads
    BY Sorts
  <2>2. \A u \in Writers : u # t /\ Claimed(u) => th[u].pc # "idle"
    BY DEF Claimed, Flushes
  <2>3. \A u, v \in Writers :
           u # v /\ Claimed(u)' /\ Claimed(v)' /\ th'[u].elem = th'[v].elem => th'[u].lapped
    <3> SUFFICES ASSUME NEW u \in Writers, NEW v \in Writers, u # v, Claimed(u)', Claimed(v)',
                        th'[u].elem = th'[v].elem
                 PROVE  th'[u].lapped
      OBVIOUS
    <3>1. CASE u = t
      <4>1. v \in rivals
        BY <3>1, <1>1, <1>4, <1>5, <1>12, <2>1, <2>2 DEF Rivals
      <4> QED BY <3>1, <4>1, <1>5
    <3>2. CASE v = t
      <4>1. u \in rivals
        BY <3>2, <1>1, <1>4, <1>5, <1>12, <2>1, <2>2 DEF Rivals
      <4> QED BY <3>2, <4>1, <1>4, <2>1
    <3>3. CASE u # t /\ v # t
      BY <3>3, <1>4, <1>12, <2>1 DEF LapInv
    <3> QED BY <3>1, <3>2, <3>3
  <2>4. \A u \in Writers : Free(u)'
    <3> SUFFICES ASSUME NEW u \in Writers PROVE Free(u)'
      OBVIOUS
    <3>1. CASE u = t
      BY <3>1, <1>5 DEF Free, Flushes
    <3>2. CASE u # t
      <4>1. Elem(u)' = Elem(u) /\ (Flushes(u)' <=> Flushes(u)) /\ th'[u].pc = th[u].pc /\ th'[u].n = th[u].n
        BY <3>2, <1>4, <1>9, <2>1 DEF Elem, Flushes
      <4>2. ~th'[u].lapped => ~th[u].lapped
        BY <3>2, <1>4, <2>1
      <4> QED BY <3>2, <4>1, <4>2, <1>12 DEF Free, LapInv
    <3> QED BY <3>1, <3>2
  <2> QED BY <2>3, <2>4 DEF LapInv, Free
<1>15. LastFlushInv'
  BY DEF LastFlushInv
<1> QED BY <1>8, <1>10, <1>11, <1>13, <1>14, <1>15

(* A step inside put that changes no element and takes no lock. *)
LEMMA GotoStep ==
  ASSUME MemInv, NEW t \in Writers, th[t].pc \in {"put", "check", "full", "wait"},
         NEW p \in {"check", "full", "wait", "write"}, NEW n, Moved(t, p, th[t].elem, n),
         p = "write" => Elem(t).status # "DIRTY",
         UNCHANGED <<cursor, logs, flushing, fs, buf, registered, stage, put_lines, written>>
  PROVE  MemInv'
<1> USE DEF MemInv
<1>1. t \in Threads /\ th'[t].pc = p /\ th'[t].elem = th[t].elem /\ th'[t].lapped = th[t].lapped
      /\ (\A u \in Threads : u # t => th'[u] = th[u]) /\ th[t].elem \in Elems
  BY Sorts DEF Moved, TypeInv, Frame
<1>2. TypeInv'
  BY DEF Moved, TypeInv
<1>3. t \in Callers \/ (t = Owner /\ stage = "put")
  BY <1>1, AtWork
<1>4. StageInv'
  <2>1. t # Flusher /\ (t = Owner => stage = "put")
    BY <1>3, Sorts
  <2> QED BY <1>1, <2>1, StageStep
<1>5. LockInv' /\ CopyInv'
  <2>1. \A u \in Threads : Stays(u)
    BY <1>1 DEF Stays, QuietPc
  <2>2. flushing' = NoThread \/ fs' # "good" => buf' = {}
    BY DEF LockInv
  <2> QED BY <1>2, <2>1, <2>2, QuietStep
<1>6. \A u \in Writers : u # t => (Claimed(u)' <=> Claimed(u)) /\ th'[u] = th[u]
  BY <1>1, ClaimedStays, Sorts
<1>7. Claimed(t) /\ Claimed(t)' /\ ~Flushes(t)'
  BY <1>1 DEF Claimed, Flushes
<1>8. NumberInv'
  BY <1>6, <1>7, NumberStep
<1>9. LapInv'
  <2>1. \A u \in Writers : Claimed(u)' =>
           Claimed(u) /\ th'[u].elem = th[u].elem /\ th'[u].lapped = th[u].lapped
    BY <1>1, <1>6, <1>7
  <2>2. \A u \in Writers : u # t => Free(u)'
    BY <1>6 DEF Free, LapInv, Elem, Flushes
  <2>3. Free(t)'
    <3>1. ASSUME ~th[t].lapped, p = "write" PROVE Elem(t)'.status \in {"CLEAN", "FLUSHING"}
      <4>1. Elem(t)' = Elem(t)
        BY <1>1 DEF Elem
      <4>2. Elem(t).status # "WRITING"
        BY <3>1, <1>1, <1>7, Alone
      <4>3. Elem(t).status \in {"CLEAN", "WRITING", "DIRTY", "FLUSHING"}
        BY <1>1 DEF TypeInv, Elem, LogElems
      <4> QED BY <3>1, <4>1, <4>2, <4>3
    <3> QED BY <1>1, <1>7, <3>1 DEF Free
  <2> QED BY <2>1, <2>2, <2>3, LapStep
<1>10. LastFlushInv'
  BY <1>1, AtWork DEF LastFlushInv
<1> QED BY <1>2, <1>4, <1>5, <1>8, <1>9, <1>10

(* A full ring is flushed by the thread that needs room. *)
LEMMA PutFlushStep ==
  ASSUME MemInv, NEW t \in Writers, th[t].pc = "full", flushing = NoThread, flushing' = t,
         Moved(t, "flush", th[t].elem, 0),
         UNCHANGED <<cursor, logs, fs, buf, registered, stage, put_lines, written>>
  PROVE  MemInv'
<1> USE DEF MemInv
<1>1. t \in Threads /\ th'[t].pc = "flush" /\ th'[t].elem = th[t].elem /\ th'[t].lapped = th[t].lapped
      /\ (\A u \in Threads : u # t => th'[u] = th[u]) /\ th[t].elem \in Elems /\ th'[t].n = 0
  BY Sorts DEF Moved, TypeInv, Frame
<1>2. TypeInv'
  BY <1>1 DEF Moved, TypeInv
<1>3. t \in Callers \/ (t = Owner /\ stage = "put")
  BY <1>1, AtWork
<1>4. StageInv'
  BY <1>1, StageStep
<1>5. LockInv' /\ CopyInv'
  BY <1>1, TakeLockStep DEF QuietPc
<1>6. \A u \in Writers : u # t => (Claimed(u)' <=> Claimed(u)) /\ th'[u] = th[u]
  BY <1>1, ClaimedStays, Sorts
<1>7. Claimed(t) /\ Claimed(t)'
  BY <1>1, <1>3 DEF Claimed, Flushes
<1>8. NumberInv'
  BY <1>6, <1>7, NumberStep
<1>9. LapInv'
  <2>1. \A u \in Writers : Claimed(u)' =>
           Claimed(u) /\ th'[u].elem = th[u].elem /\ th'[u].lapped = th[u].lapped
    BY <1>1, <1>6, <1>7
  <2>2. \A u \in Writers : u # t => Free(u)'
    BY <1>6 DEF Free, LapInv, Elem, Flushes
  <2>3. Free(t)'
    BY <1>1 DEF Free
  <2> QED BY <2>1, <2>2, <2>3, LapStep
<1>10. LastFlushInv'
  BY <1>1, AtWork DEF LastFlushInv
<1> QED BY <1>2, <1>4, <1>5, <1>8, <1>9, <1>10

LEMMA PutWriteStep ==
  ASSUME MemInv, NEW t \in Writers, write(t)
  PROVE  MemInv'
<1> USE DEF MemInv
<1>1. /\ t \in Threads /\ th[t].pc = "write"
      /\ UNCHANGED <<cursor, flushing, fs, buf, registered, stage, put_lines, written>>
  BY Sorts DEF write, At, fileVars, ctlVars, histVars
<1>2. PICK k \in Elems : k = th[t].elem
  BY <1>1 DEF TypeInv, Frame
<1>3. Claimed(t) /\ ~Flushes(t) /\ (t \in Callers \/ (t = Owner /\ stage = "put"))
  BY <1>1, AtWork DEF Claimed, Flushes
<1>4. CASE logs[k].status = "CLEAN"
  <2>1. /\ logs' = [logs EXCEPT ![k] = [status |-> "WRITING", ctx |-> Torn]]
        /\ Moved(t, "copy", k, th[t].n)
    BY <1>1, <1>2, <1>4, GotoMoves DEF write, Elem, Pc
  <2>2. th'[t].pc = "copy" /\ th'[t].elem = k /\ th'[t].lapped = th[t].lapped
        /\ (\A u \in Threads : u # t => th'[u] = th[u])
    BY <2>1 DEF Moved
  <2>3. TypeInv'
    <3>1. logs' \in [Elems -> LogElems]
      BY <2>1 DEF TypeInv, LogElems
    <3> QED BY <1>1, <2>1, <3>1 DEF Moved, TypeInv
  <2>4. StageInv'
    <3>1. t # Flusher /\ (t = Owner => stage = "put")
      BY <1>3, Sorts
    <3> QED BY <1>1, <2>1, <3>1, StageStep
  <2>5. LockInv' /\ CopyInv'
    BY <1>1, <1>2, <1>4, <2>1, WriteStep
  <2>6. \A u \in Writers : u # t => (Claimed(u)' <=> Claimed(u)) /\ th'[u] = th[u]
    BY <1>1, <2>1, ClaimedStays, Sorts
  <2>7. NumberInv'
    BY <1>1, <1>3, <2>6, NumberStep
  <2>8. LapInv'
    <3>1. \A u \in Writers : Claimed(u)' =>
             Claimed(u) /\ th'[u].elem = th[u].elem /\ th'[u].lapped = th[u].lapped
      BY <1>2, <1>3, <2>2, <2>6
    <3>2. \A u \in Writers : u # t => Free(u)'
      <4> SUFFICES ASSUME NEW u \in Writers, u # t, Claimed(u), ~th[u].lapped PROVE Free(u)'
        BY <2>6 DEF Free
      <4>1. th[u].elem \in Elems
        BY Sorts DEF TypeInv, Frame
      <4>2. th[u].elem # k
        BY <1>2, <1>3, Alone
      <4>3. Elem(u)' = Elem(u)
        BY <2>1, <2>6, <4>1, <4>2 DEF Elem, TypeInv
      <4> QED BY <2>6, <4>3 DEF Free, LapInv, Flushes
    <3>3. Free(t)'
      BY <2>2 DEF Free, Flushes
    <3> QED BY <3>1, <3>2, <3>3, LapStep
  <2>9. LastFlushInv'
    BY <1>1, AtWork DEF LastFlushInv
  <2> QED BY <2>3, <2>4, <2>5, <2>7, <2>8, <2>9
<1>5. CASE logs[k].status # "CLEAN"
  <2>1. logs' = logs /\ Returned(t)
    BY <1>1, <1>2, <1>5, ReturnMoves DEF write, Elem
  <2>2. th'[t].pc = "idle" /\ (\A u \in Threads : u # t => th'[u] = th[u])
    BY <2>1 DEF Returned, Idle
  <2>3. TypeInv'
    BY <1>1, <2>1 DEF Returned, TypeInv
  <2>4. StageInv'
    BY <1>1, <2>1, <2>2, StageStep
  <2>5. LockInv' /\ CopyInv'
    <3>1. \A u \in Threads : Stays(u)
      BY <1>1, <2>2 DEF Stays, QuietPc
    <3>2. flushing' = NoThread \/ fs' # "good" => buf' = {}
      BY <1>1 DEF LockInv
    <3> QED BY <1>1, <2>1, <2>3, <3>1, <3>2, QuietStep
  <2>6. ~Claimed(t)' /\ \A u \in Writers : u # t => (Claimed(u)' <=> Claimed(u)) /\ th'[u] = th[u]
    BY <1>1, <2>1, <2>2, ClaimedStays, Sorts DEF Claimed, Flushes
  <2>7. NumberInv'
    BY <1>1, <2>6, NumberStep
  <2>8. LapInv'
    <3>1. \A u \in Writers : Claimed(u)' =>
             Claimed(u) /\ th'[u].elem = th[u].elem /\ th'[u].lapped = th[u].lapped
      BY <2>6
    <3>2. \A u \in Writers : Free(u)'
      BY <2>1, <2>6 DEF Free, LapInv, Elem, Flushes
    <3> QED BY <3>1, <3>2, LapStep
  <2>9. LastFlushInv'
    BY <1>1, AtWork DEF LastFlushInv
  <2> QED BY <2>3, <2>4, <2>5, <2>7, <2>8, <2>9
<1> QED BY <1>4, <1>5

LEMMA PutWriteEndStep ==
  ASSUME MemInv, NEW t \in Writers, write_end(t)
  PROVE  /\ MemInv'
         /\ Line(t) \in Lines /\ Line(t) \notin written
<1> USE DEF MemInv
<1>1. /\ t \in Threads /\ th[t].pc = "copy" /\ Returned(t)
      /\ UNCHANGED <<cursor, flushing, fs, buf, registered, stage, put_lines>>
      /\ written' = written \cup {Line(t)}
  BY Sorts, ReturnMoves DEF write_end, At, fileVars, ctlVars
<1>2. PICK k \in Elems : k = th[t].elem
  BY <1>1 DEF TypeInv, Frame
<1>3. Claimed(t) /\ ~Flushes(t)
  BY <1>1 DEF Claimed, Flushes
<1>4. logs' = [logs EXCEPT ![k] = [status |-> "DIRTY", ctx |-> Line(t)]]
  BY <1>2 DEF write_end
<1>5. /\ Line(t) \in Lines /\ Line(t) \notin written
      /\ Line(t)[1] = t /\ Line(t)[2] = put_lines[t] /\ put_lines[t] \in Nat
  <2>1. put_lines[t] \in Nat /\ put_lines[t] > 0
    BY <1>3 DEF NumberInv, TypeInv
  <2>2. Line(t) = <<t, put_lines[t]>>
    BY DEF Line
  <2>3. Line(t) \notin written
    BY <1>3, <2>1, <2>2 DEF NumberInv
  <2> QED BY <2>1, <2>2, <2>3 DEF Lines
<1>6. th'[t].pc = "idle" /\ (\A u \in Threads : u # t => th'[u] = th[u])
  BY <1>1 DEF Returned, Idle
<1>7. TypeInv'
  <2>1. logs' \in [Elems -> LogElems]
    BY <1>4, <1>5 DEF TypeInv, LogElems
  <2> QED BY <1>1, <2>1 DEF Returned, TypeInv
<1>8. StageInv'
  BY <1>1, <1>6, StageStep
<1>9. LockInv' /\ CopyInv'
  BY <1>1, <1>2, <1>4, WriteEndStep
<1>10. ~Claimed(t)' /\ \A u \in Writers : u # t => (Claimed(u)' <=> Claimed(u)) /\ th'[u] = th[u]
  BY <1>1, <1>6, ClaimedStays, Sorts DEF Claimed, Flushes
<1>11. NumberInv'
  <2>1. written' \subseteq Lines
    BY <1>1, <1>5 DEF NumberInv
  <2>2. \A x \in written : x[1] \in Writers
    BY DEF NumberInv, Lines
  <2>3. \A x \in written' : x[2] <= put_lines'[x[1]] /\ (Claimed(x[1])' => x[2] < put_lines'[x[1]])
    <3> SUFFICES ASSUME NEW x \in written'
                 PROVE  x[2] <= put_lines[x[1]] /\ (Claimed(x[1])' => x[2] < put_lines[x[1]])
      BY <1>1
    <3>1. CASE x = Line(t)
      BY <3>1, <1>5, <1>10
    <3>2. CASE x \in written
      BY <3>2, <2>2, <1>10 DEF NumberInv
    <3> QED BY <1>1, <3>1, <3>2
  <2>4. \A u \in Writers : Claimed(u)' => put_lines'[u] > 0
    BY <1>1, <1>10 DEF NumberInv
  <2> QED BY <2>1, <2>3, <2>4 DEF NumberInv
<1>12. LapInv'
  <2>1. \A u \in Writers : Claimed(u)' =>
           Claimed(u) /\ th'[u].elem = th[u].elem /\ th'[u].lapped = th[u].lapped
    BY <1>10
  <2>2. \A u \in Writers : u # t => Free(u)'
    <3> SUFFICES ASSUME NEW u \in Writers, u # t, Claimed(u), ~th[u].lapped PROVE Free(u)'
      BY <1>10 DEF Free
    <3>1. th[u].elem \in Elems
      BY Sorts DEF TypeInv, Frame
    <3>2. th[u].elem # k
      BY <1>2, <1>3, Alone
    <3>3. Elem(u)' = Elem(u)
      BY <1>4, <1>10, <3>1, <3>2 DEF Elem, TypeInv
    <3> QED BY <1>10, <3>3 DEF Free, LapInv, Flushes
  <2>3. Free(t)'
    BY <1>10 DEF Free
  <2> QED BY <2>1, <2>2, <2>3, LapStep
<1>13. LastFlushInv'
  BY <1>1, AtWork DEF LastFlushInv
<1> QED BY <1>5, <1>7, <1>8, <1>9, <1>11, <1>12, <1>13

(* A step of the holder of the lock that leaves it at its flush.           *)
LEMMA HolderClaims ==
  ASSUME NEW t \in Threads, Flushes(t), NEW p \in {"flush", "out"}, NEW n,
         Moved(t, p, th[t].elem, n), UNCHANGED <<stage, written, put_lines>>, NumberInv
  PROVE  /\ \A u \in Threads : Claimed(u)' <=> Claimed(u)
         /\ \A u \in Threads : th'[u].elem = th[u].elem /\ th'[u].lapped = th[u].lapped
         /\ NumberInv'
<1>1. \A u \in Threads : u # t => (Claimed(u)' <=> Claimed(u)) /\ th'[u] = th[u]
  BY ClaimedStays
<1>2. Claimed(t)' <=> Claimed(t)
  BY DEF Claimed, Moved, Flushes
<1>3. NumberInv'
  BY <1>1, <1>2, Sorts, NumberStep
<1> QED BY <1>1, <1>2, <1>3 DEF Moved

(* What the holder of the lock passes is not full. *)
LEMMA FlushElemStep ==
  ASSUME MemInv, NEW t \in Threads, flush_elem(t)
  PROVE  MemInv'
<1> USE DEF MemInv
<1>1. /\ th[t].pc = "flush" /\ th[t].n < NumElems /\ Flushes(t) /\ stage # "down"
      /\ UNCHANGED <<cursor, flushing, fs, buf, registered, stage, put_lines, written>>
  BY DEF flush_elem, At, Up, fileVars, ctlVars, histVars, Flushes
<1>2. PICK k \in Elems : k = Position(t)
  BY PositionIn
<1>3. th[t].elem \in Elems /\ th[t].n \in Nat /\ \A u \in Threads : th[u].elem \in Elems
  BY DEF TypeInv, Frame
<1>4. \A j \in Elems : logs[j].status # "FLUSHING"
  BY <1>1, OneFlusher
<1>5. CASE logs[k].status = "DIRTY"
  <2>1. SetStatus(k, "FLUSHING") /\ Moved(t, "out", th[t].elem, th[t].n)
    BY <1>2, <1>5, GotoMoves DEF flush_elem, needToFlush, Pc
  <2>2. logs'[k].status = "FLUSHING" /\ (\A j \in Elems : j # k => logs'[j] = logs[j])
        /\ logs' \in [Elems -> LogElems]
    BY <2>1 DEF TypeInv, SetStatus, LogElems
  <2>3. TypeInv'
    BY <1>1, <2>1, <2>2 DEF Moved, TypeInv
  <2>4. StageInv'
    <3>1. th'[t].pc = "out"
      BY <2>1 DEF Moved
    <3> QED BY <1>1, <2>1, <3>1, StageStep
  <2>5. LockInv' /\ CopyInv'
    BY <1>1, <1>2, <1>5, <2>1, TakeElemStep
  <2>6. /\ \A u \in Threads : Claimed(u)' <=> Claimed(u)
        /\ \A u \in Threads : th'[u].elem = th[u].elem /\ th'[u].lapped = th[u].lapped
        /\ NumberInv'
    BY <1>1, <2>1, HolderClaims
  <2>7. LapInv'
    <3>1. \A u \in Writers : Free(u)'
      <4> SUFFICES ASSUME NEW u \in Writers, Claimed(u), ~th[u].lapped PROVE Free(u)'
        BY <2>6, Sorts DEF Free
      <4>1. u \in Threads /\ Elem(u)' = logs'[th[u].elem]
        BY <2>6, Sorts DEF Elem
      <4>2. th'[u].n = th[u].n /\ (Flushes(u)' <=> Flushes(u)) /\ (th'[u].pc = "write" <=> th[u].pc = "write")
        BY <1>1, <2>1, <4>1 DEF Moved, Flushes
      <4>3. CASE th[u].elem = k
        <5>1. Elem(u).status = "DIRTY"
          BY <4>3, <1>5 DEF Elem
        <5>2. th[u].pc # "write" /\ ~(Flushes(u) /\ th[u].n > 0)
          BY <5>1 DEF LapInv
        <5> QED BY <4>2, <5>2 DEF Free
      <4>4. CASE th[u].elem # k
        <5>1. Elem(u)' = Elem(u)
          BY <4>1, <4>4, <1>3, <2>2 DEF Elem
        <5> QED BY <4>2, <5>1 DEF Free, LapInv
      <4> QED BY <4>3, <4>4
    <3> QED BY <2>6, <3>1, Sorts, LapStep
  <2>8. LastFlushInv'
    <3> SUFFICES ASSUME stage = "close"
                 PROVE  \A j \in 0 .. NumElems - 1 :
                          j < th[Owner].n => ~Full(logs'[(th[Owner].elem + j) % NumElems])
      <4>1. t = Owner => th'[t].pc = "out" /\ th'[t].elem = th[t].elem /\ th'[t].n = th[t].n
        BY <2>1 DEF Moved
      <4>2. stage = "close" => t = Owner
        BY <1>1, AtWork
      <4>3. stage # "wait"
        BY <1>1, AtWork
      <4> QED BY <1>1, <4>1, <4>2, <4>3 DEF LastFlushInv
    <3>1. t = Owner
      BY <1>1, AtWork
    <3> SUFFICES ASSUME NEW j \in 0 .. NumElems - 1, j < th[Owner].n
                 PROVE  ~Full(logs'[(th[Owner].elem + j) % NumElems])
      OBVIOUS
    <3>2. PICK i \in Elems : i = (th[Owner].elem + j) % NumElems
      <4>1. th[Owner].elem + j \in Nat
        BY <1>3, <3>1 DEF Elems
      <4> QED BY <4>1, ModRange, Sorts DEF Elems
    <3>3. ~Full(logs[i])
      BY <1>1, <3>1, <3>2 DEF LastFlushInv
    <3>4. i # k
      BY <1>5, <3>3 DEF Full
    <3> QED BY <2>2, <3>2, <3>3, <3>4
  <2> QED BY <2>3, <2>4, <2>5, <2>6, <2>7, <2>8
<1>6. CASE logs[k].status # "DIRTY"
  <2>1. logs' = logs /\ Moved(t, "flush", th[t].elem, th[t].n + 1)
    BY <1>1, <1>2, <1>6, SkipMoves DEF flush_elem, needToFlush
  <2>2. logs[k].status \in {"CLEAN", "WRITING"}
    BY <1>4, <1>6 DEF TypeInv, LogElems
  <2>3. TypeInv'
    BY <1>1, <2>1 DEF Moved, TypeInv
  <2>4. StageInv'
    <3>1. th'[t].pc = "flush"
      BY <2>1 DEF Moved
    <3> QED BY <1>1, <2>1, <3>1, StageStep
  <2>5. LockInv' /\ CopyInv'
    BY <1>1, <2>1, SkipElemStep
  <2>6. /\ \A u \in Threads : Claimed(u)' <=> Claimed(u)
        /\ \A u \in Threads : th'[u].elem = th[u].elem /\ th'[u].lapped = th[u].lapped
        /\ NumberInv'
    BY <1>1, <2>1, HolderClaims
  <2>7. LapInv'
    <3>1. \A u \in Writers : Free(u)'
      <4> SUFFICES ASSUME NEW u \in Writers, Claimed(u), ~th[u].lapped PROVE Free(u)'
        BY <2>6, Sorts DEF Free
      <4>1. u \in Threads /\ Elem(u)' = Elem(u)
        BY <2>1, <2>6, Sorts DEF Elem
      <4>2. CASE u # t
        <5>1. th'[u] = th[u]
          BY <2>1, <4>1, <4>2 DEF Moved
        <5> QED BY <4>1, <5>1 DEF Free, LapInv, Flushes
      <4>3. CASE u = t /\ th[t].n > 0
        <5>1. Elem(u).status = "CLEAN"
          BY <1>1, <4>3 DEF LapInv
        <5> QED BY <4>1, <5>1 DEF Free
      <4>4. CASE u = t /\ th[t].n = 0
        <5>1. k = th[t].elem
          BY <4>4, <1>2, <1>3, ModSmall, Sorts DEF Position, Elems
        <5>2. Elem(u).status # "WRITING"
          BY <1>1, <1>3, <4>1, <4>4, Alone
        <5>3. Elem(u).status = "CLEAN"
          BY <4>4, <2>2, <5>1, <5>2 DEF Elem
        <5> QED BY <4>1, <5>3 DEF Free
      <4> QED BY <1>3, <4>2, <4>3, <4>4
    <3> QED BY <2>6, <3>1, Sorts, LapStep
  <2>8. LastFlushInv'
    <3> SUFFICES ASSUME stage = "close", t = Owner
                 PROVE  \A j \in 0 .. NumElems - 1 :
                          j < th[Owner].n + 1 => ~Full(logs[(th[Owner].elem + j) % NumElems])
      <4>1. t = Owner => th'[t].pc = "flush" /\ th'[t].elem = th[t].elem /\ th'[t].n = th[t].n + 1
        BY <2>1 DEF Moved
      <4>2. stage = "close" => t = Owner
        BY <1>1, AtWork
      <4>3. stage # "wait"
        BY <1>1, AtWork
      <4> QED BY <1>1, <2>1, <4>1, <4>2, <4>3 DEF LastFlushInv
    <3> SUFFICES ASSUME NEW j \in 0 .. NumElems - 1, j < th[Owner].n + 1
                 PROVE  ~Full(logs[(th[Owner].elem + j) % NumElems])
      OBVIOUS
    <3>1. CASE j < th[Owner].n
      BY <1>1, <3>1 DEF LastFlushInv
    <3>2. CASE j = th[Owner].n
      BY <1>2, <2>2, <3>2 DEF Full, Position
    <3> QED BY <1>3, <3>1, <3>2
  <2> QED BY <2>3, <2>4, <2>5, <2>6, <2>7, <2>8
<1> QED BY <1>5, <1>6

LEMMA FlushElemEndStep ==
  ASSUME MemInv, NEW t \in Threads, flush_elem_end(t)
  PROVE  MemInv'
<1> USE DEF MemInv
<1>1. /\ th[t].pc = "out" /\ Flushes(t) /\ th[t].n < NumElems
      /\ UNCHANGED <<cursor, flushing, registered, stage, put_lines, written>>
      /\ (fs' # "good" => buf' = {}) /\ fs' \in {fs, "bad"}
  BY DEF flush_elem_end, At, ctlVars, Flushes, LockInv
<1>2. PICK k \in Elems : k = Position(t)
  BY PositionIn
<1>3. th[t].elem \in Elems /\ th[t].n \in Nat /\ \A u \in Threads : th[u].elem \in Elems
  BY DEF TypeInv, Frame
<1>4. logs' = [logs EXCEPT ![k] = LogElem] /\ Moved(t, "flush", th[t].elem, th[t].n + 1)
  BY <1>1, <1>2, NextMoves DEF flush_elem_end, Pc
<1>5. logs'[k].status = "CLEAN" /\ (\A j \in Elems : j # k => logs'[j] = logs[j])
      /\ logs' \in [Elems -> LogElems]
  BY <1>4 DEF TypeInv, LogElems, LogElem
<1>6. TypeInv'
  BY <1>1, <1>4, <1>5 DEF Moved, TypeInv
<1>7. StageInv'
  <2>1. th'[t].pc = "flush"
    BY <1>4 DEF Moved
  <2> QED BY <1>1, <1>4, <2>1, StageStep
<1>8. LockInv' /\ CopyInv'
  BY <1>1, <1>2, <1>4, ElemOutStep
<1>9. /\ \A u \in Threads : Claimed(u)' <=> Claimed(u)
      /\ \A u \in Threads : th'[u].elem = th[u].elem /\ th'[u].lapped = th[u].lapped
      /\ NumberInv'
  BY <1>1, <1>4, HolderClaims
<1>10. LapInv'
  <2>1. \A u \in Writers : Free(u)'
    <3> SUFFICES ASSUME NEW u \in Writers, Claimed(u), ~th[u].lapped PROVE Free(u)'
      BY <1>9, Sorts DEF Free
    <3>1. u \in Threads /\ Elem(u)' = logs'[th[u].elem]
      BY <1>9, Sorts DEF Elem
    <3>2. CASE th[u].elem = k
      BY <3>1, <3>2, <1>5 DEF Free
    <3>3. CASE th[u].elem # k
      <4>1. Elem(u)' = Elem(u)
        BY <3>1, <3>3, <1>3, <1>5 DEF Elem
      <4>2. CASE u # t
        <5>1. th'[u] = th[u]
          BY <1>4, <3>1, <4>2 DEF Moved
        <5> QED BY <4>1, <5>1 DEF Free, LapInv, Flushes
      <4>3. CASE u = t
        <5>1. th[t].n # 0
          <6> SUFFICES ASSUME th[t].n = 0 PROVE k = th[t].elem
            BY <3>3, <4>3
          <6> QED BY <1>2, <1>3, ModSmall, Sorts DEF Position, Elems
        <5>2. Elem(u).status = "CLEAN"
          BY <1>1, <1>3, <4>3, <5>1 DEF LapInv
        <5> QED BY <4>1, <5>2 DEF Free
      <4> QED BY <4>2, <4>3
    <3> QED BY <3>2, <3>3
  <2> QED BY <1>9, <2>1, Sorts, LapStep
<1>11. LastFlushInv'
  <2> SUFFICES ASSUME stage = "close", t = Owner
               PROVE  \A j \in 0 .. NumElems - 1 :
                        j < th[Owner].n + 1 => ~Full(logs'[(th[Owner].elem + j) % NumElems])
    <3>1. t = Owner => th'[t].pc = "flush" /\ th'[t].elem = th[t].elem /\ th'[t].n = th[t].n + 1
      BY <1>4 DEF Moved
    <3>2. stage = "close" => t = Owner
      BY <1>1, AtWork
    <3>3. stage # "wait"
      BY <1>1, AtWork
    <3> QED BY <1>1, <3>1, <3>2, <3>3 DEF LastFlushInv
  <2> SUFFICES ASSUME NEW j \in 0 .. NumElems - 1, j < th[Owner].n + 1
               PROVE  ~Full(logs'[(th[Owner].elem + j) % NumElems])
    OBVIOUS
  <2>1. PICK i \in Elems : i = (th[Owner].elem + j) % NumElems
    <3>1. th[Owner].elem + j \in Nat
      BY <1>3 DEF Elems
    <3> QED BY <3>1, ModRange, Sorts DEF Elems
  <2>2. CASE i = k
    BY <1>5, <2>1, <2>2 DEF Full
  <2>3. CASE i # k
    <3>1. j # th[Owner].n
      BY <2>1, <2>3, <1>2 DEF Position
    <3>2. j < th[Owner].n
      BY <1>3, <3>1
    <3>3. ~Full(logs[i])
      BY <1>1, <2>1, <3>2 DEF LastFlushInv
    <3> QED BY <1>5, <2>1, <2>3, <3>3
  <2> QED BY <2>2, <2>3
<1> QED BY <1>6, <1>7, <1>8, <1>9, <1>10, <1>11

LEMMA FsFlushType ==
  ASSUME fs \in {"closed", "good", "failed", "bad"}, fs_flush
  PROVE  fs' \in {"closed", "good", "failed", "bad"}
BY DEF fs_flush, rotate

(* The end of a flush: its thread goes on with the line it wanted to put, if any. *)
LEMMA FlushEndStep ==
  ASSUME MemInv, NEW t \in Threads, flush_end(t)
  PROVE  MemInv'
<1> USE DEF MemInv
<1>1. /\ th[t].pc = "flush" /\ Flushes(t) /\ th[t].n = NumElems
      /\ UNCHANGED <<cursor, logs, registered, stage, put_lines, written>>
      /\ flushing' = NoThread /\ buf' = {}
  BY DEF flush_end, At, ctlVars, Flushes
<1>2. th[t].elem \in Elems /\ NumElems > 0 /\ \A k \in Elems : logs[k].status # "FLUSHING"
  BY <1>1, OneFlusher, Sorts DEF TypeInv, Frame
<1> DEFINE Puts == t \in Callers \/ (t = Owner /\ stage = "put")
<1>3. /\ Puts => Moved(t, "write", th[t].elem, th[t].n)
      /\ ~Puts => Returned(t)
  BY GotoMoves, ReturnMoves DEF flush_end, flush_return, Pc
<1>4. fs' \in {"closed", "good", "failed", "bad"}
  BY FsFlushType DEF flush_end, TypeInv
<1>5. TypeInv'
  BY <1>1, <1>3, <1>4 DEF Moved, Returned, TypeInv
<1>6. StageInv'
  <2>1. Puts \/ th'[t].pc = "idle"
    BY <1>3 DEF Returned, Idle
  <2>2. t = Flusher => ~Puts
    BY Sorts
  <2>3. t = Owner /\ stage \in {"remove", "close"} => ~Puts
    BY Sorts
  <2>4. Moved(t, "write", th[t].elem, th[t].n) \/ Returned(t)
    BY <1>3
  <2> HIDE DEF Puts
  <2> QED BY <1>1, <2>1, <2>2, <2>3, <2>4, StageStep
<1>7. LockInv' /\ CopyInv'
  <2>1. Moved(t, "write", th[t].elem, th[t].n) \/ Returned(t)
    BY <1>3
  <2> QED BY <1>1, <2>1, UnlockStep
<1>8. \A u \in Writers : u # t => (Claimed(u)' <=> Claimed(u)) /\ th'[u] = th[u]
  BY <1>1, <1>3, ClaimedStays, Sorts
<1>9. Claimed(t)' => /\ Claimed(t) /\ th'[t].elem = th[t].elem /\ th'[t].lapped = th[t].lapped
                     /\ ~Flushes(t)'
  <2>1. CASE Puts
    BY <1>1, <1>3, <2>1 DEF Moved, Claimed, Flushes
  <2>2. CASE ~Puts
    BY <1>3, <2>2 DEF Returned, Idle, Claimed, Flushes
  <2> QED BY <2>1, <2>2
<1>10. NumberInv'
  BY <1>1, <1>8, <1>9, NumberStep
<1>11. LapInv'
  <2>1. \A u \in Writers : Claimed(u)' =>
           Claimed(u) /\ th'[u].elem = th[u].elem /\ th'[u].lapped = th[u].lapped
    BY <1>8, <1>9
  <2>2. \A u \in Writers : u # t => Free(u)'
    BY <1>1, <1>8 DEF Free, LapInv, Elem, Flushes
  <2>3. t \in Writers => Free(t)'
    <3> SUFFICES ASSUME t \in Writers, Claimed(t)', ~th'[t].lapped PROVE Free(t)'
      BY DEF Free
    <3>1. Elem(t).status = "CLEAN"
      BY <1>1, <1>2, <1>9 DEF LapInv
    <3>2. Elem(t)' = Elem(t)
      BY <1>1, <1>9 DEF Elem
    <3> QED BY <3>1, <3>2 DEF Free
  <2> QED BY <2>1, <2>2, <2>3, LapStep
<1>12. LastFlushInv'
  <2>1. stage # "wait" /\ (stage = "close" => t = Owner)
    BY <1>1, AtWork
  <2>2. stage = "close" => th'[Owner].pc = "idle"
    BY <1>3, <2>1, Sorts DEF Returned, Idle
  <2>3. ASSUME stage = "close", NEW k \in Elems PROVE ~Full(logs[k])
    <3>1. PICK j \in 0 .. NumElems - 1 : (th[t].elem + j) % NumElems = k
      BY <1>2, Sorts, ModOnto DEF Elems
    <3>2. j < th[t].n
      BY <1>1, Sorts
    <3> QED BY <1>1, <2>1, <2>3, <3>1, <3>2 DEF LastFlushInv
  <2> QED BY <1>1, <2>1, <2>2, <2>3 DEF LastFlushInv
<1> QED BY <1>5, <1>6, <1>7, <1>10, <1>11, <1>12

(* Nobody has the lock once all are idle. *)
LEMMA AllIdle ==
  ASSUME TypeInv, LockInv, \A t \in Threads : th[t].pc = "idle"
  PROVE  flushing = NoThread /\ buf = {}
<1>1. \A t \in Threads : ~Flushes(t)
  BY DEF Flushes
<1> QED BY <1>1 DEF LockInv, TypeInv

(* A flush for its own sake: by the flush thread or in the destructor. *)
LEMMA FlushAllStep ==
  ASSUME MemInv, NEW t \in {Owner, Flusher}, th[t].pc = "idle", start_flush(t, cursor, "idle"),
         UNCHANGED <<cursor, logs, fs, buf, registered, put_lines, written>>,
         \/ t = Flusher /\ stage \in {"run", "remove", "returned"} /\ stage' = stage
         \/ t = Owner /\ stage = "run" /\ stage' = "remove" /\ \A u \in Callers : th[u].pc = "idle"
         \/ t = Owner /\ stage = "put" /\ stage' = "close"
  PROVE  MemInv'
<1> USE DEF MemInv
<1>1. PICK p : /\ p = IF flushing = NoThread THEN "flush" ELSE "idle"
               /\ Moved(t, p, cursor, 0)
               /\ flushing' = IF flushing = NoThread THEN t ELSE flushing
  BY StartMoves, Sorts DEF TypeInv, Pc
<1>2. t \in Threads /\ cursor \in Elems /\ p \in {"flush", "idle"}
  BY <1>1, Sorts DEF TypeInv
<1>3. th'[t].pc = p /\ th'[t].n = 0 /\ (\A u \in Threads : u # t => th'[u] = th[u])
  BY <1>1 DEF Moved
<1>4. TypeInv'
  <2>1. flushing' \in Threads \cup {NoThread}
    BY <1>1, <1>2 DEF TypeInv
  <2> QED BY <1>1, <2>1 DEF Moved, TypeInv
<1>5. StageInv'
  <2>1. CASE t = Flusher
    BY <1>2, <1>3, <2>1, Sorts DEF StageInv
  <2>2. CASE t = Owner
    BY <1>2, <1>3, <2>2, Sorts DEF StageInv
  <2> QED BY <2>1, <2>2
<1>6. LockInv' /\ CopyInv'
  <2>1. CASE flushing = NoThread
    BY <1>1, <1>2, <2>1, TakeLockStep DEF QuietPc
  <2>2. CASE flushing # NoThread
    <3>1. \A u \in Threads : Stays(u)
      BY <1>1, <1>3, <2>2 DEF Stays, QuietPc
    <3>2. flushing' = flushing
      BY <1>1, <2>2
    <3>3. flushing' = NoThread \/ fs' # "good" => buf' = {}
      BY <3>2 DEF LockInv
    <3> QED BY <1>4, <3>1, <3>2, <3>3, QuietStep
  <2> QED BY <2>1, <2>2
<1>7. \A u \in Writers : (Claimed(u)' <=> Claimed(u)) /\ (Claimed(u) => th'[u] = th[u])
  <2> SUFFICES ASSUME NEW u \in Writers
               PROVE  (Claimed(u)' <=> Claimed(u)) /\ (Claimed(u) => th'[u] = th[u])
    OBVIOUS
  <2>1. CASE u = t
    <3>1. t = Owner /\ t \notin Callers /\ stage' # "put"
      BY <2>1, Sorts
    <3>2. ~Claimed(t)
      BY DEF Claimed, Flushes
    <3>3. ~Claimed(t)'
      BY <1>2, <1>3, <3>1 DEF Claimed, Flushes
    <3> QED BY <2>1, <3>2, <3>3
  <2>2. CASE u # t
    <3>1. th'[u] = th[u] /\ (u = Owner => t = Flusher /\ stage' = stage)
      BY <1>3, <2>2, Sorts
    <3>2. u \in Callers \/ u = Owner
      BY DEF Writers
    <3> QED BY <3>1, <3>2 DEF Claimed, Flushes
  <2> QED BY <2>1, <2>2
<1>8. NumberInv'
  BY <1>7, NumberStep
<1>9. LapInv'
  <2>1. \A u \in Writers : Free(u)'
    BY <1>7 DEF Free, LapInv, Elem, Flushes
  <2> QED BY <1>7, <2>1, LapStep
<1>10. LastFlushInv'
  <2>1. CASE stage' # "close"
    <3>1. stage' \in {"run", "remove", "returned"}
      BY <2>1
    <3> QED BY <3>1 DEF LastFlushInv
  <2>2. CASE stage' = "close"
    <3>1. t = Owner /\ stage = "put"
      BY <2>2
    <3>2. \A u \in Threads : th[u].pc = "idle"
      BY <3>1 DEF StageInv, Threads, Writers
    <3>3. flushing = NoThread
      BY <3>2, AllIdle
    <3>4. th'[Owner].pc = "flush" /\ th'[Owner].n = 0
      BY <1>1, <1>3, <3>1, <3>3
    <3> QED BY <2>2, <3>4 DEF LastFlushInv
  <2> QED BY <2>1, <2>2
<1> QED BY <1>4, <1>5, <1>6, <1>8, <1>9, <1>10

(* The destructor goes on where nobody flushes. *)
LEMMA StopStep ==
  ASSUME MemInv, stop_removeLogger \/ stop_close \/ (stop_put /\ fs # "good")
  PROVE  MemInv'
<1> USE DEF MemInv
<1>1. /\ UNCHANGED <<cursor, logs, th, flushing, buf, put_lines, written>>
      /\ th[Owner].pc = "idle"
      /\ \/ stage = "remove" /\ stage' = "line" /\ th[Flusher].pc = "idle" /\ registered' = FALSE /\ fs' = fs
         \/ stage = "close" /\ stage' = "wait" /\ fs' = "closed" /\ registered' = registered
         \/ stage = "line" /\ stage' = "put" /\ fs' = fs /\ registered' = registered
  BY DEF stop_removeLogger, stop_close, stop_put, ringVars, fileVars, histVars, StageInv
<1>2. \A u \in Threads : th[u].pc = "idle"
  BY <1>1 DEF StageInv, Threads, Writers
<1>3. flushing = NoThread /\ buf = {}
  BY <1>2, AllIdle
<1>4. TypeInv'
  BY <1>1 DEF TypeInv
<1>5. StageInv'
  BY <1>1, <1>2 DEF StageInv
<1>6. LockInv' /\ CopyInv'
  <2>1. \A u \in Threads : Stays(u)
    BY <1>1 DEF Stays
  <2> QED BY <1>1, <1>3, <1>4, <2>1, QuietStep
<1>7. \A u \in Writers : ~Claimed(u)'
  BY <1>1, <1>2, Sorts DEF Claimed, Flushes
<1>8. NumberInv'
  BY <1>1, <1>7, NumberStep
<1>9. LapInv'
  BY <1>7 DEF LapInv
<1>10. LastFlushInv'
  BY <1>1 DEF LastFlushInv
<1> QED BY <1>4, <1>5, <1>6, <1>8, <1>9, <1>10

(* stop returns without an open file, while the flush thread goes on. *)
LEMMA StopReturnsStep ==
  ASSUME MemInv, stop_not_open
  PROVE  MemInv'
<1> USE DEF MemInv
<1>1. /\ UNCHANGED <<cursor, logs, th, flushing, fs, buf, registered, put_lines, written>>
      /\ stage = "remove" /\ stage' = "returned" /\ th[Owner].pc = "idle"
  BY DEF stop_not_open, ringVars, fileVars, histVars
<1>2. TypeInv' /\ LockInv' /\ CopyInv' /\ StageInv'
  BY <1>1 DEF TypeInv, LockInv, CopyInv, StageInv, Flushes, Position, Elem
<1>3. \A u \in Writers : Claimed(u)' <=> Claimed(u)
  BY <1>1 DEF Claimed, Flushes
<1>4. NumberInv'
  BY <1>1, <1>3, NumberStep
<1>5. LapInv'
  BY <1>1, <1>3 DEF LapInv, Elem, Flushes
<1>6. LastFlushInv'
  BY <1>1 DEF LastFlushInv
<1> QED BY <1>2, <1>4, <1>5, <1>6

LEMMA ExitStep ==
  ASSUME NumberInv, TypeInv, exit
  PROVE  MemInv'
<1> USE DEF MemInv
<1>1. /\ cursor' = 0 /\ logs' = [k \in Elems |-> LogElem]
      /\ th' = [t \in Writers \cup {Flusher} |-> Idle]
      /\ flushing' = NoThread /\ fs' = "closed" /\ buf' = {} /\ registered' = FALSE
      /\ stage' = "down" /\ UNCHANGED <<put_lines, written>>
  BY DEF exit
<1>2. \A t \in Threads : th'[t] = Idle /\ th'[t].pc = "idle"
  BY <1>1 DEF Threads, Idle
<1>3. TypeInv'
  <2>1. th' \in [Threads -> Frame]
    BY <1>1, Sorts DEF Threads
  <2>2. logs' \in [Elems -> LogElems]
    BY <1>1 DEF LogElems, LogElem
  <2> QED BY <1>1, <2>1, <2>2, Sorts DEF TypeInv
<1>4. StageInv'
  BY <1>1, <1>2, Sorts DEF StageInv
<1>5. LockInv' /\ CopyInv'
  BY <1>1, FreshRing
<1>6. \A u \in Writers : ~Claimed(u)'
  BY <1>2, Sorts DEF Claimed, Flushes
<1>7. NumberInv'
  BY <1>1, <1>6, NumberStep
<1>8. LapInv'
  BY <1>6 DEF LapInv
<1>9. LastFlushInv'
  BY <1>1 DEF LastFlushInv
<1> QED BY <1>3, <1>4, <1>5, <1>7, <1>8, <1>9

LEMMA StartStep ==
  ASSUME MemInv, start
  PROVE  MemInv'
<1> USE DEF MemInv
<1>1. /\ UNCHANGED <<cursor, logs, th, flushing, buf, put_lines, written>>
      /\ stage = "down" /\ stage' = "run" /\ fs' \in {"good", "failed"} /\ registered' \in BOOLEAN
  BY DEF start, ringVars
<1>2. \A u \in Threads : th[u].pc = "idle"
  BY <1>1 DEF StageInv
<1>3. flushing = NoThread /\ buf = {}
  BY <1>2, AllIdle
<1>4. TypeInv'
  BY <1>1 DEF TypeInv
<1>5. StageInv'
  BY <1>1, <1>2, Sorts DEF StageInv
<1>6. LockInv' /\ CopyInv'
  <2>1. \A u \in Threads : Stays(u)
    BY <1>1 DEF Stays
  <2> QED BY <1>1, <1>3, <1>4, <2>1, QuietStep
<1>7. \A u \in Writers : ~Claimed(u)'
  BY <1>1, <1>2, Sorts DEF Claimed, Flushes
<1>8. NumberInv'
  BY <1>1, <1>7, NumberStep
<1>9. LapInv'
  BY <1>7 DEF LapInv
<1>10. LastFlushInv'
  BY <1>1 DEF LastFlushInv
<1> QED BY <1>4, <1>5, <1>6, <1>8, <1>9, <1>10

LEMMA MemFrame ==
  ASSUME MemInv,
         UNCHANGED <<cursor, logs, th, flushing, fs, buf, registered, stage, put_lines, written>>
  PROVE  MemInv'
BY DEF MemInv, TypeInv, StageInv, LockInv, CopyInv, NumberInv, LapInv, LastFlushInv, Flushes,
       Position, Elem, Claimed
-----------------------------------------------------------------------------
(* Where the lines are *)

(* g has what f has, and in addition lines under n and empty entries. *)
Extends(f, g, n, lines) ==
  /\ DOMAIN f \subseteq DOMAIN g
  /\ \A m \in DOMAIN f : g[m] = IF m = n THEN f[m] \cup lines ELSE f[m]
  /\ \A m \in DOMAIN g \ DOMAIN f : g[m] = {}

LEMMA WithExtends ==
  ASSUME NEW f, NEW g, NEW n \in DOMAIN f, NEW lines, g = With(f, n, f[n] \cup lines)
  PROVE  Extends(f, g, n, lines) /\ DOMAIN g = DOMAIN f
BY DEF Extends, With

LEMMA OpenedExtends ==
  ASSUME NEW f, NEW g, NEW h, NEW n, NEW lines, NEW m, Extends(f, h, n, lines), g = Opened(h, m)
  PROVE  Extends(f, g, n, lines) /\ DOMAIN g = DOMAIN h \cup {m}
<1>1. DOMAIN g = DOMAIN h \cup {m} /\ \A i \in DOMAIN h : g[i] = h[i]
  BY DEF Opened, With
<1>2. m \notin DOMAIN h => g[m] = {}
  BY DEF Opened, With
<1> QED BY <1>1, <1>2 DEF Extends

LEMMA OnlyOpened ==
  ASSUME NEW f, NEW g, NEW m, NEW n, g = Opened(f, m)
  PROVE  Extends(f, g, n, {}) /\ DOMAIN g = DOMAIN f \cup {m}
<1>1. DOMAIN g = DOMAIN f \cup {m} /\ \A i \in DOMAIN f : g[i] = f[i]
  BY DEF Opened, With
<1>2. m \notin DOMAIN f => g[m] = {}
  BY DEF Opened, With
<1> QED BY <1>1, <1>2 DEF Extends

LEMMA EverLinesIs == \A x : x \in EverLines <=> \E n \in DOMAIN ever : x \in ever[n]
BY DEF EverLines, Range

LEMMA EverLinesIsPrime == \A x : x \in EverLines' <=> \E n \in DOMAIN ever' : x \in ever'[n]
BY DEF EverLines, Range

LEMMA EverGrows ==
  ASSUME NEW n \in DOMAIN ever, NEW lines, Extends(ever, ever', n, lines)
  PROVE  EverLines' = EverLines \cup lines
<1>1. ASSUME NEW x \in EverLines' PROVE x \in EverLines \cup lines
  <2>1. PICK m \in DOMAIN ever' : x \in ever'[m]
    BY EverLinesIsPrime
  <2>2. m \in DOMAIN ever
    BY <2>1 DEF Extends
  <2>3. x \in ever[m] \cup lines
    BY <2>1, <2>2 DEF Extends
  <2> QED BY <2>2, <2>3, EverLinesIs
<1>2. ASSUME NEW x \in EverLines PROVE x \in EverLines'
  <2>1. PICK m \in DOMAIN ever : x \in ever[m]
    BY EverLinesIs
  <2>2. m \in DOMAIN ever' /\ x \in ever'[m]
    BY <2>1 DEF Extends
  <2> QED BY <2>2, EverLinesIsPrime
<1>3. ASSUME NEW x \in lines PROVE x \in EverLines'
  <2>1. n \in DOMAIN ever' /\ x \in ever'[n]
    BY DEF Extends
  <2> QED BY <2>1, EverLinesIsPrime
<1> QED BY <1>1, <1>2, <1>3

(* No element gets or loses a line. *)
LEMMA PlaceFrame ==
  ASSUME PlaceInv,
         \A j \in Elems : /\ Full(logs'[j]) <=> Full(logs[j])
                          /\ Full(logs[j]) => logs'[j].ctx = logs[j].ctx,
         UNCHANGED <<written, buf, ever>>, gone \subseteq gone', gone' \subseteq written
  PROVE  PlaceInv'
<1>1. EverLines' = EverLines
  BY DEF EverLines
<1> QED BY <1>1 DEF PlaceInv

LEMMA PlaceWrite ==
  ASSUME PlaceInv, NEW k \in Elems, ~Full(logs[k]), NEW line, line \notin written,
         Full(logs'[k]), logs'[k].ctx = line, \A j \in Elems : j # k => logs'[j] = logs[j],
         written' = written \cup {line}, UNCHANGED <<buf, ever, gone>>
  PROVE  PlaceInv'
<1>1. EverLines' = EverLines
  BY DEF EverLines
<1>2. \A j \in Elems : Full(logs'[j]) => logs'[j].ctx \in written' /\ logs'[j].ctx \notin buf \cup EverLines
  BY DEF PlaceInv
<1>3. \A i, j \in Elems : Full(logs'[j]) /\ Full(logs'[i]) /\ j # i => logs'[j].ctx # logs'[i].ctx
  BY DEF PlaceInv
<1>4. \A x \in written' : x \in buf \cup gone \cup EverLines \/ \E j \in Elems : Full(logs'[j]) /\ logs'[j].ctx = x
  <2> SUFFICES ASSUME NEW x \in written, x \notin buf \cup gone \cup EverLines
               PROVE  \E j \in Elems : Full(logs'[j]) /\ logs'[j].ctx = x
    OBVIOUS
  <2>1. PICK j \in Elems : Full(logs[j]) /\ logs[j].ctx = x
    BY DEF PlaceInv
  <2>2. j # k
    BY <2>1
  <2> QED BY <2>1, <2>2
<1> QED BY <1>1, <1>2, <1>3, <1>4 DEF PlaceInv

(* A line leaves the ring for the stream, which takes it, refuses it or fails. *)
LEMMA PlaceOut ==
  ASSUME PlaceInv, NEW k \in Elems, Full(logs[k]), ~Full(logs'[k]),
         \A j \in Elems : j # k => logs'[j] = logs[j], UNCHANGED <<written, ever>>,
         \/ buf' = buf \cup {logs[k].ctx} /\ gone' = gone
         \/ gone' = gone \cup {logs[k].ctx} /\ buf' = buf
         \/ gone' = gone \cup buf \cup {logs[k].ctx} /\ buf' = {}
  PROVE  PlaceInv'
<1>1. EverLines' = EverLines
  BY DEF EverLines
<1>2. PICK line : line = logs[k].ctx
  OBVIOUS
<1>3. line \in written /\ line \notin buf \cup EverLines
  BY <1>2 DEF PlaceInv
<1>4. \A j \in Elems : Full(logs'[j]) => /\ logs'[j].ctx \in written /\ logs'[j].ctx # line
                                         /\ logs'[j].ctx \notin buf \cup EverLines
  BY <1>2 DEF PlaceInv
<1>5. \A i, j \in Elems : Full(logs'[j]) /\ Full(logs'[i]) /\ j # i => logs'[j].ctx # logs'[i].ctx
  BY DEF PlaceInv
<1>6. \A x \in written : x \in buf' \cup gone' \cup EverLines \/ \E j \in Elems : Full(logs'[j]) /\ logs'[j].ctx = x
  <2> SUFFICES ASSUME NEW x \in written, x \notin buf \cup gone \cup EverLines, x # line
               PROVE  \E j \in Elems : Full(logs'[j]) /\ logs'[j].ctx = x
    BY <1>2
  <2>1. PICK j \in Elems : Full(logs[j]) /\ logs[j].ctx = x
    BY DEF PlaceInv
  <2>2. j # k
    BY <2>1, <1>2
  <2> QED BY <2>1, <2>2
<1>7. buf' \cup EverLines \cup gone' \subseteq written /\ buf' \cap EverLines = {}
  BY <1>2, <1>3 DEF PlaceInv
<1>8. buf' \subseteq buf \cup {line}
  BY <1>2
<1> QED BY <1>1, <1>4, <1>5, <1>6, <1>7, <1>8 DEF PlaceInv

(* The buffer goes to a revision. *)
LEMMA PlaceFlush ==
  ASSUME PlaceInv, NEW n \in DOMAIN ever, Extends(ever, ever', n, buf), buf' = {},
         UNCHANGED <<logs, written, gone>>
  PROVE  PlaceInv'
<1>1. EverLines' = EverLines \cup buf
  BY EverGrows
<1>2. \A i, j \in DOMAIN ever' : i # j => ever'[i] \cap ever'[j] = {}
  <2> SUFFICES ASSUME NEW i \in DOMAIN ever', NEW j \in DOMAIN ever', i # j, NEW x \in ever'[i], x \in ever'[j]
               PROVE  FALSE
    OBVIOUS
  <2>1. i \in DOMAIN ever /\ j \in DOMAIN ever
    BY DEF Extends
  <2>2. x \in ever[i] \/ (i = n /\ x \in buf)
    BY <2>1 DEF Extends
  <2>3. x \in ever[j] \/ (j = n /\ x \in buf)
    BY <2>1 DEF Extends
  <2>4. x \in ever[i] \/ x \in ever[j] => x \in EverLines
    BY <2>1, EverLinesIs
  <2> QED BY <2>1, <2>2, <2>3, <2>4 DEF PlaceInv
<1>3. \A k \in Elems : Full(logs[k]) => logs[k].ctx \in written /\ logs[k].ctx \notin EverLines'
  BY <1>1 DEF PlaceInv
<1>4. EverLines' \cup gone \subseteq written
  BY <1>1 DEF PlaceInv
<1>5. \A x \in written : x \in gone \cup EverLines' \/ \E k \in Elems : Full(logs[k]) /\ logs[k].ctx = x
  BY <1>1 DEF PlaceInv
<1> QED BY <1>2, <1>3, <1>4, <1>5 DEF PlaceInv

(* What is in memory is lost. *)
LEMMA PlaceExit ==
  ASSUME PlaceInv, \A k \in Elems : ~Full(logs'[k]), buf' = {}, UNCHANGED <<written, ever>>,
         gone' = gone \cup RingLines \cup buf
  PROVE  PlaceInv'
<1>1. EverLines' = EverLines
  BY DEF EverLines
<1>2. \A x : x \in RingLines <=> \E k \in Elems : Full(logs[k]) /\ logs[k].ctx = x
  BY DEF RingLines, Full
<1>3. gone' \subseteq written
  BY <1>2 DEF PlaceInv
<1>4. \A x \in written : x \in gone' \cup EverLines
  BY <1>2 DEF PlaceInv
<1> QED BY <1>1, <1>3, <1>4 DEF PlaceInv
-----------------------------------------------------------------------------
(* The files *)

DiskInv == FileInv /\ QueueInv /\ KeptInv

LEMMA FsFlushGood ==
  ASSUME FileInv, fs = "good", fs_flush
  PROVE  /\ Extends(ever, ever', cur_revnum, buf) /\ Extends(plain, plain', cur_revnum, buf)
         /\ cur_revnum \in DOMAIN ever /\ cur_revnum \in DOMAIN plain
         /\ \/ /\ UNCHANGED <<fs, cur_revnum, comp_jobs, comp_elems>>
               /\ DOMAIN plain' = DOMAIN plain /\ DOMAIN ever' = DOMAIN ever
            \/ /\ cur_revnum' = cur_revnum + 1 /\ comp_jobs' = comp_jobs + 1
               /\ comp_elems' = Append(comp_elems, cur_revnum)
               /\ DOMAIN ever' = DOMAIN ever \cup {cur_revnum + 1}
               /\ \/ fs' = "good" /\ DOMAIN plain' = DOMAIN plain \cup {cur_revnum + 1}
                  \/ fs' = "failed" /\ DOMAIN plain' = DOMAIN plain
<1>1. cur_revnum \in DOMAIN ever /\ cur_revnum \in DOMAIN plain
  BY DEF FileInv
<1>2. PICK lines : lines = plain[cur_revnum] \cup buf
  OBVIOUS
<1>3. \/ rotate(lines)
      \/ /\ plain' = [plain EXCEPT ![cur_revnum] = lines]
         /\ ever' = [ever EXCEPT ![cur_revnum] = @ \cup buf]
         /\ UNCHANGED <<fs, cur_revnum, comp_jobs, comp_elems, faults>>
  BY <1>2 DEF fs_flush
<1>4. CASE rotate(lines)
  <2>1. /\ ever' = Opened(With(ever, cur_revnum, ever[cur_revnum] \cup buf), cur_revnum + 1)
        /\ cur_revnum' = cur_revnum + 1 /\ comp_jobs' = comp_jobs + 1
        /\ comp_elems' = Append(comp_elems, cur_revnum)
        /\ \/ fs' = "good" /\ plain' = Opened(With(plain, cur_revnum, plain[cur_revnum] \cup buf), cur_revnum + 1)
           \/ fs' = "failed" /\ plain' = With(plain, cur_revnum, plain[cur_revnum] \cup buf)
    BY <1>2, <1>4 DEF rotate
  <2>2. Extends(ever, ever', cur_revnum, buf) /\ DOMAIN ever' = DOMAIN ever \cup {cur_revnum + 1}
    <3>1. PICK f, g, b : f = ever /\ g = ever' /\ b = buf
      OBVIOUS
    <3>2. PICK c, m : c = cur_revnum /\ m = cur_revnum + 1
      OBVIOUS
    <3>3. c \in DOMAIN f /\ g = Opened(With(f, c, f[c] \cup b), m)
      BY <1>1, <2>1, <3>1, <3>2
    <3>4. PICK h : h = With(f, c, f[c] \cup b)
      OBVIOUS
    <3>5. Extends(f, h, c, b) /\ DOMAIN h = DOMAIN f
      BY <3>3, <3>4, WithExtends
    <3>6. g = Opened(h, m)
      BY <3>3, <3>4
    <3>7. Extends(f, g, c, b) /\ DOMAIN g = DOMAIN h \cup {m}
      BY <3>5, <3>6, OpenedExtends
    <3> QED BY <3>1, <3>2, <3>5, <3>7
  <2>3. CASE fs' = "good" /\ plain' = Opened(With(plain, cur_revnum, plain[cur_revnum] \cup buf), cur_revnum + 1)
    <3>1. Extends(plain, plain', cur_revnum, buf) /\ DOMAIN plain' = DOMAIN plain \cup {cur_revnum + 1}
      <4>1. PICK f, g, b : f = plain /\ g = plain' /\ b = buf
        OBVIOUS
      <4>2. PICK c, m : c = cur_revnum /\ m = cur_revnum + 1
        OBVIOUS
      <4>3. c \in DOMAIN f /\ g = Opened(With(f, c, f[c] \cup b), m)
        BY <1>1, <2>3, <4>1, <4>2
      <4>4. PICK h : h = With(f, c, f[c] \cup b)
        OBVIOUS
      <4>5. Extends(f, h, c, b) /\ DOMAIN h = DOMAIN f
        BY <4>3, <4>4, WithExtends
      <4>6. g = Opened(h, m)
        BY <4>3, <4>4
      <4>7. Extends(f, g, c, b) /\ DOMAIN g = DOMAIN h \cup {m}
        BY <4>5, <4>6, OpenedExtends
      <4> QED BY <4>1, <4>2, <4>5, <4>7
    <3> QED BY <1>1, <2>1, <2>2, <2>3, <3>1
  <2>4. CASE fs' = "failed" /\ plain' = With(plain, cur_revnum, plain[cur_revnum] \cup buf)
    <3>1. Extends(plain, plain', cur_revnum, buf) /\ DOMAIN plain' = DOMAIN plain
      BY <1>1, <2>4, WithExtends
    <3> QED BY <1>1, <2>1, <2>2, <2>4, <3>1
  <2> QED BY <2>1, <2>3, <2>4
<1>5. CASE /\ plain' = [plain EXCEPT ![cur_revnum] = lines]
           /\ ever' = [ever EXCEPT ![cur_revnum] = @ \cup buf]
           /\ UNCHANGED <<fs, cur_revnum, comp_jobs, comp_elems, faults>>
  <2>1. Extends(ever, ever', cur_revnum, buf) /\ DOMAIN ever' = DOMAIN ever
    BY <1>1, <1>5 DEF Extends
  <2>2. Extends(plain, plain', cur_revnum, buf) /\ DOMAIN plain' = DOMAIN plain
    BY <1>1, <1>2, <1>5 DEF Extends
  <2> QED BY <1>1, <1>5, <2>1, <2>2
<1> QED BY <1>3, <1>4, <1>5

(* Nothing happens to the files; lines elsewhere may be lost. *)
LEMMA DiskFrame ==
  ASSUME DiskInv,
         UNCHANGED <<plain, tar, ever, cur_revnum, min_revnum, comp_jobs, comp_elems, comp>>,
         gone \subseteq gone', Up' <=> Up, fs' = "good" => fs = "good"
  PROVE  DiskInv'
<1> USE DEF DiskInv
<1>1. FileInv'
  BY DEF FileInv, NoneForgotten
<1>2. QueueInv'
  BY DEF QueueInv, TarLines
<1>3. KeptInv'
  BY DEF KeptInv, Disk
<1> QED BY <1>1, <1>2, <1>3

(* A file that grows, and a new one after it. *)
LEMMA DiskFlush ==
  ASSUME DiskInv, fs = "good", fs_flush, UNCHANGED <<tar, min_revnum, comp, stage, gone>>
  PROVE  DiskInv'
<1> USE DEF DiskInv
<1>1. PICK c \in Nat : c = cur_revnum
  BY DEF FileInv
<1>2. /\ Extends(ever, ever', c, buf) /\ Extends(plain, plain', c, buf)
      /\ c \in DOMAIN ever /\ c \in DOMAIN plain
      /\ \/ /\ UNCHANGED <<fs, cur_revnum, comp_jobs, comp_elems>>
            /\ DOMAIN plain' = DOMAIN plain /\ DOMAIN ever' = DOMAIN ever
         \/ /\ cur_revnum' = c + 1 /\ comp_jobs' = comp_jobs + 1
            /\ comp_elems' = Append(comp_elems, c)
            /\ DOMAIN ever' = DOMAIN ever \cup {c + 1}
            /\ \/ fs' = "good" /\ DOMAIN plain' = DOMAIN plain \cup {c + 1}
               \/ fs' = "failed" /\ DOMAIN plain' = DOMAIN plain
  BY <1>1, FsFlushGood
<1>3. stage # "down" /\ stage' # "down"
  BY DEF FileInv, Up
<1>4. cur_revnum' \in {c, c + 1} /\ DOMAIN plain' \subseteq DOMAIN plain \cup {cur_revnum'}
      /\ DOMAIN ever' \subseteq DOMAIN ever \cup {c + 1} /\ cur_revnum' \in DOMAIN ever'
      /\ DOMAIN plain \subseteq DOMAIN plain' /\ DOMAIN ever \subseteq DOMAIN ever'
  BY <1>1, <1>2
<1>5. FileInv'
  <2>1. \A n \in DOMAIN plain' : n \in Nat /\ n <= cur_revnum' /\ n >= min_revnum
    BY <1>1, <1>3, <1>4 DEF FileInv, NoneForgotten, Up
  <2>2. \A n \in DOMAIN tar : n \in Nat /\ n < cur_revnum' /\ n >= min_revnum
    BY <1>1, <1>3, <1>4 DEF FileInv, NoneForgotten, Up
  <2>3. \A n \in DOMAIN plain' : n \in DOMAIN ever' /\ plain'[n] \subseteq ever'[n]
    <3> SUFFICES ASSUME NEW n \in DOMAIN plain' PROVE n \in DOMAIN ever' /\ plain'[n] \subseteq ever'[n]
      OBVIOUS
    <3>1. CASE n \in DOMAIN plain
      <4>1. n \in DOMAIN ever /\ plain[n] \subseteq ever[n]
        BY <3>1 DEF FileInv
      <4> QED BY <1>2, <3>1, <4>1 DEF Extends
    <3>2. CASE n \notin DOMAIN plain
      BY <1>2, <1>4, <3>2 DEF Extends
    <3> QED BY <3>1, <3>2
  <2>4. fs' = "good" => cur_revnum' \in DOMAIN plain'
    BY <1>1, <1>2
  <2>5. cur_revnum' \in Nat /\ min_revnum' \in Nat /\ min_revnum' <= cur_revnum'
        /\ DOMAIN ever' \subseteq Nat
    BY <1>1, <1>3, <1>4 DEF FileInv, Up
  <2> QED BY <1>3, <1>4, <2>1, <2>2, <2>3, <2>4, <2>5 DEF FileInv, NoneForgotten, Up
<1>6. QueueInv'
  <2>1. comp.file \in Nat /\ comp.pc \in {"idle", "tar", "rm", "expire"} /\ Len(comp_elems) \in Nat
        /\ comp_elems \in Seq(Nat)
    BY DEF QueueInv
  <2>2. comp.pc # "idle" => comp.file < c /\ comp.file < cur_revnum'
    BY <1>1, <1>4, <2>1 DEF QueueInv
  <2>3. \A n \in DOMAIN plain : n # c => plain'[n] = plain[n]
    BY <1>2 DEF Extends
  <2>4. comp.pc = "rm" => plain'[comp.file] \subseteq TarLines(comp.file) \cup gone
    BY <2>1, <2>2, <2>3 DEF QueueInv
  <2>5. c \notin DOMAIN tar
    BY <1>1 DEF FileInv
  <2>6. CASE UNCHANGED <<comp_elems, comp_jobs>>
    BY <1>1, <1>3, <1>4, <2>1, <2>2, <2>4, <2>6 DEF QueueInv, TarLines, Up
  <2>7. CASE comp_elems' = Append(comp_elems, c) /\ comp_jobs' = comp_jobs + 1 /\ cur_revnum' = c + 1
    <3>1. PICK q : q = comp_elems'
      OBVIOUS
    <3>2. q \in Seq(Nat) /\ Len(q) = Len(comp_elems) + 1 /\ q[Len(comp_elems) + 1] = c
          /\ \A i \in 1 .. Len(comp_elems) : q[i] = comp_elems[i]
      BY <1>1, <2>1, <2>7, <3>1
    <3>3. \A i \in 1 .. Len(q) : /\ q[i] \in DOMAIN plain' \ DOMAIN tar
                                 /\ q[i] < c + 1
                                 /\ comp.pc # "idle" => comp.file < q[i]
      <4> SUFFICES ASSUME NEW i \in 1 .. Len(q)
                   PROVE  /\ q[i] \in DOMAIN plain' \ DOMAIN tar
                          /\ q[i] < c + 1
                          /\ comp.pc # "idle" => comp.file < q[i]
        OBVIOUS
      <4>0. PICK l \in Nat : l = Len(comp_elems) /\ Len(q) = l + 1
        BY <2>1, <3>2
      <4>1. CASE i = l + 1
        BY <1>1, <1>2, <1>4, <2>2, <2>5, <3>2, <4>0, <4>1
      <4>2. CASE i \in 1 .. l
        <5>1. /\ comp_elems[i] \in DOMAIN plain \ DOMAIN tar /\ comp_elems[i] < c
              /\ comp_elems[i] \in Nat
              /\ comp.pc # "idle" => comp.file < comp_elems[i]
          BY <1>1, <2>1, <4>0, <4>2 DEF QueueInv
        <5> QED BY <1>4, <3>2, <4>0, <4>2, <5>1
      <4>3. i = l + 1 \/ i \in 1 .. l
        BY <4>0
      <4> QED BY <4>1, <4>2, <4>3
    <3>4. \A i, j \in 1 .. Len(q) : i < j => q[i] < q[j]
      <4> SUFFICES ASSUME NEW i \in 1 .. Len(q), NEW j \in 1 .. Len(q), i < j PROVE q[i] < q[j]
        OBVIOUS
      <4>0. PICK l \in Nat : l = Len(comp_elems) /\ Len(q) = l + 1
        BY <2>1, <3>2
      <4>1. i \in 1 .. l
        BY <4>0
      <4>2. CASE j = l + 1
        BY <1>1, <3>2, <4>0, <4>1, <4>2 DEF QueueInv
      <4>3. CASE j \in 1 .. l
        BY <3>2, <4>0, <4>1, <4>3 DEF QueueInv
      <4>4. j = l + 1 \/ j \in 1 .. l
        BY <4>0
      <4> QED BY <4>2, <4>3, <4>4
    <3>5. comp_jobs' = Len(q) + (IF comp.pc = "idle" THEN 0 ELSE 1)
      BY <2>1, <2>7, <3>2 DEF QueueInv
    <3>6. comp.pc = "tar" => comp.file \in DOMAIN plain' \ DOMAIN tar
      BY <1>4 DEF QueueInv
    <3>7. comp.pc = "rm" => comp.file \in DOMAIN plain'
      BY <1>4 DEF QueueInv
    <3>8. TarLines(comp.file)' = TarLines(comp.file)
      BY DEF TarLines
    <3>9. stage' # "down" /\ comp \in [pc : {"idle", "tar", "rm", "expire"}, file : Nat]
      BY <1>3 DEF QueueInv
    <3> QED BY <2>2, <2>4, <2>7, <3>1, <3>2, <3>3, <3>4, <3>5, <3>6, <3>7, <3>8, <3>9 DEF QueueInv, Up
  <2> QED BY <1>2, <2>6, <2>7
<1>7. KeptInv'
  <2> SUFFICES ASSUME NEW n \in DOMAIN ever', \A m \in DOMAIN ever' : m <= n + MaxLogFiles,
                      NEW x \in ever'[n], x \notin gone
               PROVE  x \in Disk(n)'
    BY DEF KeptInv
  <2>1. n \in DOMAIN ever
    BY <1>2 DEF Extends
  <2>2. CASE n = c /\ x \in buf
    <3>1. n \in DOMAIN plain' /\ x \in plain'[n]
      BY <1>2, <2>2 DEF Extends
    <3> QED BY <3>1 DEF Disk
  <2>3. CASE x \in ever[n]
    <3>1. x \in Disk(n)
      BY <1>4, <2>1, <2>3 DEF KeptInv
    <3>2. n \in DOMAIN plain /\ x \in plain[n] => n \in DOMAIN plain' /\ x \in plain'[n]
      BY <1>2 DEF Extends
    <3> QED BY <3>1, <3>2 DEF Disk
  <2> QED BY <1>2, <2>1, <2>2, <2>3 DEF Extends
<1> QED BY <1>5, <1>6, <1>7

LEMMA DiskCompressWorker ==
  ASSUME DiskInv, compressWorker
  PROVE  DiskInv'
<1> USE DEF DiskInv
<1>1. /\ UNCHANGED <<plain, tar, ever, cur_revnum, min_revnum, comp_jobs, gone, stage, fs>>
      /\ comp.pc = "idle" /\ comp_elems # <<>> /\ stage # "down"
      /\ comp' = [pc |-> "tar", file |-> Head(comp_elems)] /\ comp_elems' = Tail(comp_elems)
  BY DEF compressWorker, Comp, Up, fileVars, ctlVars, histVars
<1>2. FileInv'
  BY <1>1 DEF FileInv, NoneForgotten, Up
<1>3. KeptInv'
  BY <1>1 DEF KeptInv, Disk
<1>4. QueueInv'
  <2>1. PICK q, r : q = comp_elems /\ r = Tail(comp_elems)
    OBVIOUS
  <2>2. PICK l \in Nat : l = Len(q)
    BY <2>1 DEF QueueInv
  <2>3. q \in Seq(Nat) /\ q # <<>> /\ r \in Seq(Nat) /\ l > 0 /\ Len(r) = l - 1 /\ Head(q) = q[1]
        /\ \A i \in 1 .. l - 1 : r[i] = q[i + 1]
    BY <1>1, <2>1, <2>2 DEF QueueInv
  <2>4. /\ \A i \in 1 .. l : q[i] \in DOMAIN plain \ DOMAIN tar /\ q[i] < cur_revnum /\ q[i] \in Nat
        /\ \A i, j \in 1 .. l : i < j => q[i] < q[j]
    BY <2>1, <2>2, <2>3 DEF QueueInv
  <2>5. \A i \in 1 .. l - 1 : /\ r[i] \in DOMAIN plain \ DOMAIN tar /\ r[i] < cur_revnum /\ q[1] < r[i]
    <3> SUFFICES ASSUME NEW i \in 1 .. l - 1
                 PROVE  r[i] \in DOMAIN plain \ DOMAIN tar /\ r[i] < cur_revnum /\ q[1] < r[i]
      OBVIOUS
    <3>1. i + 1 \in 1 .. l /\ 1 \in 1 .. l /\ 1 < i + 1
      BY <2>2
    <3> QED BY <2>3, <2>4, <3>1
  <2>6. \A i, j \in 1 .. l - 1 : i < j => r[i] < r[j]
    <3> SUFFICES ASSUME NEW i \in 1 .. l - 1, NEW j \in 1 .. l - 1, i < j PROVE r[i] < r[j]
      OBVIOUS
    <3>1. i + 1 \in 1 .. l /\ j + 1 \in 1 .. l /\ i + 1 < j + 1
      BY <2>2
    <3> QED BY <2>3, <2>4, <3>1
  <2>7. 1 \in 1 .. l /\ q[1] \in DOMAIN plain \ DOMAIN tar /\ q[1] < cur_revnum /\ q[1] \in Nat
    BY <2>3, <2>4
  <2>8. comp'.pc = "tar" /\ comp'.file = q[1] /\ comp_elems' = r
        /\ comp' \in [pc : {"idle", "tar", "rm", "expire"}, file : Nat]
    BY <1>1, <2>1, <2>3, <2>7
  <2>9. comp_jobs' = Len(r) + 1
    BY <1>1, <2>1, <2>2, <2>3 DEF QueueInv
  <2> QED BY <1>1, <2>2, <2>3, <2>5, <2>6, <2>7, <2>8, <2>9 DEF QueueInv, Up
<1> QED BY <1>2, <1>3, <1>4

LEMMA CompType ==
  ASSUME QueueInv
  PROVE  /\ comp.pc \in {"idle", "tar", "rm", "expire"} /\ comp.file \in Nat
         /\ Len(comp_elems) \in Nat /\ comp_elems \in Seq(Nat)
         /\ \A i \in 1 .. Len(comp_elems) : comp_elems[i] \in Nat
BY DEF QueueInv

(* What is packed is there twice for a while. *)
LEMMA DiskCompressTar ==
  ASSUME DiskInv, compress_tar
  PROVE  /\ DiskInv'
         /\ gone \subseteq gone' /\ gone' \subseteq gone \cup EverLines
<1> USE DEF DiskInv
<1>1. PICK f \in Nat : f = comp.file
  BY CompType
<1>2. /\ UNCHANGED <<plain, ever, cur_revnum, min_revnum, comp_jobs, comp_elems, stage, fs>>
      /\ comp.pc = "tar" /\ stage # "down" /\ comp' = [comp EXCEPT !.pc = "rm"]
      /\ \/ tar' = With(tar, f, plain[f]) /\ gone' = gone
         \/ tar' = tar /\ gone' = gone \cup plain[f]
  BY <1>1 DEF compress_tar, Comp, Up, ctlVars
<1>3. comp'.pc = "rm" /\ comp'.file = f /\ comp' \in [pc : {"idle", "tar", "rm", "expire"}, file : Nat]
  BY <1>1, <1>2 DEF QueueInv
<1>4. f \in DOMAIN plain \ DOMAIN tar /\ f < cur_revnum
  BY <1>1, <1>2 DEF QueueInv
<1>5. DOMAIN tar' \subseteq DOMAIN tar \cup {f} /\ DOMAIN tar \subseteq DOMAIN tar'
      /\ (\A n \in DOMAIN tar : tar'[n] = tar[n])
      /\ (f \in DOMAIN tar' => tar'[f] = plain[f])
  BY <1>2, <1>4 DEF With
<1>6. gone \subseteq gone' /\ gone' \subseteq gone \cup EverLines
  <2>1. \A x \in plain[f] : x \in EverLines
    BY <1>4, EverLinesIs DEF FileInv
  <2> QED BY <1>2, <2>1
<1>7. FileInv'
  BY <1>2, <1>4, <1>5 DEF FileInv, NoneForgotten, Up
<1>8. KeptInv'
  BY <1>2, <1>5, <1>6 DEF KeptInv, Disk
<1>9. QueueInv'
  <2>1. \A i \in 1 .. Len(comp_elems) : comp_elems[i] \in DOMAIN plain \ DOMAIN tar' /\ f < comp_elems[i]
    <3>1. \A i \in 1 .. Len(comp_elems) : /\ comp_elems[i] \in DOMAIN plain \ DOMAIN tar /\ f < comp_elems[i]
                                          /\ comp_elems[i] \in Nat
      BY <1>1, <1>2, CompType DEF QueueInv
    <3> QED BY <1>5, <3>1
  <2>2. plain[f] \subseteq TarLines(f)' \cup gone'
    <3>1. CASE tar' = With(tar, f, plain[f])
      <4>1. f \in DOMAIN tar'
        BY <3>1 DEF With
      <4> QED BY <1>5, <4>1 DEF TarLines
    <3>2. CASE gone' = gone \cup plain[f]
      BY <3>2
    <3> QED BY <1>2, <3>1, <3>2
  <2>3. plain'[comp'.file] \subseteq TarLines(comp.file)' \cup gone'
    <3>1. TarLines(comp.file)' = TarLines(f)'
      BY <1>3 DEF TarLines
    <3> QED BY <1>2, <1>3, <2>2, <3>1
  <2>4. comp_jobs' = Len(comp_elems') + 1
    BY <1>2 DEF QueueInv
  <2> QED BY <1>2, <1>3, <1>4, <2>1, <2>3, <2>4 DEF QueueInv, Up
<1> QED BY <1>6, <1>7, <1>8, <1>9

LEMMA WithoutIs ==
  ASSUME NEW f, NEW n
  PROVE  /\ DOMAIN Without(f, n) = DOMAIN f \ {n}
         /\ \A m \in DOMAIN f \ {n} : Without(f, n)[m] = f[m]
BY DEF Without, Restrict

LEMMA DiskCompressRm ==
  ASSUME DiskInv, compress_rm
  PROVE  DiskInv'
<1> USE DEF DiskInv
<1>1. PICK f \in Nat : f = comp.file
  BY CompType
<1>2. /\ UNCHANGED <<tar, ever, cur_revnum, min_revnum, comp_jobs, comp_elems, stage, fs, gone>>
      /\ comp.pc = "rm" /\ stage # "down" /\ comp' = [comp EXCEPT !.pc = "expire"]
      /\ plain' = Without(plain, f)
  BY <1>1 DEF compress_rm, Comp, Up, ctlVars, histVars
<1>3. comp'.pc = "expire" /\ comp'.file = f /\ comp' \in [pc : {"idle", "tar", "rm", "expire"}, file : Nat]
  BY <1>1, <1>2 DEF QueueInv
<1>4. f \in DOMAIN plain /\ f < cur_revnum /\ plain[f] \subseteq TarLines(f) \cup gone
  BY <1>1, <1>2 DEF QueueInv
<1>5. DOMAIN plain' = DOMAIN plain \ {f} /\ \A m \in DOMAIN plain \ {f} : plain'[m] = plain[m]
  BY <1>2, WithoutIs
<1>6. FileInv'
  <2>1. f # cur_revnum
    BY <1>1, <1>4 DEF FileInv
  <2> QED BY <1>2, <1>5, <2>1 DEF FileInv, NoneForgotten, Up
<1>7. KeptInv'
  <2>1. \A n : Disk(n) \ gone \subseteq Disk(n)'
    BY <1>2, <1>4, <1>5 DEF Disk, TarLines
  <2> QED BY <1>2, <2>1 DEF KeptInv
<1>8. QueueInv'
  <2>1. \A i \in 1 .. Len(comp_elems) : comp_elems[i] \in DOMAIN plain' \ DOMAIN tar /\ f < comp_elems[i]
    <3>1. \A i \in 1 .. Len(comp_elems) : /\ comp_elems[i] \in DOMAIN plain \ DOMAIN tar /\ f < comp_elems[i]
                                          /\ comp_elems[i] \in Nat
      BY <1>1, <1>2, CompType DEF QueueInv
    <3> QED BY <1>5, <3>1
  <2>2. comp_jobs' = Len(comp_elems') + 1
    BY <1>2 DEF QueueInv
  <2> QED BY <1>2, <1>3, <1>4, <2>1, <2>2 DEF QueueInv, Up
<1> QED BY <1>6, <1>7, <1>8

(* What expires is too old to be kept, and nothing that waits is as old. *)
LEMMA DiskCompressExpire ==
  ASSUME DiskInv, compress_expire
  PROVE  DiskInv'
<1> USE DEF DiskInv
<1>1. PICK f \in Nat, mn \in Nat : f = comp.file /\ mn = min_revnum
  BY CompType DEF FileInv
<1>2. /\ UNCHANGED <<ever, cur_revnum, comp, comp_jobs, comp_elems, stage, fs, gone>>
      /\ comp.pc = "expire" /\ stage # "down" /\ MaxLogFiles > 0 /\ mn <= f - MaxLogFiles
      /\ plain' = Without(plain, mn) /\ tar' = Without(tar, mn) /\ min_revnum' = mn + 1
  BY <1>1 DEF compress_expire, expires, Comp, Up, ctlVars, histVars, compVars
<1>3. MaxLogFiles \in Nat /\ f < cur_revnum /\ cur_revnum \in Nat
  BY <1>1, <1>2, LoggerAssumption DEF QueueInv, FileInv
<1>4. DOMAIN plain' = DOMAIN plain \ {mn} /\ \A m \in DOMAIN plain \ {mn} : plain'[m] = plain[m]
  BY <1>2, WithoutIs
<1>5. DOMAIN tar' = DOMAIN tar \ {mn} /\ \A m \in DOMAIN tar \ {mn} : tar'[m] = tar[m]
  BY <1>2, WithoutIs
<1>6. mn < f /\ mn + MaxLogFiles < cur_revnum
  BY <1>2, <1>3
<1>7. FileInv'
  <2>1. \A n \in DOMAIN plain' : n \in Nat /\ n <= cur_revnum /\ n >= mn + 1
    <3>1. \A n \in DOMAIN plain : n \in Nat /\ n <= cur_revnum /\ n >= mn
      BY <1>1, <1>2 DEF FileInv, NoneForgotten, Up
    <3> QED BY <1>4, <3>1
  <2>2. \A n \in DOMAIN tar' : n \in Nat /\ n < cur_revnum /\ n >= mn + 1
    <3>1. \A n \in DOMAIN tar : n \in Nat /\ n < cur_revnum /\ n >= mn
      BY <1>1, <1>2 DEF FileInv, NoneForgotten, Up
    <3> QED BY <1>5, <3>1
  <2>3. cur_revnum \in DOMAIN plain => cur_revnum \in DOMAIN plain'
    BY <1>3, <1>4, <1>6
  <2>4. mn + 1 \in Nat /\ mn + 1 <= cur_revnum
    BY <1>3, <1>6
  <2> QED BY <1>2, <1>4, <2>1, <2>2, <2>3, <2>4 DEF FileInv, NoneForgotten, Up
<1>8. KeptInv'
  <2> SUFFICES ASSUME NEW n \in DOMAIN ever, \A m \in DOMAIN ever : m <= n + MaxLogFiles
               PROVE  ever[n] \ gone \subseteq Disk(n)'
    BY <1>2 DEF KeptInv
  <2>1. n # mn
    <3>1. cur_revnum \in DOMAIN ever
      BY <1>2 DEF FileInv, Up
    <3> QED BY <1>3, <1>6, <3>1
  <2>2. Disk(n)' = Disk(n)
    BY <1>4, <1>5, <2>1 DEF Disk
  <2> QED BY <2>2 DEF KeptInv
<1>9. QueueInv'
  <2>1. \A i \in 1 .. Len(comp_elems) : comp_elems[i] \in DOMAIN plain' \ DOMAIN tar'
    <3>1. \A i \in 1 .. Len(comp_elems) : /\ comp_elems[i] \in DOMAIN plain \ DOMAIN tar /\ f < comp_elems[i]
                                          /\ comp_elems[i] \in Nat
      BY <1>1, <1>2, CompType DEF QueueInv
    <3> QED BY <1>4, <1>5, <1>6, <3>1
  <2> QED BY <1>2, <2>1 DEF QueueInv, Up
<1> QED BY <1>7, <1>8, <1>9

LEMMA DiskCompressEnd ==
  ASSUME DiskInv, compress_end
  PROVE  DiskInv'
<1> USE DEF DiskInv
<1>1. /\ UNCHANGED <<plain, tar, ever, cur_revnum, min_revnum, comp_elems, stage, fs, gone>>
      /\ comp.pc = "expire" /\ stage # "down" /\ comp' = CompIdle /\ comp_jobs' = comp_jobs - 1
  BY DEF compress_end, Comp, Up, ctlVars, histVars, fileVars
<1>2. comp'.pc = "idle" /\ comp' \in [pc : {"idle", "tar", "rm", "expire"}, file : Nat]
  BY <1>1 DEF CompIdle
<1>3. FileInv'
  BY <1>1 DEF FileInv, NoneForgotten, Up
<1>4. KeptInv'
  BY <1>1 DEF KeptInv, Disk
<1>5. QueueInv'
  <2>1. comp_jobs' = Len(comp_elems')
    BY <1>1, CompType DEF QueueInv
  <2> QED BY <1>1, <1>2, <2>1 DEF QueueInv, Up
<1> QED BY <1>3, <1>4, <1>5

LEMMA DiskExit ==
  ASSUME DiskInv, exit
  PROVE  DiskInv'
<1> USE DEF DiskInv
<1>1. /\ UNCHANGED <<plain, tar, ever, cur_revnum, min_revnum>> /\ gone \subseteq gone'
      /\ stage' = "down" /\ fs' = "closed" /\ comp_jobs' = 0 /\ comp_elems' = <<>> /\ comp' = CompIdle
  BY DEF exit
<1>2. comp'.pc = "idle" /\ comp' \in [pc : {"idle", "tar", "rm", "expire"}, file : Nat]
  BY <1>1 DEF CompIdle
<1>3. FileInv'
  BY <1>1 DEF FileInv, NoneForgotten, Up
<1>4. KeptInv'
  BY <1>1 DEF KeptInv, Disk
<1>5. QueueInv'
  <2>1. comp_elems' \in Seq(Nat) /\ Len(comp_elems') = 0
    BY <1>1
  <2> QED BY <1>1, <1>2, <2>1 DEF QueueInv
<1> QED BY <1>3, <1>4, <1>5

(* The files tell the number of the newest and of the oldest revision. *)
LEMMA FoundNumbers ==
  ASSUME FileInv
  PROVE  /\ findMaxRevNum \in Nat /\ findMinRevNum \in Nat /\ findMinRevNum <= findMaxRevNum
         /\ \A n \in DOMAIN plain : findMinRevNum <= n /\ n <= findMaxRevNum
         /\ \A n \in DOMAIN tar : findMinRevNum <= n /\ n < findMaxRevNum
<1>1. PICK S : S = {0} \cup DOMAIN plain \cup {n + 1 : n \in DOMAIN tar}
  OBVIOUS
<1>2. PICK F : F = DOMAIN plain \cup DOMAIN tar
  OBVIOUS
<1>3. cur_revnum \in Nat /\ (\A n \in DOMAIN plain : n \in Nat /\ n <= cur_revnum)
      /\ (\A n \in DOMAIN tar : n \in Nat /\ n < cur_revnum)
  BY DEF FileInv
<1>4. S \subseteq Nat /\ S # {} /\ \A x \in S : x <= cur_revnum
  BY <1>1, <1>3
<1>5. PICK mx \in S : mx = Max(S) /\ \A x \in S : x <= mx
  <2>1. PICK c \in Nat : c = cur_revnum
    BY <1>3
  <2>2. \A x \in S : x <= c
    BY <1>4, <2>1
  <2> QED BY <1>4, <2>2, MaxOf
<1>6. findMaxRevNum = mx /\ mx \in Nat
  BY <1>1, <1>4, <1>5 DEF findMaxRevNum
<1>7. \A n \in DOMAIN plain : n \in S
  BY <1>1
<1>8. \A n \in DOMAIN tar : n + 1 \in S
  BY <1>1
<1>9. \A n \in DOMAIN plain : n <= mx
  BY <1>5, <1>7
<1>10. \A n \in DOMAIN tar : n < mx
  BY <1>3, <1>4, <1>5, <1>8
<1>11. CASE F = {}
  BY <1>2, <1>6, <1>11 DEF findMinRevNum
<1>12. CASE F # {}
  <2>1. F \subseteq Nat
    BY <1>2, <1>3
  <2>2. PICK mn \in F : mn = Min(F) /\ \A x \in F : mn <= x
    BY <1>12, <2>1, MinOf
  <2>3. findMinRevNum = mn
    BY <1>2, <1>12, <2>2 DEF findMinRevNum
  <2>4. mn <= mx
    BY <1>2, <1>3, <1>6, <1>9, <1>10, <2>2
  <2> QED BY <1>2, <1>6, <1>9, <1>10, <2>1, <2>2, <2>3, <2>4
<1> QED BY <1>11, <1>12

LEMMA DiskStart ==
  ASSUME DiskInv, start
  PROVE  DiskInv' /\ Extends(ever, ever', cur_revnum', {})
<1> USE DEF DiskInv
<1>1. PICK c \in Nat, mn \in Nat :
        /\ c = findMaxRevNum /\ mn = findMinRevNum /\ mn <= c
        /\ \A n \in DOMAIN plain : mn <= n /\ n <= c
        /\ \A n \in DOMAIN tar : mn <= n /\ n < c
  BY FoundNumbers
<1>2. /\ UNCHANGED <<tar, comp, comp_jobs, comp_elems, gone>> /\ stage = "down" /\ stage' = "run"
      /\ cur_revnum' = c /\ min_revnum' = mn /\ ever' = Opened(ever, c)
      /\ \/ fs' = "good" /\ plain' = Opened(plain, c)
         \/ fs' = "failed" /\ plain' = plain
  BY <1>1 DEF start, compVars
<1>3. Extends(ever, ever', c, {}) /\ DOMAIN ever' = DOMAIN ever \cup {c}
  BY <1>2, OnlyOpened
<1>4. Extends(plain, plain', c, {}) /\ DOMAIN plain' \subseteq DOMAIN plain \cup {c}
      /\ (fs' = "good" => c \in DOMAIN plain')
  <2>1. CASE fs' = "good" /\ plain' = Opened(plain, c)
    <3>1. Extends(plain, plain', c, {}) /\ DOMAIN plain' = DOMAIN plain \cup {c}
      BY <2>1, OnlyOpened
    <3> QED BY <3>1
  <2>2. CASE fs' = "failed" /\ plain' = plain
    BY <2>2 DEF Extends
  <2> QED BY <1>2, <2>1, <2>2
<1>5. FileInv'
  <2>1. \A n \in DOMAIN plain' : n \in Nat /\ n <= c /\ n >= mn
    BY <1>1, <1>4 DEF FileInv
  <2>2. \A n \in DOMAIN tar : n \in Nat /\ n < c /\ n >= mn
    BY <1>1 DEF FileInv
  <2>3. \A n \in DOMAIN plain' : n \in DOMAIN ever' /\ plain'[n] \subseteq ever'[n]
    <3> SUFFICES ASSUME NEW n \in DOMAIN plain' PROVE n \in DOMAIN ever' /\ plain'[n] \subseteq ever'[n]
      OBVIOUS
    <3>1. CASE n \in DOMAIN plain
      <4>1. n \in DOMAIN ever /\ plain[n] \subseteq ever[n]
        BY <3>1 DEF FileInv
      <4> QED BY <1>3, <1>4, <3>1, <4>1 DEF Extends
    <3>2. CASE n \notin DOMAIN plain
      BY <1>3, <1>4, <3>2 DEF Extends
    <3> QED BY <3>1, <3>2
  <2>4. DOMAIN ever' \subseteq Nat /\ c \in DOMAIN ever'
    BY <1>3 DEF FileInv
  <2> QED BY <1>1, <1>2, <1>4, <2>1, <2>2, <2>3, <2>4 DEF FileInv, NoneForgotten, Up
<1>6. KeptInv'
  <2> SUFFICES ASSUME NEW n \in DOMAIN ever', \A m \in DOMAIN ever' : m <= n + MaxLogFiles,
                      NEW x \in ever'[n], x \notin gone
               PROVE  x \in Disk(n)'
    BY <1>2 DEF KeptInv
  <2>1. n \in DOMAIN ever /\ x \in ever[n]
    BY <1>3 DEF Extends
  <2>2. x \in Disk(n)
    BY <1>3, <2>1 DEF KeptInv
  <2>3. n \in DOMAIN plain /\ x \in plain[n] => n \in DOMAIN plain' /\ x \in plain'[n]
    BY <1>4 DEF Extends
  <2> QED BY <1>2, <2>2, <2>3 DEF Disk
<1>7. QueueInv'
  <2>1. comp_elems = <<>> /\ comp.pc = "idle"
    BY <1>2 DEF QueueInv, Up
  <2>2. Len(comp_elems) = 0
    BY <2>1
  <2> QED BY <1>2, <2>1, <2>2 DEF QueueInv, Up
<1> QED BY <1>2, <1>3, <1>5, <1>6, <1>7
-----------------------------------------------------------------------------
(* The inductive invariant *)

LoggerInv == MemInv /\ PlaceInv /\ DiskInv

LEMMA LoggerInit == Init => LoggerInv
<1> SUFFICES ASSUME Init PROVE LoggerInv
  OBVIOUS
<1>1. /\ cursor = 0 /\ logs = [k \in Elems |-> LogElem]
      /\ th = [t \in Writers \cup {Flusher} |-> Idle] /\ flushing = NoThread
      /\ fs = "closed" /\ buf = {} /\ registered = FALSE /\ stage = "down"
      /\ comp_jobs = 0 /\ comp_elems = <<>> /\ comp = CompIdle
      /\ cur_revnum = 0 /\ min_revnum = 0 /\ plain = <<>> /\ tar = <<>> /\ ever = <<>>
      /\ put_lines = [t \in Writers |-> 0] /\ written = {} /\ gone = {}
  BY DEF Init, MemoryInit
<1>2. \A t \in Threads : th[t] = Idle /\ th[t].pc = "idle" /\ ~Flushes(t) /\ ~Claimed(t)
  <2>1. \A t \in Threads : th[t] = Idle /\ th[t].pc = "idle"
    BY <1>1 DEF Threads, Idle
  <2> QED BY <2>1 DEF Flushes, Claimed
<1>3. \A k \in Elems : logs[k].status = "CLEAN" /\ ~Full(logs[k])
  BY <1>1 DEF LogElem, Full
<1>4. TypeInv
  <2>1. th \in [Threads -> Frame]
    BY <1>1, Sorts DEF Threads
  <2>2. logs \in [Elems -> LogElems]
    BY <1>1 DEF LogElems, LogElem
  <2> QED BY <1>1, <2>1, <2>2, Sorts DEF TypeInv
<1>5. StageInv
  BY <1>1, <1>2, Sorts DEF StageInv
<1>6. LockInv /\ CopyInv
  BY <1>1, <1>2, <1>3, Sorts DEF LockInv, CopyInv
<1>7. NumberInv /\ LapInv /\ LastFlushInv
  BY <1>1, <1>2, Sorts DEF NumberInv, LapInv, LastFlushInv
<1>8. DOMAIN ever = {} /\ DOMAIN plain = {} /\ DOMAIN tar = {}
  BY <1>1
<1>9. EverLines = {}
  BY <1>8, EverLinesIs
<1>10. PlaceInv
  BY <1>1, <1>3, <1>8, <1>9 DEF PlaceInv
<1>11. FileInv /\ KeptInv
  BY <1>1, <1>8 DEF FileInv, NoneForgotten, Up, KeptInv
<1>12. QueueInv
  <2>1. comp_elems \in Seq(Nat) /\ Len(comp_elems) = 0
    BY <1>1
  <2>2. comp.pc = "idle" /\ comp \in [pc : {"idle", "tar", "rm", "expire"}, file : Nat]
    BY <1>1 DEF CompIdle
  <2> QED BY <1>1, <2>1, <2>2 DEF QueueInv
<1> QED BY <1>4, <1>5, <1>6, <1>7, <1>10, <1>11, <1>12 DEF LoggerInv, MemInv, DiskInv

(* A step of the ring that moves no line. *)
LEMMA RingOnly ==
  ASSUME LoggerInv, MemInv',
         \A j \in Elems : /\ Full(logs'[j]) <=> Full(logs[j])
                          /\ Full(logs[j]) => logs'[j].ctx = logs[j].ctx,
         Up, Up', fs' = "good" => fs = "good",
         UNCHANGED <<written, buf, ever, gone, plain, tar, cur_revnum, min_revnum, compVars>>
  PROVE  LoggerInv'
<1>1. UNCHANGED <<comp_jobs, comp_elems, comp>>
  BY DEF compVars
<1>2. gone \subseteq written
  BY DEF LoggerInv, PlaceInv
<1>3. PlaceInv'
  BY <1>2, PlaceFrame DEF LoggerInv
<1>4. DiskInv'
  BY <1>1, DiskFrame DEF LoggerInv
<1> QED BY <1>3, <1>4 DEF LoggerInv

LEMMA PutNext ==
  ASSUME LoggerInv, NEW t \in Writers, Put(t)
  PROVE  LoggerInv'
<1> USE DEF LoggerInv
<1>1. TypeInv /\ t \in Threads /\ th[t].elem \in Elems
  BY Sorts DEF MemInv, TypeInv, Frame
<1>2. CASE put_available(t)
  <2>1. /\ th[t].pc = "put" /\ Up /\ Moved(t, "check", th[t].elem, th[t].n)
        /\ UNCHANGED <<cursor, logs, flushing, fileVars, compVars, ctlVars, histVars>>
    BY <1>1, <1>2, GotoMoves DEF put_available, At, Pc
  <2>2. UNCHANGED <<fs, buf, cur_revnum, min_revnum, plain, tar, registered, stage, put_lines, written, ever, gone>>
    BY <2>1 DEF fileVars, ctlVars, histVars
  <2>3. MemInv'
    BY <2>1, <2>2, GotoStep
  <2> QED BY <2>1, <2>2, <2>3, RingOnly DEF Up
<1>3. CASE put_check(t)
  <2>1. PICK p \in {"full", "write"} : /\ p = IF needToFlush(Elem(t)) THEN "full" ELSE "write"
                                       /\ Goto(t, p)
    BY <1>3 DEF put_check
  <2>2. /\ th[t].pc = "check" /\ Up /\ Moved(t, p, th[t].elem, th[t].n)
        /\ UNCHANGED <<cursor, logs, flushing, fileVars, compVars, ctlVars, histVars>>
    BY <1>1, <1>3, <2>1, GotoMoves DEF put_check, At, Pc
  <2>3. UNCHANGED <<fs, buf, cur_revnum, min_revnum, plain, tar, registered, stage, put_lines, written, ever, gone>>
    BY <2>2 DEF fileVars, ctlVars, histVars
  <2>4. p = "write" => Elem(t).status # "DIRTY"
    BY <2>1 DEF needToFlush
  <2>5. MemInv'
    BY <2>2, <2>3, <2>4, GotoStep
  <2> QED BY <2>2, <2>3, <2>5, RingOnly DEF Up
<1>4. CASE put_flush(t)
  <2>1. /\ th[t].pc = "full" /\ Up
        /\ Moved(t, IF flushing = NoThread THEN "flush" ELSE "wait", th[t].elem, 0)
        /\ flushing' = IF flushing = NoThread THEN t ELSE flushing
        /\ UNCHANGED <<cursor, logs, fileVars, compVars, ctlVars, histVars>>
    BY <1>1, <1>4, StartMoves DEF put_flush, At, Pc
  <2>2. UNCHANGED <<fs, buf, cur_revnum, min_revnum, plain, tar, registered, stage, put_lines, written, ever, gone>>
    BY <2>1 DEF fileVars, ctlVars, histVars
  <2>3. MemInv'
    <3>1. CASE flushing = NoThread
      <4>1. Moved(t, "flush", th[t].elem, 0) /\ flushing' = t
        BY <2>1, <3>1
      <4> QED BY <2>1, <2>2, <3>1, <4>1, PutFlushStep
    <3>2. CASE flushing # NoThread
      <4>1. Moved(t, "wait", th[t].elem, 0) /\ flushing' = flushing
        BY <2>1, <3>2
      <4> QED BY <2>1, <2>2, <4>1, GotoStep
    <3> QED BY <3>1, <3>2
  <2> QED BY <2>1, <2>2, <2>3, RingOnly DEF Up
<1>5. CASE put_wait(t)
  <2>1. /\ th[t].pc = "wait" /\ Up /\ Moved(t, "write", th[t].elem, th[t].n) /\ Elem(t).status # "DIRTY"
        /\ UNCHANGED <<cursor, logs, flushing, fileVars, compVars, ctlVars, histVars>>
    BY <1>1, <1>5, GotoMoves DEF put_wait, At, Pc, needToFlush
  <2>2. UNCHANGED <<fs, buf, cur_revnum, min_revnum, plain, tar, registered, stage, put_lines, written, ever, gone>>
    BY <2>1 DEF fileVars, ctlVars, histVars
  <2>3. MemInv'
    BY <2>1, <2>2, GotoStep
  <2> QED BY <2>1, <2>2, <2>3, RingOnly DEF Up
<1>6. CASE write(t)
  <2>1. MemInv'
    BY <1>6, PutWriteStep
  <2>2. Up /\ UNCHANGED <<fs, buf, cur_revnum, min_revnum, plain, tar, stage, written, ever, gone, compVars>>
    BY <1>6 DEF write, At, fileVars, ctlVars, histVars
  <2>3. \A j \in Elems : /\ Full(logs'[j]) <=> Full(logs[j])
                         /\ Full(logs[j]) => logs'[j].ctx = logs[j].ctx
    <3>1. CASE UNCHANGED logs
      BY <3>1
    <3>2. CASE /\ Elem(t).status = "CLEAN"
               /\ logs' = [logs EXCEPT ![th[t].elem] = [status |-> "WRITING", ctx |-> Torn]]
      <4>1. PICK k \in Elems : k = th[t].elem
        BY <1>1
      <4>2. logs'[k].status = "WRITING" /\ logs[k].status = "CLEAN"
            /\ \A j \in Elems : j # k => logs'[j] = logs[j]
        BY <1>1, <3>2, <4>1 DEF TypeInv, Elem
      <4> QED BY <4>2 DEF Full
    <3> QED BY <1>6, <3>1, <3>2 DEF write
  <2> QED BY <2>1, <2>2, <2>3, RingOnly DEF Up
<1>7. CASE write_end(t)
  <2>1. MemInv' /\ Line(t) \notin written
    BY <1>7, PutWriteEndStep
  <2>2. PICK k \in Elems : k = th[t].elem
    BY <1>1
  <2>3. PICK line : line = Line(t)
    OBVIOUS
  <2>4. /\ Up /\ UNCHANGED <<fs, buf, cur_revnum, min_revnum, plain, tar, stage, ever, gone, compVars>>
        /\ written' = written \cup {line} /\ th[t].pc = "copy"
        /\ logs' = [logs EXCEPT ![k] = [status |-> "DIRTY", ctx |-> line]]
    BY <1>7, <2>2, <2>3 DEF write_end, At, fileVars, ctlVars
  <2>5. logs'[k].status = "DIRTY" /\ logs'[k].ctx = line /\ \A j \in Elems : j # k => logs'[j] = logs[j]
    BY <1>1, <2>4 DEF TypeInv
  <2>6. logs[k].status = "WRITING"
    BY <2>2, <2>4 DEF MemInv, CopyInv, Elem
  <2>7. PlaceInv'
    <3>1. Full(logs'[k]) /\ ~Full(logs[k])
      BY <2>5, <2>6 DEF Full
    <3>2. line \notin written
      BY <2>1, <2>3
    <3> QED BY <2>4, <2>5, <3>1, <3>2, PlaceWrite
  <2>8. DiskInv'
    <3>1. UNCHANGED <<comp_jobs, comp_elems, comp>>
      BY <2>4 DEF compVars
    <3> QED BY <2>4, <3>1, DiskFrame DEF Up
  <2> QED BY <2>1, <2>7, <2>8
<1> QED BY <1>2, <1>3, <1>4, <1>5, <1>6, <1>7 DEF Put

LEMMA FlushNext ==
  ASSUME LoggerInv, NEW t \in Threads, Flush(t)
  PROVE  LoggerInv'
<1> USE DEF LoggerInv
<1>1. TypeInv /\ Position(t) \in Elems
  BY PositionIn DEF MemInv
<1>2. PICK k \in Elems : k = Position(t)
  BY <1>1
<1>3. CASE flush_elem(t)
  <2>1. MemInv'
    BY <1>3, FlushElemStep
  <2>2. Up /\ UNCHANGED <<fs, buf, cur_revnum, min_revnum, plain, tar, stage, written, ever, gone, compVars>>
    BY <1>3 DEF flush_elem, At, fileVars, ctlVars, histVars
  <2>3. \A j \in Elems : /\ Full(logs'[j]) <=> Full(logs[j])
                         /\ Full(logs[j]) => logs'[j].ctx = logs[j].ctx
    <3>1. CASE UNCHANGED logs
      BY <3>1
    <3>2. CASE needToFlush(logs[k]) /\ SetStatus(k, "FLUSHING")
      <4>1. /\ logs[k].status = "DIRTY" /\ logs'[k].status = "FLUSHING" /\ logs'[k].ctx = logs[k].ctx
            /\ \A j \in Elems : j # k => logs'[j] = logs[j]
        BY <1>1, <3>2 DEF needToFlush, SetStatus, TypeInv, LogElems
      <4> QED BY <4>1 DEF Full
    <3> QED BY <1>2, <1>3, <3>1, <3>2 DEF flush_elem
  <2> QED BY <2>1, <2>2, <2>3, RingOnly DEF Up
<1>4. CASE flush_elem_end(t)
  <2>1. MemInv'
    BY <1>4, FlushElemEndStep
  <2>2. /\ Up /\ UNCHANGED <<cur_revnum, min_revnum, plain, tar, stage, written, ever, compVars>>
        /\ fs' = "good" => fs = "good"
        /\ th[t].pc = "out" /\ logs' = [logs EXCEPT ![k] = LogElem]
        /\ \/ buf' = buf \cup {logs[k].ctx} /\ gone' = gone
           \/ gone' = gone \cup {logs[k].ctx} /\ buf' = buf
           \/ gone' = gone \cup buf \cup {logs[k].ctx} /\ buf' = {}
    BY <1>2, <1>4 DEF flush_elem_end, At, ctlVars
  <2>3. logs'[k].status = "CLEAN" /\ \A j \in Elems : j # k => logs'[j] = logs[j]
    BY <1>1, <2>2 DEF TypeInv, LogElem
  <2>4. logs[k].status = "FLUSHING"
    BY <1>2, <2>2 DEF MemInv, LockInv
  <2>5. PlaceInv'
    <3>1. ~Full(logs'[k]) /\ Full(logs[k])
      BY <2>3, <2>4 DEF Full
    <3> QED BY <2>2, <2>3, <3>1, PlaceOut
  <2>6. DiskInv'
    <3>1. UNCHANGED <<comp_jobs, comp_elems, comp>> /\ gone \subseteq gone'
      BY <2>2 DEF compVars
    <3> QED BY <2>2, <3>1, DiskFrame DEF Up
  <2> QED BY <2>1, <2>5, <2>6
<1>5. CASE flush_end(t)
  <2>1. MemInv'
    BY <1>5, FlushEndStep
  <2>2. /\ Up /\ fs_flush /\ buf' = {}
        /\ UNCHANGED <<logs, min_revnum, tar, comp, stage, written, gone>>
    BY <1>5 DEF flush_end, At, ctlVars
  <2>3. CASE fs = "good"
    <3>1. DiskInv'
      BY <2>2, <2>3, DiskFlush
    <3>2. cur_revnum \in DOMAIN ever /\ Extends(ever, ever', cur_revnum, buf)
      BY <2>2, <2>3, FsFlushGood DEF DiskInv
    <3>3. PICK c \in DOMAIN ever : Extends(ever, ever', c, buf)
      BY <3>2
    <3>4. PlaceInv'
      BY <2>2, <3>3, PlaceFlush
    <3> QED BY <2>1, <3>1, <3>4
  <2>4. CASE fs # "good"
    <3>1. UNCHANGED <<fs, plain, cur_revnum, comp_jobs, comp_elems, ever>>
      BY <2>2, <2>4 DEF fs_flush
    <3>2. buf' = buf
      BY <2>2, <2>4 DEF MemInv, LockInv
    <3> QED BY <2>1, <2>2, <3>1, <3>2, RingOnly DEF Up, compVars
  <2> QED BY <2>3, <2>4
<1> QED BY <1>3, <1>4, <1>5 DEF Flush

LEMMA CompressNext ==
  ASSUME LoggerInv, CompressThread
  PROVE  LoggerInv'
<1> USE DEF LoggerInv
<1>1. /\ UNCHANGED <<ringVars, fs, buf, ctlVars, put_lines, written, ever>>
      /\ ~compress_tar => UNCHANGED gone
  BY DEF CompressThread, compressWorker, compress_tar, compress_rm, compress_expire, compress_end,
         fileVars, histVars
<1>2. UNCHANGED <<cursor, logs, th, flushing, registered, stage>>
  BY <1>1 DEF ringVars, ctlVars
<1>3. MemInv'
  BY <1>1, <1>2, MemFrame
<1>4. DiskInv'
  BY DiskCompressWorker, DiskCompressTar, DiskCompressRm, DiskCompressExpire, DiskCompressEnd
     DEF CompressThread
<1>5. gone \subseteq gone' /\ gone' \subseteq gone \cup EverLines
  BY <1>1, DiskCompressTar
<1>6. PlaceInv'
  <2>1. gone' \subseteq written
    BY <1>5 DEF PlaceInv
  <2> QED BY <1>1, <1>2, <1>5, <2>1, PlaceFrame
<1> QED BY <1>3, <1>4, <1>6

LEMMA ExitNext ==
  ASSUME LoggerInv, exit
  PROVE  LoggerInv'
<1> USE DEF LoggerInv
<1>1. MemInv'
  BY ExitStep DEF MemInv
<1>2. DiskInv'
  BY DiskExit
<1>3. PlaceInv'
  <2>1. \A k \in Elems : ~Full(logs'[k])
    BY DEF exit, LogElem, Full
  <2> QED BY <2>1, PlaceExit DEF exit
<1> QED BY <1>1, <1>2, <1>3

LEMMA StartNext ==
  ASSUME LoggerInv, start
  PROVE  LoggerInv'
<1> USE DEF LoggerInv
<1>1. MemInv'
  BY StartStep
<1>2. DiskInv' /\ Extends(ever, ever', cur_revnum', {})
  BY DiskStart
<1>3. PlaceInv'
  <2>1. UNCHANGED <<logs, buf, written, gone>> /\ stage = "down"
    BY DEF start, ringVars
  <2>2. \A t \in Threads : th[t].pc = "idle"
    BY <2>1 DEF MemInv, StageInv
  <2>3. buf = {}
    BY <2>2, AllIdle DEF MemInv
  <2>4. CASE DOMAIN ever = {}
    <3>1. EverLines = {} /\ EverLines' = {}
      BY <1>2, <2>4, EverLinesIs, EverLinesIsPrime DEF Extends
    <3>2. \A m \in DOMAIN ever' : ever'[m] = {}
      BY <1>2, <2>4 DEF Extends
    <3> QED BY <2>1, <3>1, <3>2 DEF PlaceInv
  <2>5. CASE DOMAIN ever # {}
    <3>1. PICK n \in DOMAIN ever : TRUE
      BY <2>5
    <3>2. Extends(ever, ever', n, {})
      BY <1>2 DEF Extends
    <3> QED BY <2>1, <2>3, <3>1, <3>2, PlaceFlush
  <2> QED BY <2>4, <2>5
<1> QED BY <1>1, <1>2, <1>3

LEMMA LoggerNext == LoggerInv /\ [Next]_vars => LoggerInv'
<1> SUFFICES ASSUME LoggerInv, [Next]_vars PROVE LoggerInv'
  OBVIOUS
<1> USE DEF LoggerInv
<1>1. ASSUME NEW t \in Callers, put(t) PROVE LoggerInv'
  <2>1. stage = "run" /\ stage' = "run" /\ claim(t)
    BY <1>1 DEF put
  <2>2. MemInv'
    BY <2>1, ClaimStep, Sorts
  <2> QED BY <2>1, <2>2, RingOnly DEF claim, Up, fileVars
<1>2. ASSUME NEW t \in Writers, Put(t) \/ Flush(t) PROVE LoggerInv'
  BY <1>2, PutNext, FlushNext, Sorts
<1>3. CASE FlushThread
  <2>1. CASE flushWorker
    <3>1. /\ Up /\ registered /\ th[Flusher].pc = "idle" /\ start_flush(Flusher, cursor, "idle")
          /\ UNCHANGED <<cursor, logs, fs, buf, cur_revnum, min_revnum, plain, tar, compVars,
                         registered, stage, put_lines, written, ever, gone>>
      BY <2>1 DEF flushWorker, At, fileVars, ctlVars, histVars
    <3>2. stage \in {"run", "remove", "returned"}
      BY <3>1 DEF MemInv, StageInv, Up
    <3>3. MemInv'
      BY <3>1, <3>2, FlushAllStep
    <3> QED BY <3>1, <3>3, RingOnly DEF Up
  <2>2. CASE Flush(Flusher)
    BY <2>2, FlushNext, Sorts
  <2> QED BY <1>3, <2>1, <2>2 DEF FlushThread
<1>4. CASE CompressThread
  BY <1>4, CompressNext
<1>5. CASE start
  BY <1>5, StartNext
<1>6. CASE destroy
  <2>1. /\ stage = "run" /\ stage' = "remove" /\ start_flush(Owner, cursor, "idle")
        /\ (\A u \in Callers : th[u].pc = "idle") /\ th[Owner].pc = "idle"
        /\ UNCHANGED <<cursor, logs, fs, buf, cur_revnum, min_revnum, plain, tar, compVars,
                       registered, put_lines, written, ever, gone>>
    BY <1>6 DEF destroy, fileVars, histVars, MemInv, StageInv
  <2>2. MemInv'
    BY <2>1, FlushAllStep
  <2> QED BY <2>1, <2>2, RingOnly DEF Up
<1>7. CASE Stop
  <2>1. CASE stop_removeLogger \/ stop_close \/ stop_not_open \/ (stop_put /\ fs # "good")
    <3>1. MemInv'
      BY <2>1, StopStep, StopReturnsStep
    <3>2. /\ Up /\ Up' /\ (fs' = "good" => fs = "good")
          /\ UNCHANGED <<logs, written, buf, ever, gone, plain, tar, cur_revnum, min_revnum, compVars>>
      BY <2>1 DEF stop_removeLogger, stop_close, stop_not_open, stop_put, Up, ringVars, fileVars, histVars
    <3> QED BY <3>1, <3>2, RingOnly
  <2>2. CASE stop_wait
    BY <2>2, ExitNext DEF stop_wait
  <2>3. CASE stop_put /\ fs = "good"
    <3>1. stage = "line" /\ stage' = "put" /\ claim(Owner)
      BY <2>3 DEF stop_put
    <3>2. MemInv'
      BY <3>1, ClaimStep, Sorts
    <3> QED BY <3>1, <3>2, RingOnly DEF claim, Up, fileVars
  <2>4. CASE stop_flushAll
    <3>1. /\ stage = "put" /\ stage' = "close" /\ start_flush(Owner, cursor, "idle")
          /\ th[Owner].pc = "idle"
          /\ UNCHANGED <<cursor, logs, fs, buf, cur_revnum, min_revnum, plain, tar, compVars,
                         registered, put_lines, written, ever, gone>>
      BY <2>4 DEF stop_flushAll, fileVars, histVars
    <3>2. MemInv'
      BY <3>1, FlushAllStep
    <3> QED BY <3>1, <3>2, RingOnly DEF Up
  <2> QED BY <1>7, <2>1, <2>2, <2>3, <2>4 DEF Stop
<1>8. CASE process_end \/ crash
  BY <1>8, ExitNext DEF process_end, crash
<1>9. CASE UNCHANGED vars
  <2>1. UNCHANGED <<cursor, logs, th, flushing, fs, buf, registered, stage, put_lines, written, ever, gone,
                    plain, tar, cur_revnum, min_revnum, comp_jobs, comp_elems, comp>>
    BY <1>9 DEF vars, ringVars, fileVars, compVars, ctlVars, histVars
  <2>2. MemInv'
    BY <2>1, MemFrame
  <2>3. gone \subseteq written
    BY DEF PlaceInv
  <2>4. PlaceInv'
    BY <2>1, <2>3, PlaceFrame
  <2>5. DiskInv'
    BY <2>1, DiskFrame DEF Up
  <2> QED BY <2>2, <2>4, <2>5
<1> QED BY <1>1, <1>2, <1>3, <1>4, <1>5, <1>6, <1>7, <1>8, <1>9 DEF Next
-----------------------------------------------------------------------------
(* The theorems *)

LEMMA LoggerInvariant == Spec => []LoggerInv
<1>1. Init => LoggerInv
  BY LoggerInit
<1>2. LoggerInv /\ [Next]_vars => LoggerInv'
  BY LoggerNext
<1> QED BY <1>1, <1>2, PTL DEF Spec

LEMMA LinesInRing == \A x : x \in RingLines <=> \E k \in Elems : Full(logs[k]) /\ logs[k].ctx = x
BY DEF RingLines, Full

(* The ring, the threads and the files have their types, and numCompJobs   *)
(* counts the compression jobs that are queued or under way.               *)
THEOREM LoggerTypeCorrect == Spec => []LoggerTypeOK
<1>1. LoggerInv => LoggerTypeOK
  <2> SUFFICES ASSUME LoggerInv PROVE LoggerTypeOK
    OBVIOUS
  <2> USE DEF LoggerInv
  <2>1. /\ cursor \in Elems /\ fs \in {"closed", "good", "failed", "bad"} /\ registered \in BOOLEAN
        /\ th \in [Writers \cup {Flusher} ->
                   [pc : {"idle", "put", "check", "full", "wait", "write", "copy", "flush", "out"},
                    elem : Elems, n : 0 .. NumElems, lapped : BOOLEAN]]
        /\ logs \in [Elems -> [status : {"CLEAN", "WRITING", "DIRTY", "FLUSHING"},
                               ctx : Lines \cup {Torn}]]
    BY DEF MemInv, TypeInv, Threads, Frame, Pc, LogElems
  <2>2. flushing \in Writers \cup {Flusher, NoThread}
    BY DEF MemInv, TypeInv, Threads
  <2>3. stage \in {"down", "run", "remove", "returned", "line", "put", "close", "wait"}
    BY DEF MemInv, StageInv
  <2>4. buf \cup written \cup gone \subseteq Lines \cup {Torn}
    BY DEF MemInv, NumberInv, PlaceInv
  <2>5. /\ comp \in [pc : {"idle", "tar", "rm", "expire"}, file : Nat]
        /\ comp_jobs = Len(comp_elems) + (IF comp.pc = "idle" THEN 0 ELSE 1)
        /\ cur_revnum \in Nat /\ min_revnum \in Nat
    BY DEF DiskInv, QueueInv, FileInv
  <2> QED BY <2>1, <2>2, <2>3, <2>4, <2>5 DEF LoggerTypeOK
<1> QED BY <1>1, LoggerInvariant, PTL

(* Whatever the callers and the two threads of the manager do, a file gets *)
(* whole lines only, and each of them once: LogElem's status keeps flushes *)
(* out of an element that is being written.                                *)
THEOREM WholeLinesCorrect == Spec => []WholeLinesOnce
<1>1. LoggerInv => WholeLinesOnce
  <2> SUFFICES ASSUME LoggerInv PROVE WholeLinesOnce
    OBVIOUS
  <2> USE DEF LoggerInv
  <2>1. Torn \notin buf \cup EverLines
    BY Sorts DEF MemInv, NumberInv, PlaceInv
  <2>2. \A n \in DOMAIN ever : ever[n] \cap (buf \cup RingLines) = {}
    <3> SUFFICES ASSUME NEW n \in DOMAIN ever, NEW x \in ever[n], x \in buf \cup RingLines
                 PROVE  FALSE
      OBVIOUS
    <3>1. x \in EverLines
      BY EverLinesIs
    <3> QED BY <3>1, LinesInRing DEF PlaceInv
  <2>3. \A m, n \in DOMAIN ever : m # n => ever[m] \cap ever[n] = {}
    BY DEF PlaceInv
  <2> QED BY <2>1, <2>2, <2>3 DEF WholeLinesOnce, EverLines
<1> QED BY <1>1, LoggerInvariant, PTL

(* A line that was written stays in the ring, in the stream or in its file *)
(* until the file expires, packing and restarts included, or is among the  *)
(* ones lost to a crash, a failed stream or a failed packing.              *)
THEOREM WrittenCorrect == Spec => []WrittenIsKept
<1>1. LoggerInv => WrittenIsKept
  <2> SUFFICES ASSUME LoggerInv PROVE WrittenIsKept
    OBVIOUS
  <2> USE DEF LoggerInv
  <2>1. written \subseteq RingLines \cup buf \cup gone \cup EverLines
    BY LinesInRing DEF PlaceInv
  <2>2. KeptInv
    BY DEF DiskInv
  <2> QED BY <2>1, <2>2 DEF WrittenIsKept, KeptInv, EverLines
<1> QED BY <1>1, LoggerInvariant, PTL

(* findMaxRevNum counts a packed file as one more: a restarted logger      *)
(* never appends to a number that is packed already.                       *)
THEOREM PackedCorrect == Spec => []PackedIsFinal
<1>1. LoggerInv => PackedIsFinal
  BY DEF LoggerInv, DiskInv, FileInv, PackedIsFinal
<1> QED BY <1>1, LoggerInvariant, PTL

(* findMinRevNum finds the oldest file and doCompression removes them in   *)
(* order: none is left behind.                                             *)
THEOREM NoneForgottenCorrect == Spec => []NoneForgotten
<1>1. LoggerInv => NoneForgotten
  BY DEF LoggerInv, DiskInv, FileInv
<1> QED BY <1>1, LoggerInvariant, PTL

(* The destructor's last flushAll finds the lock free and leaves no line   *)
(* in the ring or in the stream.                                           *)
THEOREM StoppedCorrect == Spec => []StoppedIsFlushed
<1>1. LoggerInv => StoppedIsFlushed
  <2> SUFFICES ASSUME LoggerInv, stage = "wait"
               PROVE  RingLines = {} /\ buf = {} /\ flushing = NoThread
    BY DEF StoppedIsFlushed
  <2> USE DEF LoggerInv
  <2>1. \A t \in Threads : th[t].pc = "idle"
    BY DEF MemInv, StageInv, Threads, Writers
  <2>2. buf = {} /\ flushing = NoThread
    BY <2>1, AllIdle DEF MemInv
  <2>3. \A k \in Elems : ~Full(logs[k])
    BY <2>1, Sorts DEF MemInv, LastFlushInv
  <2> QED BY <2>2, <2>3, LinesInRing
<1> QED BY <1>1, LoggerInvariant, PTL

(* Only write itself makes a thread give up its line. *)
LEMMA OnlyWriteDrops ==
  ASSUME LoggerInv, Next, NEW t \in Writers,
         th[t].pc = "write", th'[t].pc = "idle", stage' # "down"
  PROVE  write(t)
<1>1. TypeInv /\ t \in Threads /\ DOMAIN th = Threads /\ th[t] \in Frame
  BY Sorts DEF LoggerInv, MemInv, TypeInv
<1>2. ASSUME NEW u \in Writers, claim(u) PROVE FALSE
  <2>1. u # t
    BY <1>2 DEF claim
  <2>2. PICK l : th'[t] = [th[t] EXCEPT !.lapped = l]
    BY <1>1, <1>2, <2>1 DEF claim
  <2>3. th'[t].pc = th[t].pc
    BY <1>1, <2>2 DEF Frame
  <2> QED BY <2>3
<1>3. ASSUME NEW u \in Threads, u # t, NEW p, NEW e, NEW n, Moved(u, p, e, n) \/ Returned(u)
      PROVE  FALSE
  BY <1>1, <1>3 DEF Moved, Returned
<1>4. ASSUME NEW u \in Threads, NEW e, NEW p, start_flush(u, e, p), th[u].pc # "write" PROVE FALSE
  <2>1. u # t
    BY <1>4
  <2>2. th'[t] = th[t]
    BY <1>1, <1>4, <2>1 DEF start_flush
  <2> QED BY <2>2
<1>5. ASSUME NEW u \in Writers, Put(u) PROVE write(t)
  <2>1. u \in Threads
    BY Sorts
  <2>2. CASE u = t
    BY <1>5, <2>2 DEF Put, put_available, put_check, put_flush, put_wait, write_end, At
  <2>3. CASE u # t
    <3>1. th'[t] = th[t]
      BY <1>1, <1>5, <2>1, <2>3 DEF Put, put_available, put_check, put_flush, put_wait, write, write_end,
                                   Goto, Return, start_flush
    <3> QED BY <3>1
  <2> QED BY <2>2, <2>3
<1>6. ASSUME NEW u \in Threads, Flush(u) PROVE FALSE
  <2>1. u # t
    BY <1>6 DEF Flush, flush_elem, flush_elem_end, flush_end, At
  <2>2. th'[t] = th[t]
    BY <1>1, <1>6, <2>1 DEF Flush, flush_elem, flush_elem_end, flush_end, flush_return, Goto, Return
  <2> QED BY <2>2
<1>7. UNCHANGED th => FALSE
  OBVIOUS
<1>8. CompressThread => UNCHANGED th
  BY DEF CompressThread, compressWorker, compress_tar, compress_rm, compress_expire, compress_end, ringVars
<1>9. FlushThread => FALSE
  <2>1. flushWorker => FALSE
    BY <1>4, Sorts DEF flushWorker, At
  <2> QED BY <1>6, <2>1, Sorts DEF FlushThread
<1>10. start => UNCHANGED th
  BY DEF start, ringVars
<1>11. destroy => FALSE
  <2> SUFFICES ASSUME destroy PROVE FALSE
    OBVIOUS
  <2>1. th[Owner].pc = "idle" /\ start_flush(Owner, cursor, "idle")
    BY DEF destroy, LoggerInv, MemInv, StageInv
  <2> QED BY <1>4, <2>1, Sorts
<1>12. Stop => FALSE
  <2>1. stop_removeLogger \/ stop_close \/ stop_not_open => UNCHANGED th
    BY DEF stop_removeLogger, stop_close, stop_not_open, ringVars
  <2>2. stop_wait => FALSE
    BY DEF stop_wait, exit
  <2>3. stop_put => FALSE
    BY <1>2, <1>7, Sorts DEF stop_put, ringVars
  <2>4. stop_flushAll => FALSE
    BY <1>4, Sorts DEF stop_flushAll
  <2> QED BY <1>7, <2>1, <2>2, <2>3, <2>4 DEF Stop
<1>13. process_end \/ crash => FALSE
  BY DEF process_end, crash, exit
<1>14. ASSUME NEW u \in Callers, put(u) PROVE FALSE
  BY <1>2, <1>14, Sorts DEF put
<1> QED BY <1>5, <1>6, <1>7, <1>8, <1>9, <1>10, <1>11, <1>12, <1>13, <1>14, Sorts DEF Next

(* put gives up a line only if the element is being flushed at that very   *)
(* moment or another thread, a round of the ring away, has it too: a       *)
(* thread that is alone with its element finds it clean after its flush.   *)
THEOREM DroppedCorrect == Spec => DroppedOnlyIfLapped
<1>1. LoggerInv /\ [Next]_vars =>
        [\A t \in Writers : th[t].pc = "write" /\ th'[t].pc = "idle" /\ stage' # "down"
                              => th[t].lapped \/ Elem(t).status = "FLUSHING"]_vars
  <2> SUFFICES ASSUME LoggerInv, Next, NEW t \in Writers,
                      th[t].pc = "write", th'[t].pc = "idle", stage' # "down", ~th[t].lapped
               PROVE  Elem(t).status = "FLUSHING"
    BY Zenon
  <2>1. write(t)
    BY OnlyWriteDrops
  <2>2. Elem(t).status \in {"CLEAN", "FLUSHING"}
    BY DEF LoggerInv, MemInv, LapInv, Claimed
  <2>3. Elem(t).status # "CLEAN"
    <3> SUFFICES ASSUME Elem(t).status = "CLEAN" PROVE FALSE
      OBVIOUS
    <3>1. Goto(t, "copy") /\ TypeInv /\ t \in Threads
      BY <2>1, Sorts DEF write, LoggerInv, MemInv
    <3>2. th'[t].pc = "copy"
      BY <3>1, GotoMoves DEF Moved, Pc
    <3> QED BY <3>2
  <2> QED BY <2>2, <2>3
<1> QED BY <1>1, LoggerInvariant, PTL DEF Spec, DroppedOnlyIfLapped
=============================================================================
