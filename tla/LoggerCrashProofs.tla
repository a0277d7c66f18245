------------------------- MODULE LoggerCrashProofs --------------------------
(***************************************************************************)
(* Proofs about the crash handler, for any number of callers, elements,    *)
(* lines and rounds of the abort timer.                                    *)
(***************************************************************************)
EXTENDS LoggerCrash, SimpleLoggerProofs

(* The ring, its lock and the numbers of its lines, whatever the stage. *)
CoreInv == TypeInv /\ LockInv /\ CopyInv /\ NumberInv

Handlers ==
  [pc : {"none", "display", "msg", "put", "flush", "explore", "sent", "suspend", "done"},
   victim : Threads \cup {NoThread},
   msg : {"fault", "critical", "captured", "disabled", "gotall", "stack"},
   todo : SUBSET Callers, asked : Callers \cup {NoThread}, answered : BOOLEAN]

(* The handler has the frame of Owner while it puts a line or flushes. *)
HandlerInv ==
  /\ h \in Handlers
  /\ stage \in {"down", "run", "put"}
  /\ stage = "down" => \A t \in Threads : th[t].pc = "idle"
  /\ h.pc \notin {"put", "flush"} => th[Owner].pc = "idle"
  /\ Up => (stage = "put" <=> h.pc = "put")
  /\ at_crash \subseteq written
  /\ abort_timer \in Nat
  /\ ~Crashed => ~flushed /\ abort_timer = 0

(* The line is in the ring where the handler's flush has yet to come. *)
Ahead(x) ==
  \E j \in 0 .. NumElems - 1 :
    /\ j >= th[Owner].n
    /\ Full(logs[(th[Owner].elem + j) % NumElems])
    /\ logs[(th[Owner].elem + j) % NumElems].ctx = x

(* A flush of the handler that was not skipped has brought the lines to    *)
(* the files, or is under way to it.                                       *)
SafeInv ==
  flushed =>
    \/ at_crash \subseteq EverLines \cup gone
    \/ /\ h.pc = "flush" /\ Flushes(Owner)
       /\ \A x \in at_crash : x \in buf \cup EverLines \cup gone \/ Ahead(x)

(* Without faults the stream takes every line. *)
GoodInv ==
  /\ faults \in Nat
  /\ MaxFaults = 0 => /\ Up \/ ~Crashed => gone = {}
                      /\ Up => fs = "good"
-----------------------------------------------------------------------------
(* The ring and the files under the steps the two modules share *)

CrashRing == CoreInv /\ PlaceInv /\ DiskInv

LEMMA CoreQuiet ==
  ASSUME CoreInv, TypeInv', \A u \in Threads : Stays(u),
         \A u \in Writers : Claimed(u)' => Claimed(u),
         UNCHANGED <<logs, flushing, fs, buf, written, put_lines>>
  PROVE  CoreInv'
<1>1. flushing' = NoThread \/ fs' # "good" => buf' = {}
  BY DEF CoreInv, LockInv
<1>2. LockInv' /\ CopyInv'
  BY <1>1, QuietStep DEF CoreInv
<1>3. NumberInv'
  BY NumberStep DEF CoreInv
<1> QED BY <1>2, <1>3 DEF CoreInv

(* A step that changes neither files nor places of lines. *)
LEMMA CrashRingOnly ==
  ASSUME CrashRing, CoreInv',
         \A j \in Elems : /\ Full(logs'[j]) <=> Full(logs[j])
                          /\ Full(logs[j]) => logs'[j].ctx = logs[j].ctx,
         Up, Up', fs' = "good" => fs = "good",
         UNCHANGED <<written, buf, ever, gone, plain, tar, cur_revnum, min_revnum, compVars>>
  PROVE  CrashRing'
<1>1. UNCHANGED <<comp_jobs, comp_elems, comp>>
  BY DEF compVars
<1>2. gone \subseteq written
  BY DEF CrashRing, PlaceInv
<1>3. PlaceInv'
  BY <1>2, PlaceFrame DEF CrashRing
<1>4. DiskInv'
  BY <1>1, DiskFrame DEF CrashRing
<1> QED BY <1>3, <1>4 DEF CrashRing

LEMMA CrashClaim ==
  ASSUME CrashRing, NEW t \in Writers, claim(t), t = Owner \/ stage' = stage, Up, Up'
  PROVE  CrashRing'
<1> USE DEF CrashRing, CoreInv
<1>1. /\ TypeInv' /\ th'[t].pc = "put"
      /\ \A u \in Threads : u # t =>
           th'[u].pc = th[u].pc /\ th'[u].elem = th[u].elem /\ th'[u].n = th[u].n
  BY ClaimMoves
<1>2. /\ t \in Threads /\ th[t].pc = "idle"
      /\ UNCHANGED <<logs, flushing, fs, buf, written, ever, gone, plain, tar, cur_revnum, min_revnum, compVars>>
  BY Sorts DEF claim, fileVars
<1>3. LockInv' /\ CopyInv'
  <2>1. \A u \in Threads : Stays(u)
    BY <1>1, <1>2 DEF Stays, QuietPc
  <2>2. flushing' = NoThread \/ fs' # "good" => buf' = {}
    BY <1>2 DEF LockInv
  <2> QED BY <1>1, <1>2, <2>1, <2>2, QuietStep
<1>4. \A u \in Writers : u # t => (Claimed(u)' <=> Claimed(u))
  <2> SUFFICES ASSUME NEW u \in Writers, u # t PROVE Claimed(u)' <=> Claimed(u)
    OBVIOUS
  <2>1. th'[u].pc = th[u].pc /\ (u \in Callers \/ u = Owner) /\ (u = Owner => stage' = stage)
    BY <1>1, Sorts DEF Writers
  <2> QED BY <2>1 DEF Claimed, Flushes
<1>5. NumberInv'
  <2>1. put_lines'[t] = put_lines[t] + 1 /\ put_lines[t] \in Nat
        /\ \A u \in Writers : u # t => put_lines'[u] = put_lines[u]
    BY DEF claim, TypeInv
  <2>2. \A x \in written : x[1] \in Writers /\ x[2] \in Nat
    BY DEF NumberInv, Lines
  <2>3. \A x \in written : x[2] <= put_lines'[x[1]] /\ (Claimed(x[1])' => x[2] < put_lines'[x[1]])
    <3> SUFFICES ASSUME NEW x \in written
                 PROVE  x[2] <= put_lines'[x[1]] /\ (Claimed(x[1])' => x[2] < put_lines'[x[1]])
      OBVIOUS
    <3>1. CASE x[1] = t
      BY <3>1, <2>1, <2>2 DEF NumberInv
    <3>2. CASE x[1] # t
      BY <3>2, <2>1, <2>2, <1>4 DEF NumberInv
    <3> QED BY <3>1, <3>2
  <2>4. \A u \in Writers : Claimed(u)' => put_lines'[u] > 0
    <3> SUFFICES ASSUME NEW u \in Writers, Claimed(u)' PROVE put_lines'[u] > 0
      OBVIOUS
    <3>1. CASE u = t
      BY <3>1, <2>1
    <3>2. CASE u # t
      BY <3>2, <2>1, <1>4 DEF NumberInv
    <3> QED BY <3>1, <3>2
  <2> QED BY <1>2, <2>3, <2>4 DEF NumberInv
<1> QED BY <1>1, <1>2, <1>3, <1>5, CrashRingOnly

(* A flush that is started, or skipped because another one is under way. *)
LEMMA CrashStartFlush ==
  ASSUME CrashRing, NEW t \in Threads, NEW e \in Elems, NEW p \in {"idle", "wait"},
         start_flush(t, e, p), th[t].pc = IF p = "wait" THEN "full" ELSE "idle",
         stage' = stage \/ (t = Owner /\ stage' # "put"), Up, Up', p = "wait" => stage' = stage,
         UNCHANGED <<cursor, logs, fileVars, compVars, registered, put_lines, written, ever, gone>>,
         t = Flusher => p = "idle", p = "idle" => t \in {Owner, Flusher}, t = Owner /\ p = "idle" => stage' # "put"
  PROVE  CrashRing'
<1> USE DEF CrashRing, CoreInv
<1>1. PICK q \in {"flush", p} : /\ q = IF flushing = NoThread THEN "flush" ELSE p
                                /\ Moved(t, q, e, 0)
                                /\ flushing' = IF flushing = NoThread THEN t ELSE flushing
  BY StartMoves DEF Pc
<1>2. th'[t].pc = q /\ (\A u \in Threads : u # t => th'[u] = th[u]) /\ th[t].pc \in QuietPc
  BY <1>1 DEF Moved, QuietPc
<1>3. UNCHANGED <<fs, buf, cur_revnum, min_revnum, plain, tar>>
  BY DEF fileVars
<1>4. TypeInv'
  <2>1. flushing' \in Threads \cup {NoThread}
    BY <1>1 DEF TypeInv
  <2> QED BY <1>1, <1>3, <2>1 DEF Moved, TypeInv
<1>5. LockInv' /\ CopyInv'
  <2>1. CASE flushing = NoThread
    <3>1. Moved(t, "flush", e, 0) /\ flushing' = t
      BY <1>1, <2>1
    <3> QED BY <1>2, <1>3, <2>1, <3>1, TakeLockStep
  <2>2. CASE flushing # NoThread
    <3>1. \A u \in Threads : Stays(u)
      BY <1>1, <1>2, <2>2 DEF Stays, QuietPc
    <3>2. flushing' = flushing
      BY <1>1, <2>2
    <3>3. flushing' = NoThread \/ fs' # "good" => buf' = {}
      BY <1>3, <3>2 DEF LockInv
    <3> QED BY <1>4, <3>1, <3>2, <3>3, QuietStep
  <2> QED BY <2>1, <2>2
<1>6. \A u \in Writers : Claimed(u)' => Claimed(u)
  <2> SUFFICES ASSUME NEW u \in Writers, Claimed(u)' PROVE Claimed(u)
    OBVIOUS
  <2>1. CASE u = t
    <3>1. CASE p = "wait"
      BY <2>1, <3>1 DEF Claimed
    <3>2. CASE p = "idle"
      <4>1. t = Owner /\ t \notin Callers /\ stage' # "put"
        BY <2>1, <3>2, Sorts
      <4> QED BY <1>2, <2>1, <3>2, <4>1 DEF Claimed, Flushes
    <3> QED BY <3>1, <3>2
  <2>2. CASE u # t
    <3>1. th'[u] = th[u] /\ (u = Owner => stage' = stage)
      BY <1>2, <2>2, Sorts
    <3> QED BY <3>1 DEF Claimed, Flushes
  <2> QED BY <2>1, <2>2
<1>7. NumberInv'
  BY <1>6, NumberStep
<1> QED BY <1>3, <1>4, <1>5, <1>7, CrashRingOnly

(* A thread inside put that has no element of the ring in its hands moves  *)
(* on, or returns.                                                         *)
LEMMA CoreGoto ==
  ASSUME CoreInv, NEW t \in Writers, th[t].pc \in {"put", "check", "full", "wait", "write"},
         NEW p \in {"check", "full", "wait", "write"}, NEW e, NEW n, Moved(t, p, e, n) \/ Returned(t),
         UNCHANGED <<cursor, logs, flushing, fs, buf, registered, stage, put_lines, written>>
  PROVE  CoreInv'
<1> USE DEF CoreInv
<1>1. t \in Threads /\ th'[t].pc \in QuietPc /\ \A u \in Threads : u # t => th'[u] = th[u]
  BY Sorts DEF Moved, Returned, Idle, QuietPc
<1>2. TypeInv'
  BY DEF Moved, Returned, TypeInv
<1>3. \A u \in Threads : Stays(u)
  BY <1>1 DEF Stays, QuietPc
<1>4. \A u \in Writers : Claimed(u)' => Claimed(u)
  BY <1>1, Sorts DEF Claimed, Flushes
<1> QED BY <1>2, <1>3, <1>4, CoreQuiet

LEMMA CoreWrite ==
  ASSUME CoreInv, NEW t \in Writers, write(t)
  PROVE  CoreInv'
<1> USE DEF CoreInv
<1>1. /\ t \in Threads /\ th[t].pc = "write"
      /\ UNCHANGED <<cursor, flushing, fs, buf, registered, stage, put_lines, written>>
  BY Sorts DEF write, At, fileVars, ctlVars, histVars
<1>2. PICK k \in Elems : k = th[t].elem
  BY <1>1 DEF TypeInv, Frame
<1>3. CASE logs[k].status = "CLEAN"
  <2>1. /\ logs' = [logs EXCEPT ![k] = [status |-> "WRITING", ctx |-> Torn]]
        /\ Moved(t, "copy", k, th[t].n)
    BY <1>1, <1>2, <1>3, GotoMoves DEF write, Elem, Pc
  <2>2. TypeInv'
    <3>1. logs' \in [Elems -> LogElems]
      BY <2>1 DEF TypeInv, LogElems
    <3> QED BY <1>1, <2>1, <3>1 DEF Moved, TypeInv
  <2>3. LockInv' /\ CopyInv'
    BY <1>1, <1>2, <1>3, <2>1, WriteStep
  <2>4. \A u \in Writers : Claimed(u)' => Claimed(u)
    BY <1>1, <2>1, ClaimedStays, Sorts DEF Claimed
  <2>5. NumberInv'
    BY <1>1, <2>4, NumberStep
  <2> QED BY <2>2, <2>3, <2>5
<1>4. CASE logs[k].status # "CLEAN"
  <2>1. logs' = logs /\ Returned(t)
    BY <1>1, <1>2, <1>4, ReturnMoves DEF write, Elem
  <2> QED BY <1>1, <2>1, CoreGoto
<1> QED BY <1>3, <1>4

LEMMA CoreWriteEnd ==
  ASSUME CoreInv, NEW t \in Writers, write_end(t)
  PROVE  CoreInv' /\ Line(t) \notin written
<1> USE DEF CoreInv
<1>1. /\ t \in Threads /\ th[t].pc = "copy" /\ Returned(t)
      /\ UNCHANGED <<cursor, flushing, fs, buf, registered, stage, put_lines>>
      /\ written' = written \cup {Line(t)}
  BY Sorts, ReturnMoves DEF write_end, At, fileVars, ctlVars
<1>2. PICK k \in Elems : k = th[t].elem
  BY <1>1 DEF TypeInv, Frame
<1>3. Claimed(t)
  BY <1>1 DEF Claimed
<1>4. logs' = [logs EXCEPT ![k] = [status |-> "DIRTY", ctx |-> Line(t)]]
  BY <1>2 DEF write_end
<1>5. /\ Line(t) \in Lines /\ Line(t) \notin written
      /\ Line(t)[1] = t /\ Line(t)[2] = put_lines[t] /\ put_lines[t] \in Nat
  <2>1. put_lines[t] \in Nat /\ put_lines[t] > 0
    BY <1>3 DEF NumberInv, TypeInv
  <2>2. Line(t) = <<t, put_lines[t]>>
    BY DEF Line
  <2>3. Line(t) \notin written
    BY <1>3, <2>1, <2>2 DEF NumberInv
  <2> QED BY <2>1, <2>2, <2>3 DEF Lines
<1>6. TypeInv'
  <2>1. logs' \in [Elems -> LogElems]
    BY <1>4, <1>5 DEF TypeInv, LogElems
  <2> QED BY <1>1, <2>1 DEF Returned, TypeInv
<1>7. LockInv' /\ CopyInv'
  BY <1>1, <1>2, <1>4, WriteEndStep
<1>8. ~Claimed(t)' /\ \A u \in Writers : u # t => (Claimed(u)' <=> Claimed(u))
  BY <1>1, ClaimedStays, Sorts DEF Claimed, Flushes, Returned, Idle
<1>9. NumberInv'
  <2>1. written' \subseteq Lines
    BY <1>1, <1>5 DEF NumberInv
  <2>2. \A x \in written : x[1] \in Writers
    BY DEF NumberInv, Lines
  <2>3. \A x \in written' : x[2] <= put_lines'[x[1]] /\ (Claimed(x[1])' => x[2] < put_lines'[x[1]])
    <3> SUFFICES ASSUME NEW x \in written'
                 PROVE  x[2] <= put_lines[x[1]] /\ (Claimed(x[1])' => x[2] < put_lines[x[1]])
      BY <1>1
    <3>1. CASE x = Line(t)
      BY <3>1, <1>5, <1>8
    <3>2. CASE x \in written
      BY <3>2, <2>2, <1>8 DEF NumberInv
    <3> QED BY <1>1, <3>1, <3>2
  <2>4. \A u \in Writers : Claimed(u)' => put_lines'[u] > 0
    BY <1>1, <1>8 DEF NumberInv
  <2> QED BY <2>1, <2>3, <2>4 DEF NumberInv
<1> QED BY <1>5, <1>6, <1>7, <1>9

(* The lines of the ring stay where they are. *)
RingKept == \A j \in Elems : Full(logs[j]) => Full(logs'[j]) /\ logs'[j].ctx = logs[j].ctx

LEMMA CrashPut ==
  ASSUME CrashRing, NEW t \in Writers, Put(t)
  PROVE  /\ CrashRing' /\ RingKept
         /\ Up /\ th[t].pc # "idle" /\ ~Flushes(t)
         /\ \A u \in Threads : u # t => th'[u] = th[u]
         /\ UNCHANGED <<stage, fs, buf, ever, gone, faults>> /\ written \subseteq written'
<1> USE DEF CrashRing
<1>1. TypeInv /\ t \in Threads /\ th[t].elem \in Elems
  BY Sorts DEF CoreInv, TypeInv, Frame
<1>2. CASE put_available(t) \/ put_check(t) \/ put_wait(t)
  <2>1. PICK p \in {"check", "full", "wait", "write"} : Goto(t, p)
    BY <1>2 DEF put_available, put_check, put_wait
  <2>2. /\ th[t].pc \in {"put", "check", "wait"} /\ Up
        /\ UNCHANGED <<cursor, logs, flushing, fileVars, compVars, ctlVars, histVars, faults>>
    BY <1>2 DEF put_available, put_check, put_wait, At
  <2>3. UNCHANGED <<fs, buf, cur_revnum, min_revnum, plain, tar, registered, stage, put_lines, written, ever, gone>>
    BY <2>2 DEF fileVars, ctlVars, histVars
  <2>4. Moved(t, p, th[t].elem, th[t].n)
    BY <1>1, <2>1, GotoMoves DEF Pc
  <2>5. CoreInv'
    BY <2>2, <2>3, <2>4, CoreGoto
  <2>6. CrashRing'
    BY <2>2, <2>3, <2>5, CrashRingOnly DEF Up
  <2> QED BY <2>2, <2>3, <2>4, <2>6 DEF Moved, RingKept, Flushes
<1>3. CASE put_flush(t)
  <2>1. /\ th[t].pc = "full" /\ Up /\ start_flush(t, th[t].elem, "wait")
        /\ UNCHANGED <<cursor, logs, fileVars, compVars, ctlVars, histVars, faults>>
    BY <1>3 DEF put_flush, At
  <2>2. UNCHANGED <<fs, buf, cur_revnum, min_revnum, plain, tar, registered, stage, put_lines, written, ever, gone>>
    BY <2>1 DEF fileVars, ctlVars, histVars
  <2>3. CrashRing'
    BY <1>1, <2>1, <2>2, Sorts, CrashStartFlush DEF Up
  <2>4. \A u \in Threads : u # t => th'[u] = th[u]
    BY <1>1, <2>1, StartMoves DEF Moved, Pc
  <2> QED BY <2>1, <2>2, <2>3, <2>4 DEF RingKept, Flushes
<1>4. CASE write(t)
  <2>1. CoreInv'
    BY <1>4, CoreWrite
  <2>2. /\ Up /\ th[t].pc = "write"
        /\ UNCHANGED <<fs, buf, cur_revnum, min_revnum, plain, tar, stage, written, ever, gone, compVars, faults>>
    BY <1>4 DEF write, At, fileVars, ctlVars, histVars
  <2>3. \A j \in Elems : /\ Full(logs'[j]) <=> Full(logs[j])
                         /\ Full(logs[j]) => logs'[j].ctx = logs[j].ctx
    <3>1. CASE UNCHANGED logs
      BY <3>1
    <3>2. CASE /\ Elem(t).status = "CLEAN"
               /\ logs' = [logs EXCEPT ![th[t].elem] = [status |-> "WRITING", ctx |-> Torn]]
      <4>1. PICK k \in Elems : k = th[t].elem
        BY <1>1
      <4>2. logs'[k].status = "WRITING" /\ logs[k].status = "CLEAN"
            /\ \A j \in Elems : j # k => logs'[j] = logs[j]
        BY <1>1, <3>2, <4>1 DEF TypeInv, Elem
      <4> QED BY <4>2 DEF Full
    <3> QED BY <1>4, <3>1, <3>2 DEF write
  <2>4. CrashRing'
    BY <2>1, <2>2, <2>3, CrashRingOnly DEF Up
  <2>5. \A u \in Threads : u # t => th'[u] = th[u]
    BY <1>1, <1>4, GotoMoves, ReturnMoves DEF write, Moved, Returned, Pc
  <2> QED BY <2>2, <2>3, <2>4, <2>5 DEF RingKept, Flushes
<1>5. CASE write_end(t)
  <2>1. CoreInv' /\ Line(t) \notin written
    BY <1>5, CoreWriteEnd
  <2>2. PICK k \in Elems : k = th[t].elem
    BY <1>1
  <2>3. PICK line : line = Line(t)
    OBVIOUS
  <2>4. /\ Up /\ UNCHANGED <<fs, buf, cur_revnum, min_revnum, plain, tar, stage, ever, gone, compVars, faults>>
        /\ written' = written \cup {line} /\ th[t].pc = "copy" /\ Return(t)
        /\ logs' = [logs EXCEPT ![k] = [status |-> "DIRTY", ctx |-> line]]
    BY <1>5, <2>2, <2>3 DEF write_end, At, fileVars, ctlVars
  <2>5. logs'[k].status = "DIRTY" /\ logs'[k].ctx = line /\ \A j \in Elems : j # k => logs'[j] = logs[j]
    BY <1>1, <2>4 DEF TypeInv
  <2>6. logs[k].status = "WRITING"
    BY <2>2, <2>4 DEF CoreInv, CopyInv, Elem
  <2>7. Full(logs'[k]) /\ ~Full(logs[k])
    BY <2>5, <2>6 DEF Full
  <2>8. PlaceInv'
    <3>1. line \notin written
      BY <2>1, <2>3
    <3> QED BY <2>4, <2>5, <2>7, <3>1, PlaceWrite
  <2>9. DiskInv'
    <3>1. UNCHANGED <<comp_jobs, comp_elems, comp>>
      BY <2>4 DEF compVars
    <3> QED BY <2>4, <3>1, DiskFrame DEF Up
  <2>10. \A u \in Threads : u # t => th'[u] = th[u]
    BY <1>1, <2>4, ReturnMoves DEF Returned
  <2> QED BY <2>1, <2>4, <2>5, <2>7, <2>8, <2>9, <2>10 DEF RingKept, Flushes
<1> QED BY <1>2, <1>3, <1>4, <1>5 DEF Put

LEMMA CoreFlush ==
  ASSUME CoreInv, NEW t \in Threads, Flush(t)
  PROVE  /\ CoreInv' /\ Up /\ Flushes(t)
         /\ \A u \in Threads : u # t => th'[u] = th[u]
         /\ UNCHANGED <<stage, written>>
<1> USE DEF CoreInv
<1>1. PICK k \in Elems : k = Position(t)
  BY PositionIn
<1>2. CASE flush_elem(t)
  <2>1. /\ th[t].pc = "flush" /\ th[t].n < NumElems /\ Flushes(t) /\ Up
        /\ UNCHANGED <<cursor, flushing, fs, buf, registered, stage, put_lines, written>>
    BY <1>2 DEF flush_elem, At, fileVars, ctlVars, histVars, Flushes
  <2>2. CASE logs[k].status = "DIRTY"
    <3>1. SetStatus(k, "FLUSHING") /\ Moved(t, "out", th[t].elem, th[t].n)
      BY <1>1, <1>2, <2>2, GotoMoves DEF flush_elem, needToFlush, Pc
    <3>2. TypeInv'
      <4>1. logs' \in [Elems -> LogElems]
        BY <3>1 DEF TypeInv, SetStatus, LogElems
      <4> QED BY <2>1, <3>1, <4>1 DEF Moved, TypeInv
    <3>3. LockInv' /\ CopyInv'
      BY <1>1, <2>1, <2>2, <3>1, TakeElemStep
    <3>4. NumberInv'
      BY <2>1, <3>1, HolderClaims
    <3> QED BY <2>1, <3>1, <3>2, <3>3, <3>4 DEF Moved
  <2>3. CASE logs[k].status # "DIRTY"
    <3>1. logs' = logs /\ Moved(t, "flush", th[t].elem, th[t].n + 1)
      BY <1>1, <1>2, <2>1, <2>3, SkipMoves DEF flush_elem, needToFlush
    <3>2. TypeInv'
      BY <2>1, <3>1 DEF Moved, TypeInv
    <3>3. LockInv' /\ CopyInv'
      BY <2>1, <3>1, SkipElemStep
    <3>4. NumberInv'
      BY <2>1, <3>1, HolderClaims
    <3> QED BY <2>1, <3>1, <3>2, <3>3, <3>4 DEF Moved
  <2> QED BY <2>2, <2>3
<1>3. CASE flush_elem_end(t)
  <2>1. /\ th[t].pc = "out" /\ Flushes(t) /\ th[t].n < NumElems /\ Up
        /\ UNCHANGED <<cursor, flushing, registered, stage, put_lines, written>>
        /\ (fs' # "good" => buf' = {}) /\ fs' \in {fs, "bad"}
    BY <1>3 DEF flush_elem_end, At, ctlVars, Flushes, LockInv
  <2>2. logs' = [logs EXCEPT ![k] = LogElem] /\ Moved(t, "flush", th[t].elem, th[t].n + 1)
    BY <1>1, <1>3, <2>1, NextMoves DEF flush_elem_end, Pc
  <2>3. TypeInv'
    <3>1. logs' \in [Elems -> LogElems]
      BY <2>2 DEF TypeInv, LogElems, LogElem
    <3> QED BY <2>1, <2>2, <3>1 DEF Moved, TypeInv
  <2>4. LockInv' /\ CopyInv'
    BY <1>1, <2>1, <2>2, ElemOutStep
  <2>5. NumberInv'
    BY <2>1, <2>2, HolderClaims
  <2> QED BY <2>1, <2>2, <2>3, <2>4, <2>5 DEF Moved
<1>4. CASE flush_end(t)
  <2>1. /\ th[t].pc = "flush" /\ Flushes(t) /\ th[t].n = NumElems /\ Up
        /\ UNCHANGED <<cursor, logs, registered, stage, put_lines, written>>
        /\ flushing' = NoThread /\ buf' = {}
    BY <1>4 DEF flush_end, At, ctlVars, Flushes
  <2> DEFINE Puts == t \in Callers \/ (t = Owner /\ stage = "put")
  <2>2. /\ Puts => Moved(t, "write", th[t].elem, th[t].n)
        /\ ~Puts => Returned(t)
    BY <1>4, GotoMoves, ReturnMoves DEF flush_end, flush_return, Pc
  <2>3. fs' \in {"closed", "good", "failed", "bad"}
    BY <1>4, FsFlushType DEF flush_end, TypeInv
  <2>4. TypeInv'
    BY <2>1, <2>2, <2>3 DEF Moved, Returned, TypeInv
  <2>5. LockInv' /\ CopyInv'
    <3>1. Moved(t, "write", th[t].elem, th[t].n) \/ Returned(t)
      BY <2>2
    <3> QED BY <2>1, <3>1, UnlockStep
  <2>6. \A u \in Writers : u # t => (Claimed(u)' <=> Claimed(u)) /\ th'[u] = th[u]
    BY <2>1, <2>2, ClaimedStays, Sorts
  <2>7. Claimed(t)' => Claimed(t)
    <3>1. CASE Puts
      BY <2>1, <2>2, <3>1 DEF Moved, Claimed, Flushes
    <3>2. CASE ~Puts
      BY <2>2, <3>2 DEF Returned, Idle, Claimed, Flushes
    <3> QED BY <3>1, <3>2
  <2>8. NumberInv'
    BY <2>1, <2>6, <2>7, NumberStep
  <2> QED BY <2>1, <2>2, <2>4, <2>5, <2>8 DEF Moved, Returned
<1> QED BY <1>2, <1>3, <1>4 DEF Flush

(* What is in a file or lost stays so, and so does the rest of the ring.   *)
LEMMA CrashFlush ==
  ASSUME CrashRing, NEW t \in Threads, Flush(t)
  PROVE  CrashRing' /\ EverLines \cup gone \subseteq (EverLines \cup gone)'
<1> USE DEF CrashRing
<1>1. CoreInv' /\ Up /\ Up' /\ UNCHANGED <<stage, written>> /\ TypeInv
  BY CoreFlush DEF CoreInv, Up
<1>2. PICK k \in Elems : k = Position(t)
  BY <1>1, PositionIn
<1>3. CASE flush_elem(t)
  <2>1. UNCHANGED <<fs, buf, cur_revnum, min_revnum, plain, tar, ever, gone, compVars>>
    BY <1>3 DEF flush_elem, fileVars, histVars
  <2>2. \A j \in Elems : /\ Full(logs'[j]) <=> Full(logs[j])
                         /\ Full(logs[j]) => logs'[j].ctx = logs[j].ctx
    <3>1. CASE UNCHANGED logs
      BY <3>1
    <3>2. CASE needToFlush(logs[k]) /\ SetStatus(k, "FLUSHING")
      <4>1. /\ logs[k].status = "DIRTY" /\ logs'[k].status = "FLUSHING" /\ logs'[k].ctx = logs[k].ctx
            /\ \A j \in Elems : j # k => logs'[j] = logs[j]
        BY <1>1, <3>2 DEF needToFlush, SetStatus, TypeInv, LogElems
      <4> QED BY <4>1 DEF Full
    <3> QED BY <1>2, <1>3, <3>1, <3>2 DEF flush_elem
  <2>3. CrashRing'
    BY <1>1, <2>1, <2>2, CrashRingOnly
  <2> QED BY <2>1, <2>3 DEF EverLines
<1>4. CASE flush_elem_end(t)
  <2>1. /\ UNCHANGED <<cur_revnum, min_revnum, plain, tar, ever, compVars>>
        /\ fs' = "good" => fs = "good"
        /\ th[t].pc = "out" /\ logs' = [logs EXCEPT ![k] = LogElem]
        /\ \/ buf' = buf \cup {logs[k].ctx} /\ gone' = gone
           \/ gone' = gone \cup {logs[k].ctx} /\ buf' = buf
           \/ gone' = gone \cup buf \cup {logs[k].ctx} /\ buf' = {}
    BY <1>2, <1>4 DEF flush_elem_end, At
  <2>2. logs'[k].status = "CLEAN" /\ \A j \in Elems : j # k => logs'[j] = logs[j]
    BY <1>1, <2>1 DEF TypeInv, LogElem
  <2>3. logs[k].status = "FLUSHING"
    BY <1>2, <2>1 DEF CoreInv, LockInv
  <2>4. PlaceInv'
    <3>1. ~Full(logs'[k]) /\ Full(logs[k])
      BY <2>2, <2>3 DEF Full
    <3> QED BY <1>1, <2>1, <2>2, <3>1, PlaceOut
  <2>5. DiskInv'
    <3>1. UNCHANGED <<comp_jobs, comp_elems, comp>> /\ gone \subseteq gone'
      BY <2>1 DEF compVars
    <3> QED BY <1>1, <2>1, <3>1, DiskFrame
  <2>6. gone \subseteq gone'
    BY <2>1
  <2> QED BY <1>1, <2>1, <2>4, <2>5, <2>6 DEF EverLines
<1>5. CASE flush_end(t)
  <2>1. fs_flush /\ buf' = {} /\ UNCHANGED <<logs, min_revnum, tar, comp, gone>>
    BY <1>5 DEF flush_end
  <2>2. CASE fs = "good"
    <3>1. DiskInv'
      BY <1>1, <2>1, <2>2, DiskFlush
    <3>2. cur_revnum \in DOMAIN ever /\ Extends(ever, ever', cur_revnum, buf)
      BY <2>1, <2>2, FsFlushGood DEF DiskInv
    <3>3. PICK c \in DOMAIN ever : Extends(ever, ever', c, buf)
      BY <3>2
    <3>4. PlaceInv'
      BY <1>1, <2>1, <3>3, PlaceFlush
    <3>5. EverLines' = EverLines \cup buf
      BY <3>3, EverGrows
    <3> QED BY <1>1, <2>1, <3>1, <3>4, <3>5
  <2>3. CASE fs # "good"
    <3>1. UNCHANGED <<fs, plain, cur_revnum, comp_jobs, comp_elems, ever>>
      BY <2>1, <2>3 DEF fs_flush
    <3>2. buf' = buf
      BY <2>1, <2>3 DEF CoreInv, LockInv
    <3>3. CrashRing'
      BY <1>1, <2>1, <3>1, <3>2, CrashRingOnly DEF compVars
    <3> QED BY <2>1, <3>1, <3>3 DEF EverLines
  <2> QED BY <2>2, <2>3
<1> QED BY <1>3, <1>4, <1>5 DEF Flush

LEMMA CrashExit ==
  ASSUME CrashRing, exit
  PROVE  CrashRing' /\ written' = written /\ written \subseteq (EverLines \cup gone)'
<1> USE DEF CrashRing, CoreInv
<1>1. CoreInv'
  BY ExitStep DEF MemInv
<1>2. DiskInv'
  BY DiskExit
<1>3. \A k \in Elems : ~Full(logs'[k])
  BY DEF exit, LogElem, Full
<1>4. PlaceInv'
  BY <1>3, PlaceExit DEF exit
<1>5. written' = written /\ buf' = {}
  BY DEF exit
<1>6. written \subseteq (EverLines \cup gone)'
  BY <1>3, <1>4, <1>5 DEF PlaceInv
<1> QED BY <1>1, <1>2, <1>4, <1>5, <1>6

LEMMA CrashStart ==
  ASSUME CrashRing, start, \A u \in Threads : th[u].pc = "idle"
  PROVE  CrashRing'
<1> USE DEF CrashRing, CoreInv
<1>1. /\ UNCHANGED <<cursor, logs, th, flushing, buf, put_lines, written, gone>>
      /\ stage = "down" /\ stage' = "run" /\ fs' \in {"good", "failed"} /\ registered' \in BOOLEAN
  BY DEF start, ringVars
<1>2. flushing = NoThread /\ buf = {}
  BY AllIdle
<1>3. TypeInv'
  BY <1>1 DEF TypeInv
<1>4. LockInv' /\ CopyInv'
  <2>1. \A u \in Threads : Stays(u)
    BY <1>1 DEF Stays
  <2> QED BY <1>1, <1>2, <1>3, <2>1, QuietStep
<1>5. NumberInv'
  <2>1. \A u \in Writers : ~Claimed(u)'
    BY <1>1, Sorts DEF Claimed, Flushes
  <2> QED BY <1>1, <2>1, NumberStep
<1>6. DiskInv' /\ Extends(ever, ever', cur_revnum', {})
  BY DiskStart
<1>7. PlaceInv'
  <2>1. CASE DOMAIN ever = {}
    <3>1. EverLines = {} /\ EverLines' = {}
      BY <1>6, <2>1, EverLinesIs, EverLinesIsPrime DEF Extends
    <3>2. \A m \in DOMAIN ever' : ever'[m] = {}
      BY <1>6, <2>1 DEF Extends
    <3> QED BY <1>1, <3>1, <3>2 DEF PlaceInv
  <2>2. CASE DOMAIN ever # {}
    <3>1. PICK n \in DOMAIN ever : TRUE
      BY <2>2
    <3>2. Extends(ever, ever', n, {})
      BY <1>6 DEF Extends
    <3> QED BY <1>1, <1>2, <3>1, <3>2, PlaceFlush
  <2> QED BY <2>1, <2>2
<1> QED BY <1>3, <1>4, <1>5, <1>6, <1>7
-----------------------------------------------------------------------------
(* The flush of the handler *)

(* The handler is not at a flush: what it has flushed stays flushed. *)
LEMMA SafeFrame ==
  ASSUME SafeInv, ~(h.pc = "flush" /\ Flushes(Owner)), flushed' => flushed, at_crash' = at_crash,
         EverLines \cup gone \subseteq (EverLines \cup gone)'
  PROVE  SafeInv'
BY DEF SafeInv

(* Others write into the ring while the handler flushes. *)
LEMMA SafeOthers ==
  ASSUME SafeInv, RingKept, UNCHANGED <<h, flushed, at_crash, buf, ever, gone>>, TypeInv,
         th'[Owner].pc = th[Owner].pc, th'[Owner].elem = th[Owner].elem, th'[Owner].n = th[Owner].n
  PROVE  SafeInv'
<1>1. EverLines' = EverLines /\ (Flushes(Owner)' <=> Flushes(Owner))
  BY DEF EverLines, Flushes
<1>2. ASSUME NEW x, Ahead(x) PROVE Ahead(x)'
  <2>1. PICK j \in 0 .. NumElems - 1 : /\ j >= th[Owner].n
                                       /\ Full(logs[(th[Owner].elem + j) % NumElems])
                                       /\ logs[(th[Owner].elem + j) % NumElems].ctx = x
    BY <1>2 DEF Ahead
  <2>2. (th[Owner].elem + j) % NumElems \in Elems
    <3>1. th[Owner].elem + j \in Nat
      BY Sorts DEF TypeInv, Frame, Elems
    <3> QED BY <3>1, Sorts, ModRange DEF Elems
  <2>3. /\ Full(logs'[(th[Owner].elem + j) % NumElems])
        /\ logs'[(th[Owner].elem + j) % NumElems].ctx = x
    BY <2>1, <2>2 DEF RingKept
  <2> QED BY <2>1, <2>3 DEF Ahead
<1> QED BY <1>1, <1>2 DEF SafeInv

(* The flush begins where the cursor is and goes all the way round. *)
LEMMA SafeBegins ==
  ASSUME CrashRing, at_crash \subseteq written, UNCHANGED <<at_crash, logs, buf, ever, gone>>,
         h'.pc = "flush", Moved(Owner, "flush", cursor, 0)
  PROVE  SafeInv'
<1>1. /\ EverLines' = EverLines /\ Flushes(Owner)' /\ cursor \in Elems
      /\ th'[Owner].elem = cursor /\ th'[Owner].n = 0
  BY DEF EverLines, Flushes, Moved, CrashRing, CoreInv, TypeInv
<1>2. ASSUME NEW x \in at_crash, x \notin buf \cup EverLines \cup gone PROVE Ahead(x)'
  <2>1. PICK k \in Elems : Full(logs[k]) /\ logs[k].ctx = x
    BY <1>2 DEF CrashRing, PlaceInv
  <2>2. PICK c \in 0 .. NumElems - 1 : c = cursor
    BY <1>1 DEF Elems
  <2>3. k \in 0 .. NumElems - 1 /\ NumElems \in Nat \ {0}
    BY Sorts DEF Elems
  <2>4. \E j \in 0 .. NumElems - 1 : (c + j) % NumElems = k
    BY <2>3, ModOnto
  <2>5. PICK j \in 0 .. NumElems - 1 : (c + j) % NumElems = k
    BY <2>4
  <2> QED BY <1>1, <2>1, <2>2, <2>5 DEF Ahead
<1> QED BY <1>1, <1>2 DEF SafeInv

LEMMA SafeGoesOn ==
  ASSUME CrashRing, SafeInv, Flush(Owner), stage # "put", h.pc = "flush",
         UNCHANGED <<h, flushed, at_crash>>
  PROVE  SafeInv'
<1> SUFFICES ASSUME flushed,
                    \A x \in at_crash : x \in buf \cup EverLines \cup gone \/ Ahead(x)
             PROVE  SafeInv'
  <2>1. Flushes(Owner) /\ EverLines \cup gone \subseteq (EverLines \cup gone)'
    BY Sorts, CoreFlush, CrashFlush DEF CrashRing
  <2> QED BY <2>1 DEF SafeInv
<1>1. TypeInv /\ LockInv /\ Owner \in Threads /\ Flushes(Owner)
  BY Sorts, CoreFlush DEF CrashRing, CoreInv
<1>2. PICK e \in 0 .. NumElems - 1, n \in 0 .. NumElems : e = th[Owner].elem /\ n = th[Owner].n
  BY <1>1 DEF TypeInv, Frame, Elems
<1>3. PICK k \in Elems : k = Position(Owner) /\ k = (e + n) % NumElems
  BY <1>1, <1>2, PositionIn DEF Position
<1>4. \A j \in 0 .. NumElems - 1 : (e + j) % NumElems \in Elems
  <2> TAKE j \in 0 .. NumElems - 1
  <2>1. e + j \in Nat
    OBVIOUS
  <2> QED BY <2>1, Sorts, ModRange DEF Elems
<1>5. CASE flush_elem(Owner)
  <2>1. /\ th[Owner].pc = "flush" /\ n < NumElems /\ UNCHANGED <<buf, ever, gone>>
    BY <1>2, <1>5 DEF flush_elem, At, fileVars, histVars
  <2>2. EverLines' = EverLines
    BY <2>1 DEF EverLines
  <2>3. CASE logs[k].status = "DIRTY"
    <3>1. SetStatus(k, "FLUSHING") /\ Moved(Owner, "out", e, n)
      BY <1>1, <1>2, <1>3, <1>5, <2>3, GotoMoves DEF flush_elem, needToFlush, Pc
    <3>2. /\ logs'[k].status = "FLUSHING" /\ logs'[k].ctx = logs[k].ctx
          /\ \A j \in Elems : j # k => logs'[j] = logs[j]
      BY <1>1, <3>1 DEF SetStatus, TypeInv, LogElems
    <3>3. th'[Owner].elem = e /\ th'[Owner].n = n /\ Flushes(Owner)'
      BY <3>1 DEF Moved, Flushes
    <3>4. RingKept
      BY <3>2 DEF RingKept, Full
    <3>5. ASSUME NEW x, Ahead(x) PROVE Ahead(x)'
      BY <1>2, <1>4, <3>3, <3>4, <3>5 DEF Ahead, RingKept
    <3> QED BY <2>1, <2>2, <3>3, <3>5 DEF SafeInv
  <2>4. CASE logs[k].status # "DIRTY"
    <3>1. logs' = logs /\ Moved(Owner, "flush", e, n + 1)
      BY <1>1, <1>2, <1>3, <1>5, <2>1, <2>4, SkipMoves DEF flush_elem, needToFlush
    <3>2. th'[Owner].elem = e /\ th'[Owner].n = n + 1 /\ Flushes(Owner)'
      BY <3>1 DEF Moved, Flushes
    <3>3. ~Full(logs[k])
      BY <1>1, <2>1, <2>4, OneFlusher DEF Full
    <3>4. ASSUME NEW x, Ahead(x) PROVE Ahead(x)'
      <4>1. PICK j \in 0 .. NumElems - 1 : /\ j >= n /\ Full(logs[(e + j) % NumElems])
                                           /\ logs[(e + j) % NumElems].ctx = x
        BY <1>2, <3>4 DEF Ahead
      <4>2. j # n
        BY <1>3, <3>3, <4>1
      <4>3. j >= n + 1
        BY <4>1, <4>2
      <4> QED BY <3>1, <3>2, <4>1, <4>3 DEF Ahead
    <3> QED BY <2>1, <2>2, <3>2, <3>4 DEF SafeInv
  <2> QED BY <2>3, <2>4
<1>6. CASE flush_elem_end(Owner)
  <2>1. /\ th[Owner].pc = "out" /\ n < NumElems /\ ever' = ever /\ logs' = [logs EXCEPT ![k] = LogElem]
        /\ buf \cup gone \cup {logs[k].ctx} \subseteq buf' \cup gone'
    <3>1. th[Owner].pc = "out" /\ ever' = ever /\ logs' = [logs EXCEPT ![k] = LogElem]
      BY <1>3, <1>6 DEF flush_elem_end, At
    <3>2. buf \cup gone \cup {logs[k].ctx} \subseteq buf' \cup gone'
      BY <1>3, <1>6 DEF flush_elem_end
    <3> QED BY <1>1, <1>2, <3>1, <3>2 DEF LockInv
  <2>2. Moved(Owner, "flush", e, n + 1) /\ EverLines' = EverLines
    BY <1>1, <1>2, <1>6, <2>1, NextMoves DEF flush_elem_end, Pc, EverLines
  <2>3. th'[Owner].elem = e /\ th'[Owner].n = n + 1 /\ Flushes(Owner)'
    BY <2>2 DEF Moved, Flushes
  <2>4. \A i \in Elems : i # k => logs'[i] = logs[i]
    BY <1>1, <2>1 DEF TypeInv
  <2>5. ASSUME NEW x, Ahead(x) PROVE x \in buf' \cup gone' \/ Ahead(x)'
    <3>1. PICK j \in 0 .. NumElems - 1 : /\ j >= n /\ Full(logs[(e + j) % NumElems])
                                         /\ logs[(e + j) % NumElems].ctx = x
      BY <1>2, <2>5 DEF Ahead
    <3>2. CASE j = n
      BY <1>3, <2>1, <3>1, <3>2
    <3>3. CASE j > n
      <4>1. (e + n) % NumElems # (e + j) % NumElems
        <5>1. /\ NumElems \in Nat \ {0} /\ j \in Nat /\ n \in Nat
              /\ n < j /\ j < NumElems
          BY <3>3, Sorts
        <5> QED BY <5>1, ModDistinct
      <4>2. logs'[(e + j) % NumElems] = logs[(e + j) % NumElems]
        BY <1>3, <1>4, <2>4, <4>1
      <4>3. j >= n + 1
        BY <3>3
      <4> QED BY <2>3, <3>1, <4>2, <4>3 DEF Ahead
    <3> QED BY <3>1, <3>2, <3>3
  <2> QED BY <2>1, <2>2, <2>3, <2>5 DEF SafeInv
<1>7. CASE flush_end(Owner)
  <2>1. fs_flush /\ n = NumElems /\ gone' = gone
    BY <1>2, <1>7 DEF flush_end
  <2>2. \A x : ~Ahead(x)
    BY <1>2, <2>1, Sorts DEF Ahead
  <2>3. EverLines' = EverLines \cup buf
    <3>1. CASE fs = "good"
      <4>1. cur_revnum \in DOMAIN ever /\ Extends(ever, ever', cur_revnum, buf)
        BY <2>1, <3>1, FsFlushGood DEF CrashRing, DiskInv
      <4> QED BY <4>1, EverGrows
    <3>2. CASE fs # "good"
      BY <1>1, <2>1, <3>2 DEF fs_flush, LockInv, EverLines
    <3> QED BY <3>1, <3>2
  <2> QED BY <2>1, <2>2, <2>3 DEF SafeInv
<1> QED BY <1>5, <1>6, <1>7 DEF Flush
-----------------------------------------------------------------------------
(* The steps of the handler and of the other threads *)

CrashInv == CrashRing /\ HandlerInv /\ SafeInv /\ GoodInv

(* A step of a thread inside put or flush, or one that begins a put. *)
LEMMA HandlerFrame ==
  ASSUME HandlerInv, Up, stage' = stage, UNCHANGED <<h, at_crash, abort_timer, flushed>>,
         written \subseteq written', th[Owner].pc = "idle" => th'[Owner].pc = "idle"
  PROVE  HandlerInv'
BY DEF HandlerInv, Crashed, Up

LEMMA GoodFrame ==
  ASSUME GoodInv, UNCHANGED <<fs, gone, faults>>, Up' => Up, Crashed => Crashed'
  PROVE  GoodInv'
BY DEF GoodInv

LEMMA GoodFlush ==
  ASSUME GoodInv, NEW t \in Threads, Flush(t), UNCHANGED h
  PROVE  GoodInv'
<1>1. Up /\ Up' /\ (Crashed' <=> Crashed)
  BY DEF Flush, flush_elem, flush_elem_end, flush_end, At, Up, ctlVars, Crashed
<1>2. CASE flush_elem(t)
  BY <1>1, <1>2 DEF flush_elem, GoodInv, fileVars, histVars
<1>3. CASE flush_elem_end(t)
  <2>1. faults' \in Nat /\ (MaxFaults = 0 => faults' = faults)
    BY <1>3 DEF flush_elem_end, Fault, GoodInv
  <2>2. MaxFaults = 0 => UNCHANGED <<fs, gone>>
    BY <1>1, <1>3 DEF flush_elem_end, Fault, GoodInv
  <2> QED BY <1>1, <2>1, <2>2 DEF GoodInv
<1>4. CASE flush_end(t)
  <2>1. gone' = gone /\ fs_flush
    BY <1>4 DEF flush_end
  <2>2. faults' \in Nat /\ (MaxFaults = 0 => faults' = faults)
    BY <2>1 DEF fs_flush, rotate, Fault, GoodInv
  <2>3. MaxFaults = 0 => fs' = "good"
    BY <1>1, <2>1 DEF fs_flush, rotate, Fault, GoodInv
  <2> QED BY <1>1, <2>1, <2>2, <2>3 DEF GoodInv
<1> QED BY <1>2, <1>3, <1>4 DEF Flush

LEMMA StepClaim ==
  ASSUME CrashInv, NEW t \in Callers, caller_put(t)
  PROVE  CrashInv'
<1> USE DEF CrashInv
<1>1. /\ Up /\ Up' /\ claim(t) /\ stage' = stage /\ t \in Writers /\ t # Owner
      /\ UNCHANGED <<h, abort_timer, tick, at_crash, flushed>>
  BY Sorts DEF caller_put, crashVars, Up
<1>2. CrashRing'
  BY <1>1, CrashClaim
<1>3. /\ th'[Owner].pc = th[Owner].pc /\ th'[Owner].elem = th[Owner].elem /\ th'[Owner].n = th[Owner].n
  BY <1>1, ClaimMoves, Sorts DEF CrashRing, CoreInv
<1>4. UNCHANGED <<logs, fs, buf, written, ever, gone, faults>>
  BY <1>1 DEF claim, fileVars
<1>5. SafeInv'
  BY <1>1, <1>3, <1>4, SafeOthers DEF RingKept, CrashRing, CoreInv
<1>6. HandlerInv'
  BY <1>1, <1>3, <1>4, HandlerFrame
<1>7. GoodInv'
  BY <1>1, <1>4, GoodFrame DEF Crashed
<1> QED BY <1>2, <1>5, <1>6, <1>7

LEMMA StepPut ==
  ASSUME CrashInv, NEW t \in Writers, Put(t), UNCHANGED crashVars
  PROVE  CrashInv'
<1> USE DEF CrashInv
<1>1. /\ CrashRing' /\ RingKept
      /\ Up /\ th[t].pc # "idle" /\ ~Flushes(t)
      /\ \A u \in Threads : u # t => th'[u] = th[u]
      /\ UNCHANGED <<stage, fs, buf, ever, gone, faults>> /\ written \subseteq written'
  BY CrashPut
<1>2. UNCHANGED <<h, abort_timer, tick, at_crash, flushed>>
  BY DEF crashVars
<1>3. SafeInv'
  <2>1. CASE t = Owner
    <3>1. EverLines' = EverLines
      BY <1>1 DEF EverLines
    <3> QED BY <1>1, <1>2, <2>1, <3>1, SafeFrame
  <2>2. CASE t # Owner
    <3>1. th'[Owner] = th[Owner]
      BY <1>1, <2>2, Sorts
    <3> QED BY <1>1, <1>2, <3>1, SafeOthers DEF CrashRing, CoreInv
  <2> QED BY <2>1, <2>2
<1>4. HandlerInv'
  BY <1>1, <1>2, HandlerFrame, Sorts
<1>5. GoodInv'
  BY <1>1, <1>2, GoodFrame DEF Up, Crashed
<1> QED BY <1>1, <1>3, <1>4, <1>5

LEMMA StepFlush ==
  ASSUME CrashInv, NEW t \in Threads, Flush(t), UNCHANGED crashVars
  PROVE  CrashInv'
<1> USE DEF CrashInv
<1>1. CrashRing' /\ EverLines \cup gone \subseteq (EverLines \cup gone)'
  BY CrashFlush
<1>2. /\ Up /\ Flushes(t) /\ UNCHANGED <<stage, written>>
      /\ \A u \in Threads : u # t => th'[u] = th[u]
  BY CoreFlush DEF CrashRing
<1>3. UNCHANGED <<h, abort_timer, tick, at_crash, flushed>>
  BY DEF crashVars
<1>4. SafeInv'
  <2>1. CASE t = Owner /\ h.pc = "flush"
    <3>1. stage # "put"
      BY <1>2, <2>1 DEF HandlerInv
    <3> QED BY <1>3, <2>1, <3>1, SafeGoesOn
  <2>2. CASE ~(t = Owner /\ h.pc = "flush")
    <3>1. ~(h.pc = "flush" /\ Flushes(Owner))
      BY <1>2, <2>2, OneFlusher, Sorts DEF CrashRing, CoreInv
    <3> QED BY <1>1, <1>3, <3>1, SafeFrame
  <2> QED BY <2>1, <2>2
<1>5. HandlerInv'
  <2>1. th[Owner].pc = "idle" => th'[Owner].pc = "idle"
    BY <1>2, Sorts DEF Flushes
  <2> QED BY <1>2, <1>3, <2>1, HandlerFrame
<1>6. GoodInv'
  BY <1>3, GoodFlush
<1> QED BY <1>1, <1>4, <1>5, <1>6

LEMMA StepFlushWorker ==
  ASSUME CrashInv, flush_thread_round
  PROVE  CrashInv'
<1> USE DEF CrashInv
<1>1. /\ Up /\ th[Flusher].pc = "idle" /\ start_flush(Flusher, cursor, "idle")
      /\ UNCHANGED <<cursor, logs, fileVars, compVars, ctlVars, histVars, faults>>
      /\ UNCHANGED <<h, abort_timer, at_crash, flushed>>
  BY DEF flush_thread_round, flushWorker, At
<1>2. UNCHANGED <<fs, buf, registered, stage, put_lines, written, ever, gone>>
  BY <1>1 DEF fileVars, ctlVars, histVars
<1>3. Flusher \in Threads /\ Owner \in Threads /\ Flusher # Owner /\ cursor \in Elems /\ TypeInv
  BY Sorts DEF CrashRing, CoreInv, TypeInv
<1>4. CrashRing'
  BY <1>1, <1>2, <1>3, CrashStartFlush DEF Up
<1>5. th'[Owner] = th[Owner]
  BY <1>1, <1>3, StartMoves DEF Moved, Pc
<1>6. SafeInv'
  BY <1>1, <1>2, <1>3, <1>5, SafeOthers DEF RingKept
<1>7. HandlerInv'
  BY <1>1, <1>2, <1>5, HandlerFrame
<1>8. GoodInv'
  BY <1>1, <1>2, GoodFrame DEF Up, Crashed
<1> QED BY <1>4, <1>6, <1>7, <1>8

(* The process ends: what was in the ring or in the stream is lost, and    *)
(* nothing else is.                                                        *)
LEMMA StepExit ==
  ASSUME CrashInv, exit, Crashed, UNCHANGED <<h, at_crash, flushed, faults>>, abort_timer' \in Nat
  PROVE  CrashInv'
<1> USE DEF CrashInv
<1>1. CrashRing' /\ written' = written /\ written \subseteq (EverLines \cup gone)'
  BY CrashExit
<1>2. stage' = "down" /\ \A t \in Threads : th'[t].pc = "idle"
  BY DEF exit, Threads, Idle
<1>3. at_crash \subseteq written
  BY DEF HandlerInv
<1>4. SafeInv'
  BY <1>1, <1>3 DEF SafeInv
<1>5. HandlerInv'
  BY <1>1, <1>2, <1>3, Sorts DEF HandlerInv, Up, Crashed
<1>6. GoodInv'
  BY <1>2 DEF GoodInv, Up, Crashed
<1> QED BY <1>1, <1>4, <1>5, <1>6

LEMMA StepStart ==
  ASSUME CrashInv, start, ~Crashed, UNCHANGED crashVars
  PROVE  CrashInv'
<1> USE DEF CrashInv
<1>1. /\ stage = "down" /\ stage' = "run" /\ UNCHANGED <<th, buf, written, gone>>
      /\ UNCHANGED <<h, abort_timer, tick, at_crash, flushed>>
  BY DEF start, ringVars, crashVars
<1>2. \A u \in Threads : th[u].pc = "idle"
  BY <1>1 DEF HandlerInv
<1>3. CrashRing'
  BY <1>2, CrashStart
<1>4. SafeInv'
  BY <1>1 DEF SafeInv, HandlerInv
<1>5. HandlerInv'
  BY <1>1 DEF HandlerInv, Up, Crashed
<1>6. GoodInv'
  <2>1. faults' \in Nat /\ (MaxFaults = 0 => fs' = "good")
    BY DEF start, Fault, GoodInv
  <2> QED BY <1>1, <2>1 DEF GoodInv, Up, Crashed
<1> QED BY <1>3, <1>4, <1>5, <1>6

(* A step that changes nothing of the logger. *)
LEMMA RingFrame ==
  ASSUME CrashRing, UNCHANGED loggerVars
  PROVE  /\ CrashRing' /\ RingKept
         /\ UNCHANGED <<th, logs, buf, ever, gone, fs, faults, stage, written>>
         /\ EverLines' = EverLines
<1>1. /\ UNCHANGED <<cursor, logs, th, flushing, fs, buf, cur_revnum, min_revnum, plain, tar>>
      /\ UNCHANGED <<comp_jobs, comp_elems, comp, registered, stage, starts>>
      /\ UNCHANGED <<put_lines, written, ever, gone, faults>>
  BY DEF loggerVars, vars, ringVars, fileVars, compVars, ctlVars, histVars
<1>2. CoreInv'
  BY <1>1 DEF CrashRing, CoreInv, TypeInv, LockInv, CopyInv, NumberInv, Flushes, Position, Elem, Claimed
<1>3. PlaceInv'
  <2>1. gone \subseteq written
    BY DEF CrashRing, PlaceInv
  <2> QED BY <1>1, <2>1, PlaceFrame DEF CrashRing
<1>4. DiskInv'
  BY <1>1, DiskFrame DEF CrashRing, Up
<1> QED BY <1>1, <1>2, <1>3, <1>4 DEF CrashRing, RingKept, EverLines

LEMMA TimerDown ==
  ASSUME NEW n \in Nat
  PROVE  Max({0, n - 1}) \in Nat /\ (n = 0 => Max({0, n - 1}) = 0)
<1>1. CASE n = 0
  <2>1. \E x \in {0, n - 1} : \A y \in {0, n - 1} : x >= y
    BY <1>1
  <2>2. Max({0, n - 1}) \in {0, n - 1} /\ Max({0, n - 1}) >= 0
    BY <2>1 DEF Max
  <2> QED BY <1>1, <2>2
<1>2. CASE n > 0
  <2>1. \E x \in {0, n - 1} : \A y \in {0, n - 1} : x >= y
    BY <1>2
  <2>2. Max({0, n - 1}) \in {0, n - 1}
    BY <2>1 DEF Max
  <2> QED BY <1>2, <2>2
<1> QED BY <1>1, <1>2

LEMMA StepTick ==
  ASSUME CrashInv, abort_tick
  PROVE  CrashInv'
<1> USE DEF CrashInv
<1>1. Up /\ UNCHANGED <<h, at_crash, flushed>> /\ abort_timer \in Nat
  BY DEF abort_tick, HandlerInv
<1>2. CASE abort_timer = 1 /\ force_abort /\ abort_timer' = 0
  <2>1. Crashed
    BY <1>2 DEF HandlerInv
  <2> QED BY <1>1, <1>2, <2>1, StepExit DEF force_abort
<1>3. CASE abort_timer' = Max({0, abort_timer - 1}) /\ UNCHANGED loggerVars
  <2>1. /\ CrashRing' /\ RingKept
        /\ UNCHANGED <<th, logs, buf, ever, gone, fs, faults, stage, written>>
    BY <1>3, RingFrame
  <2>2. abort_timer' \in Nat /\ (abort_timer = 0 => abort_timer' = 0)
    BY <1>1, <1>3, TimerDown
  <2>3. SafeInv'
    BY <1>1, <2>1, SafeOthers DEF CrashRing, CoreInv
  <2>4. HandlerInv'
    BY <1>1, <2>1, <2>2 DEF HandlerInv, Up, Crashed
  <2>5. GoodInv'
    BY <1>1, <2>1, GoodFrame DEF Up, Crashed
  <2> QED BY <2>1, <2>3, <2>4, <2>5
<1> QED BY <1>2, <1>3 DEF abort_tick

LEMMA StepCrash ==
  ASSUME CrashInv, NEW t \in Callers \cup {Flusher}, crash_in(t)
  PROVE  CrashInv'
<1> USE DEF CrashInv
<1>1. /\ CrashRing' /\ RingKept
      /\ UNCHANGED <<th, logs, buf, ever, gone, fs, faults, stage, written>>
  BY RingFrame DEF crash_in
<1>2. /\ stage = "run" /\ ~Crashed /\ at_crash' = written /\ UNCHANGED <<abort_timer, flushed>>
      /\ h' = [NoCrash EXCEPT !.pc = "display", !.victim = t]
  BY DEF crash_in
<1>3. t \in Threads
  BY Sorts
<1>4. h'.pc = "display" /\ h' \in Handlers
  BY <1>2, <1>3 DEF NoCrash, Handlers
<1>5. ~flushed' /\ abort_timer' = 0 /\ th[Owner].pc = "idle"
  BY <1>2 DEF HandlerInv, Crashed
<1>6. SafeInv'
  BY <1>5 DEF SafeInv
<1>7. HandlerInv'
  BY <1>1, <1>2, <1>4, <1>5 DEF HandlerInv, Up, Crashed
<1>8. GoodInv'
  BY <1>1, <1>2, <1>4, GoodFrame DEF Up, Crashed
<1> QED BY <1>1, <1>6, <1>7, <1>8

(* The handler goes on and leaves the logger alone. *)
LEMMA StepHandlerOnly ==
  ASSUME CrashInv, UNCHANGED <<loggerVars, at_crash, flushed>>, Up, Crashed,
         h.pc # "put", th[Owner].pc = "idle", h' \in Handlers, h'.pc \notin {"none", "put"},
         abort_timer' \in Nat
  PROVE  CrashInv'
<1> USE DEF CrashInv
<1>1. /\ CrashRing' /\ RingKept /\ EverLines' = EverLines
      /\ UNCHANGED <<th, logs, buf, ever, gone, fs, faults, stage, written>>
  BY RingFrame
<1>2. ~Flushes(Owner)
  BY DEF Flushes
<1>3. SafeInv'
  BY <1>1, <1>2, SafeFrame
<1>4. HandlerInv'
  BY <1>1 DEF HandlerInv, Up, Crashed
<1>5. GoodInv'
  BY <1>1, GoodFrame DEF Up, Crashed
<1> QED BY <1>1, <1>3, <1>4, <1>5

LEMMA StepMessagePut ==
  ASSUME CrashInv, flushAllLoggers_put
  PROVE  CrashInv'
<1> USE DEF CrashInv
<1>1. /\ Up /\ h.pc = "msg" /\ claim(Owner) /\ stage' = "put" /\ Up'
      /\ h' = [h EXCEPT !.pc = "put"] /\ UNCHANGED <<abort_timer, at_crash, flushed>>
  BY DEF flushAllLoggers_put, HandlerAt, HGoto, Up
<1>2. h' \in Handlers /\ h'.pc = "put"
  BY <1>1 DEF HandlerInv, Handlers
<1>3. CrashRing'
  BY <1>1, CrashClaim, Sorts
<1>4. UNCHANGED <<fs, written, ever, gone, faults>>
  BY <1>1 DEF claim, fileVars
<1>5. SafeInv'
  <2>1. EverLines' = EverLines
    BY <1>4 DEF EverLines
  <2> QED BY <1>1, <1>4, <2>1, SafeFrame
<1>6. HandlerInv'
  BY <1>1, <1>2, <1>4 DEF HandlerInv, Up, Crashed
<1>7. GoodInv'
  BY <1>1, <1>2, <1>4, GoodFrame DEF Crashed
<1> QED BY <1>3, <1>5, <1>6, <1>7

LEMMA StepMessageFlush ==
  ASSUME CrashInv, flushAllLoggers_flush
  PROVE  CrashInv'
<1> USE DEF CrashInv
<1>1. /\ Up /\ h.pc = "put" /\ th[Owner].pc = "idle" /\ start_flush(Owner, cursor, "idle")
      /\ stage' = "run" /\ Up' /\ h' = [h EXCEPT !.pc = "flush"]
      /\ flushed' = (flushed \/ flushing = NoThread)
      /\ UNCHANGED <<cursor, logs, fileVars, compVars, registered, histVars, faults, abort_timer, at_crash>>
  BY DEF flushAllLoggers_flush, HandlerAt, HGoto, Up
<1>2. UNCHANGED <<fs, buf, put_lines, written, ever, gone>>
  BY <1>1 DEF fileVars, histVars
<1>3. h' \in Handlers /\ h'.pc = "flush"
  BY <1>1 DEF HandlerInv, Handlers
<1>4. Owner \in Threads /\ Owner # Flusher /\ cursor \in Elems /\ TypeInv
  BY Sorts DEF CrashRing, CoreInv, TypeInv
<1>5. CrashRing'
  BY <1>1, <1>2, <1>4, CrashStartFlush
<1>6. SafeInv'
  <2>1. CASE flushing = NoThread
    <3>1. Moved(Owner, "flush", cursor, 0)
      <4>1. Moved(Owner, IF flushing = NoThread THEN "flush" ELSE "idle", cursor, 0)
        BY <1>1, <1>4, StartMoves DEF Pc
      <4> QED BY <2>1, <4>1
    <3>2. at_crash \subseteq written
      BY DEF HandlerInv
    <3> QED BY <1>1, <1>2, <1>3, <3>1, <3>2, SafeBegins
  <2>2. CASE flushing # NoThread
    <3>1. EverLines' = EverLines /\ (flushed' => flushed) /\ h.pc # "flush"
      BY <1>1, <1>2, <2>2 DEF EverLines
    <3> QED BY <1>1, <1>2, <3>1, SafeFrame
  <2> QED BY <2>1, <2>2
<1>7. HandlerInv'
  BY <1>1, <1>2, <1>3 DEF HandlerInv, Up, Crashed
<1>8. GoodInv'
  BY <1>1, <1>2, <1>3, GoodFrame DEF Crashed
<1> QED BY <1>5, <1>6, <1>7, <1>8

LEMMA StepMessageEnd ==
  ASSUME CrashInv, flushAllLoggers_end
  PROVE  CrashInv'
<1>1. /\ Up /\ h.pc = "flush" /\ th[Owner].pc = "idle" /\ UNCHANGED <<loggerVars, at_crash, flushed>>
      /\ abort_timer' = IF h.msg = "fault" THEN AbortRounds ELSE abort_timer
  BY DEF flushAllLoggers_end, HandlerAt, logStackBacktrace
<1>2. abort_timer' \in Nat
  BY <1>1, CrashAssumption DEF CrashInv, HandlerInv
<1>3. PICK next \in after(h.msg) :
        h' = CASE next = "explore" -> [h EXCEPT !.pc = "explore", !.todo = ActiveThreads]
               [] next = "done" -> [h EXCEPT !.pc = "done"]
               [] OTHER -> [h EXCEPT !.pc = "msg", !.msg = next]
  BY DEF flushAllLoggers_end
<1>4. h \in Handlers
  BY DEF CrashInv, HandlerInv
<1>5. next \in {"critical", "captured", "disabled", "explore", "stack", "done"}
  BY <1>3, <1>4 DEF after, Handlers
<1>6. ActiveThreads \subseteq Callers
  BY DEF ActiveThreads
<1>7. h' \in Handlers /\ h'.pc \in {"explore", "done", "msg"}
  <2>1. CASE next = "explore"
    BY <1>3, <1>4, <1>6, <2>1 DEF Handlers
  <2>2. CASE next = "done"
    BY <1>3, <1>4, <2>2 DEF Handlers
  <2>3. CASE next \notin {"explore", "done"}
    <3>1. h' = [h EXCEPT !.pc = "msg", !.msg = next]
      BY <1>3, <2>3
    <3> QED BY <1>4, <1>5, <2>3, <3>1 DEF Handlers
  <2> QED BY <2>1, <2>2, <2>3
<1> QED BY <1>1, <1>2, <1>7, StepHandlerOnly DEF Crashed

(* The handler waits for the loggers' lock or collects stacks. *)
LEMMA StepExplore ==
  ASSUME CrashInv,
         \/ enableOnlyOneDisplayer \/ sigsuspend \/ explored \/ handleStackTrace
         \/ \E t \in Callers : pthread_kill(t)
  PROVE  CrashInv'
<1>1. h \in Handlers /\ abort_timer \in Nat
  BY DEF CrashInv, HandlerInv
<1>2. /\ Up /\ h.pc \in {"display", "explore", "sent", "suspend"}
      /\ UNCHANGED <<loggerVars, at_crash, flushed, abort_timer>>
  BY DEF enableOnlyOneDisplayer, sigsuspend, explored, handleStackTrace, pthread_kill, HandlerAt
<1>3. h' \in Handlers /\ h'.pc \notin {"none", "put"}
  <2>1. CASE enableOnlyOneDisplayer
    BY <1>1, <2>1 DEF enableOnlyOneDisplayer, HGoto, Handlers
  <2>2. CASE sigsuspend
    BY <1>1, <2>2 DEF sigsuspend, HGoto, Handlers
  <2>3. CASE explored
    BY <1>1, <2>3 DEF explored, Handlers
  <2>4. CASE handleStackTrace
    <3>1. CASE h.pc = "suspend"
      <4>1. h' = [h EXCEPT !.pc = "explore", !.todo = @ \ {h.asked}, !.asked = NoThread]
        BY <2>4, <3>1 DEF handleStackTrace
      <4> QED BY <1>1, <4>1 DEF Handlers
    <3>2. CASE h.pc # "suspend"
      <4>1. h' = [h EXCEPT !.answered = TRUE] /\ h.pc = "sent"
        BY <2>4, <3>2 DEF handleStackTrace
      <4> QED BY <1>1, <4>1 DEF Handlers
    <3> QED BY <3>1, <3>2
  <2>5. ASSUME NEW t \in Callers, pthread_kill(t) PROVE h' \in Handlers /\ h'.pc \notin {"none", "put"}
    BY <1>1, <2>5 DEF pthread_kill, Handlers
  <2> QED BY <2>1, <2>2, <2>3, <2>4, <2>5
<1>4. th[Owner].pc = "idle"
  BY <1>2 DEF CrashInv, HandlerInv
<1> QED BY <1>1, <1>2, <1>3, <1>4, StepHandlerOnly DEF Crashed

LEMMA CrashInitially == CrashInit => CrashInv
<1> SUFFICES ASSUME CrashInit PROVE CrashInv
  OBVIOUS
<1>1. LoggerInv
  BY LoggerInit DEF CrashInit
<1>2. CrashRing
  BY <1>1 DEF LoggerInv, MemInv, CrashRing, CoreInv
<1>3. /\ h = NoCrash /\ abort_timer = 0 /\ at_crash = {} /\ flushed = FALSE
      /\ stage = "down" /\ faults = 0 /\ gone = {}
  BY DEF CrashInit, Init, MemoryInit
<1>4. \A t \in Threads : th[t].pc = "idle"
  BY <1>1, <1>3 DEF LoggerInv, MemInv, StageInv
<1>5. h \in Handlers /\ h.pc = "none"
  BY <1>3 DEF NoCrash, Handlers
<1>6. HandlerInv
  BY <1>3, <1>4, <1>5, Sorts DEF HandlerInv, Up, Crashed
<1>7. SafeInv /\ GoodInv
  BY <1>3 DEF SafeInv, GoodInv, Up
<1> QED BY <1>2, <1>6, <1>7 DEF CrashInv

LEMMA CrashStep == CrashInv /\ [CrashNext]_allVars => CrashInv'
<1> SUFFICES ASSUME CrashInv, [CrashNext]_allVars PROVE CrashInv'
  OBVIOUS
<1>1. CASE UNCHANGED allVars
  <2>1. UNCHANGED <<loggerVars, h, abort_timer, at_crash, flushed>>
    BY <1>1 DEF allVars, loggerVars, crashVars
  <2>2. /\ CrashRing' /\ RingKept
        /\ UNCHANGED <<th, logs, buf, ever, gone, fs, faults, stage, written>>
    BY <2>1, RingFrame DEF CrashInv
  <2>3. SafeInv'
    BY <2>1, <2>2, SafeOthers DEF CrashInv, CrashRing, CoreInv
  <2>4. HandlerInv'
    BY <2>1, <2>2 DEF CrashInv, HandlerInv, Up, Crashed
  <2>5. GoodInv'
    BY <2>1, <2>2, GoodFrame DEF CrashInv, Up, Crashed
  <2> QED BY <2>2, <2>3, <2>4, <2>5 DEF CrashInv
<1>2. CASE start /\ ~Crashed /\ UNCHANGED crashVars
  BY <1>2, StepStart
<1>3. ASSUME NEW t \in Callers, caller_put(t) \/ caller(t) PROVE CrashInv'
  BY <1>3, StepClaim, StepPut, StepFlush, Sorts DEF caller
<1>4. CASE flush_thread
  BY <1>4, StepFlushWorker, StepFlush, Sorts DEF flush_thread
<1>5. CASE abort_tick
  BY <1>5, StepTick
<1>6. ASSUME NEW t \in Callers \cup {Flusher}, crash_in(t) PROVE CrashInv'
  BY <1>6, StepCrash
<1>7. CASE Handler \/ handleStackTrace
  <2>1. CASE handler
    BY <2>1, StepPut, StepFlush, Sorts DEF handler
  <2>2. CASE handler_end
    <3>1. exit /\ Crashed /\ UNCHANGED <<faults, h, at_crash, flushed, abort_timer>>
      BY <2>2 DEF handler_end, HandlerAt, Crashed, crashVars
    <3>2. abort_timer' \in Nat
      BY <3>1 DEF CrashInv, HandlerInv
    <3> QED BY <3>1, <3>2, StepExit
  <2> QED BY <1>7, <2>1, <2>2, StepMessagePut, StepMessageFlush, StepMessageEnd, StepExplore DEF Handler
<1> QED BY <1>1, <1>2, <1>3, <1>4, <1>5, <1>6, <1>7 DEF CrashNext

LEMMA CrashInvariant == CrashSpec => []CrashInv
<1>1. CrashInit => CrashInv
  BY CrashInitially
<1>2. CrashInv /\ [CrashNext]_allVars => CrashInv'
  BY CrashStep
<1> QED BY <1>1, <1>2, PTL DEF CrashSpec
-----------------------------------------------------------------------------
(* The threads go on while the handler works and the thread that crashed   *)
(* keeps what it held: no flush takes up half a line or a line twice.      *)
THEOREM CrashWholeLines == CrashSpec => []WholeLinesOnce
<1>1. CrashInv => WholeLinesOnce
  <2> SUFFICES ASSUME CrashInv PROVE WholeLinesOnce
    OBVIOUS
  <2> USE DEF CrashInv, CrashRing
  <2>1. Torn \notin buf \cup EverLines
    BY Sorts DEF CoreInv, NumberInv, PlaceInv
  <2>2. \A n \in DOMAIN ever : ever[n] \cap (buf \cup RingLines) = {}
    <3> SUFFICES ASSUME NEW n \in DOMAIN ever, NEW x \in ever[n], x \in buf \cup RingLines
                 PROVE  FALSE
      OBVIOUS
    <3>1. x \in EverLines
      BY EverLinesIs
    <3> QED BY <3>1, LinesInRing DEF PlaceInv
  <2>3. \A m, n \in DOMAIN ever : m # n => ever[m] \cap ever[n] = {}
    BY DEF PlaceInv
  <2> QED BY <2>1, <2>2, <2>3 DEF WholeLinesOnce, EverLines
<1> QED BY <1>1, CrashInvariant, PTL

(* The end of the handler, whatever fails: if one of its flushes was not   *)
(* skipped, what was written before the crash has left the ring and the    *)
(* stream by then.  A line that is not in a file was lost to a stream that *)
(* had failed.  Without that flush "Flushed all logs safely" may be false. *)
SafeOrLost == Up /\ h.pc = "done" /\ flushed => at_crash \subseteq EverLines \cup gone

THEOREM SafeOrLostCorrect == CrashSpec => []SafeOrLost
<1>1. CrashInv => SafeOrLost
  BY DEF CrashInv, SafeInv, SafeOrLost
<1> QED BY <1>1, CrashInvariant, PTL

(* As long as opens and writes do not fail, and again if one flush of the  *)
(* handler was not skipped, all of it is in the files.                     *)
THEOREM SafeCorrect == ASSUME MaxFaults = 0 PROVE CrashSpec => []SafeMeansFlushed
<1>1. CrashInv => SafeMeansFlushed
  BY DEF CrashInv, SafeInv, GoodInv, SafeMeansFlushed, EverLines
<1> QED BY <1>1, CrashInvariant, PTL
=============================================================================
