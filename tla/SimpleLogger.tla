---------------------------- MODULE SimpleLogger ----------------------------
(***************************************************************************)
(* SimpleLogger with the two threads of SimpleLoggerMgr.  Callers put      *)
(* lines into a ring of elements without a lock; a full ring is flushed to *)
(* the log file by the caller that needs room, or every 500 ms by the      *)
(* flush thread.  A file that exceeds its limit is followed by one with    *)
(* the next revision number; the compression thread packs the old one and  *)
(* removes the oldest.  A step is one atomic operation on an element, the  *)
(* cursor or the flush lock, or one command of the compression thread.     *)
(*                                                                         *)
(* The files outlive the process, which may crash or stop and start again. *)
(* Lines below the log level and the console are left out; the crash       *)
(* handler is in LoggerCrash.                                              *)
(***************************************************************************)
EXTENDS Integers, Sequences, FiniteSets, FiniteSetsExt, Functions

CONSTANTS Callers,      \* threads that log
          Owner,        \* the thread that destroys the logger
          Flusher,      \* SimpleLoggerMgr::flushWorker
          NoThread,     \* nobody holds the lock
          Torn,         \* a line that is being copied
          NumElems,     \* logs.size()
          FileLimit,    \* maxLogFileSize, in lines
          MaxLogFiles,  \* maxLogFiles
          MaxLines,     \* bound on the lines of the callers
          MaxStarts,    \* bound on the starts of the process
          MaxFaults     \* bound on crashes and failed opens, writes and commands

ASSUME LoggerAssumption ==
  /\ NumElems \in Nat \ {0} /\ FileLimit \in Nat \ {0} /\ MaxLogFiles \in Nat
  /\ MaxLines \in Nat /\ MaxStarts \in Nat /\ MaxFaults \in Nat
  /\ Owner \notin Callers /\ Flusher \notin Callers \cup {Owner}
  /\ NoThread \notin Callers \cup {Owner, Flusher}
  /\ Torn \notin (Callers \cup {Owner}) \X Nat

VARIABLES cursor,      \* cursor
          logs,        \* logs: status and ctx of the elements
          th,          \* threads: where they are in put or flush
          flushing,    \* who holds flushingLogs
          fs,          \* the file stream: closed, good, failed (not open), bad (open)
          buf,         \* lines in the buffer of the stream
          cur_revnum,  \* curRevnum
          min_revnum,  \* minRevnum
          comp_jobs,   \* numCompJobs
          comp_elems,  \* pendingCompElems
          comp,        \* the compression thread
          registered,  \* whether the logger is in SimpleLoggerMgr::loggers
          stage,       \* down, run, the place in the destructor, or returned from it
          plain,       \* log files: revision -> lines
          tar,         \* compressed log files
          put_lines,   \* history: lines put, by thread
          written,     \* history: lines whose write succeeded
          ever,        \* history: lines that went to a revision
          gone,        \* history: lines lost to a crash or a failed command
          starts,      \* number of starts
          faults       \* number of faults

ringVars == <<cursor, logs, th, flushing>>
fileVars == <<fs, buf, cur_revnum, min_revnum, plain, tar>>
compVars == <<comp_jobs, comp_elems, comp>>
ctlVars == <<registered, stage, starts>>
histVars == <<put_lines, written, ever, gone>>
vars == <<ringVars, fileVars, compVars, ctlVars, histVars, faults>>

Writers == Callers \cup {Owner}
Elems == 0 .. NumElems - 1
Idle == [pc |-> "idle", elem |-> 0, n |-> 0, lapped |-> FALSE]
CompIdle == [pc |-> "idle", file |-> 0]
LogElem == [status |-> "CLEAN", ctx |-> Torn]

Up == stage # "down"
Fault == faults < MaxFaults /\ faults' = faults + 1
Line(t) == <<t, put_lines[t]>>
RingLines == {logs[k].ctx : k \in {j \in Elems : logs[j].status \in {"DIRTY", "FLUSHING"}}}
At(t, pc) == Up /\ th[t].pc = pc
Elem(t) == logs[th[t].elem]
Goto(t, pc) == th' = [th EXCEPT ![t].pc = pc]
Return(t) == th' = [th EXCEPT ![t] = Idle]
SetStatus(k, s) == logs' = [logs EXCEPT ![k].status = s]
-----------------------------------------------------------------------------
(* LogElem *)

available(e) == e.status \in {"CLEAN", "DIRTY"}
needToFlush(e) == e.status = "DIRTY"
-----------------------------------------------------------------------------
(* SimpleLogger::put *)

(* The cursor's compare-and-swap gives t its element.  Whoever else has    *)
(* this element and has not written it yet is a whole round away: both are *)
(* lapped.                                                                 *)
claim(t) ==
  /\ th[t].pc = "idle"
  /\ LET rivals == {u \in Writers : th[u].pc # "idle" /\ th[u].elem = cursor}
     IN th' = [u \in DOMAIN th |->
                 IF u = t
                 THEN [pc |-> "put", elem |-> cursor, n |-> 0, lapped |-> rivals # {}]
                 ELSE [th[u] EXCEPT !.lapped = @ \/ u \in rivals]]
  /\ cursor' = (cursor + 1) % NumElems
  /\ put_lines' = [put_lines EXCEPT ![t] = @ + 1]
  /\ UNCHANGED <<logs, flushing, fileVars, compVars, registered, starts, written, ever, gone, faults>>

(* A line is discarded at once if the stream has failed. *)
put(t) ==
  /\ stage = "run" /\ fs \notin {"failed", "bad"}
  /\ SumFunctionOnSet(put_lines, Callers) < MaxLines
  /\ claim(t)
  /\ UNCHANGED stage

put_available(t) ==
  /\ At(t, "put") /\ available(Elem(t))
  /\ Goto(t, "check")
  /\ UNCHANGED <<cursor, logs, flushing, fileVars, compVars, ctlVars, histVars, faults>>

(* Faulty variant: a full element is not noticed. *)
put_check_never_full(t) ==
  /\ At(t, "check") /\ Goto(t, "write")
  /\ UNCHANGED <<cursor, logs, flushing, fileVars, compVars, ctlVars, histVars, faults>>

put_check(t) ==
  /\ At(t, "check")
  /\ Goto(t, IF needToFlush(Elem(t)) THEN "full" ELSE "write")
  /\ UNCHANGED <<cursor, logs, flushing, fileVars, compVars, ctlVars, histVars, faults>>

(* try_to_lock of flush. *)
start_flush(t, from, or_else) ==
  /\ flushing' = IF flushing = NoThread THEN t ELSE flushing
  /\ th' = [th EXCEPT ![t].pc = IF flushing = NoThread THEN "flush" ELSE or_else,
                      ![t].elem = from, ![t].n = 0]

put_flush(t) ==
  /\ At(t, "full")
  /\ start_flush(t, th[t].elem, "wait")
  /\ UNCHANGED <<cursor, logs, fileVars, compVars, ctlVars, histVars, faults>>

put_wait(t) ==
  /\ At(t, "wait") /\ ~needToFlush(Elem(t))
  /\ Goto(t, "write")
  /\ UNCHANGED <<cursor, logs, flushing, fileVars, compVars, ctlVars, histVars, faults>>

(* LogElem::write; put ignores its result. *)
write(t) ==
  /\ At(t, "write")
  /\ IF Elem(t).status = "CLEAN"
     THEN /\ logs' = [logs EXCEPT ![th[t].elem] = [status |-> "WRITING", ctx |-> Torn]]
          /\ Goto(t, "copy")
     ELSE Return(t) /\ UNCHANGED logs
  /\ UNCHANGED <<cursor, flushing, fileVars, compVars, ctlVars, histVars, faults>>

write_end(t) ==
  /\ At(t, "copy")
  /\ logs' = [logs EXCEPT ![th[t].elem] = [status |-> "DIRTY", ctx |-> Line(t)]]
  /\ Return(t)
  /\ written' = written \cup {Line(t)}
  /\ UNCHANGED <<cursor, flushing, fileVars, compVars, ctlVars, put_lines, ever, gone, faults>>
-----------------------------------------------------------------------------
(* SimpleLogger::flush, by the holder of the lock *)

Position(t) == (th[t].elem + th[t].n) % NumElems

(* Faulty variant: an element is taken while it is being written. *)
flush_elem_in_use(t) ==
  /\ At(t, "flush") /\ th[t].n < NumElems
  /\ IF logs[Position(t)].status # "CLEAN"
     THEN SetStatus(Position(t), "FLUSHING") /\ Goto(t, "out")
     ELSE th' = [th EXCEPT ![t].n = @ + 1] /\ UNCHANGED logs
  /\ UNCHANGED <<cursor, flushing, fileVars, compVars, ctlVars, histVars, faults>>

(* LogElem::flush: only a dirty element is taken. *)
flush_elem(t) ==
  /\ At(t, "flush") /\ th[t].n < NumElems
  /\ IF needToFlush(logs[Position(t)])
     THEN SetStatus(Position(t), "FLUSHING") /\ Goto(t, "out")
     ELSE th' = [th EXCEPT ![t].n = @ + 1] /\ UNCHANGED logs
  /\ UNCHANGED <<cursor, flushing, fileVars, compVars, ctlVars, histVars, faults>>

(* fs.write.  A write error leaves the file open and the stream failed;    *)
(* what this flush had passed to the stream counts as lost.  A failed      *)
(* stream takes nothing.                                                   *)
flush_elem_end(t) ==
  /\ At(t, "out")
  /\ LET line == logs[Position(t)].ctx
     IN \/ /\ fs = "good"
           /\ buf' = buf \cup {line} /\ UNCHANGED <<fs, gone, faults>>
        \/ /\ fs = "good" /\ Fault
           /\ fs' = "bad" /\ buf' = {} /\ gone' = gone \cup buf \cup {line}
        \/ /\ fs # "good"
           /\ gone' = gone \cup {line} /\ UNCHANGED <<fs, buf, faults>>
  /\ logs' = [logs EXCEPT ![Position(t)] = LogElem]
  /\ th' = [th EXCEPT ![t].pc = "flush", ![t].n = @ + 1]
  /\ UNCHANGED <<cursor, flushing, cur_revnum, min_revnum, plain, tar,
                 compVars, ctlVars, put_lines, written, ever>>

(* Files by revision number: one is written, or opened for appending. *)
With(f, n, lines) == [m \in {n} \cup DOMAIN f |-> IF m = n THEN lines ELSE f[m]]
Opened(f, n) == IF n \in DOMAIN f THEN f ELSE With(f, n, {})

(* Faulty variant: the job is queued and not counted. *)
rotate_uncounted(lines) ==
  /\ cur_revnum' = cur_revnum + 1
  /\ fs' = "good" /\ UNCHANGED <<faults, comp_jobs>>
  /\ plain' = Opened(With(plain, cur_revnum, lines), cur_revnum + 1)
  /\ comp_elems' = Append(comp_elems, cur_revnum)
  /\ ever' = Opened(With(ever, cur_revnum, ever[cur_revnum] \cup buf), cur_revnum + 1)

(* A new file after the limit; opening it may fail. *)
rotate(lines) ==
  /\ cur_revnum' = cur_revnum + 1
  /\ \/ /\ fs' = "good" /\ UNCHANGED faults
        /\ plain' = Opened(With(plain, cur_revnum, lines), cur_revnum + 1)
     \/ /\ fs' = "failed" /\ Fault
        /\ plain' = With(plain, cur_revnum, lines)
  /\ comp_jobs' = comp_jobs + 1
  /\ comp_elems' = Append(comp_elems, cur_revnum)
  /\ ever' = Opened(With(ever, cur_revnum, ever[cur_revnum] \cup buf), cur_revnum + 1)

(* Faulty variant: the stream is not flushed. *)
fs_flush_missing == UNCHANGED <<fs, plain, cur_revnum, comp_jobs, comp_elems, ever, faults>>

(* The stream is flushed and the file followed by a new one. *)
fs_flush ==
  IF fs # "good"
  THEN UNCHANGED <<fs, plain, cur_revnum, comp_jobs, comp_elems, ever, faults>>
  ELSE LET lines == plain[cur_revnum] \cup buf
       IN IF Cardinality(lines) > FileLimit
          THEN rotate(lines)
          ELSE /\ plain' = [plain EXCEPT ![cur_revnum] = lines]
               /\ ever' = [ever EXCEPT ![cur_revnum] = @ \cup buf]
               /\ UNCHANGED <<fs, cur_revnum, comp_jobs, comp_elems, faults>>

flush_return(t) ==
  IF t \in Callers \/ (t = Owner /\ stage = "put") THEN Goto(t, "write") ELSE Return(t)

(* Faulty variant: a failed stream returns without unlocking. *)
flush_end_keeps_lock(t) ==
  /\ At(t, "flush") /\ th[t].n = NumElems
  /\ fs_flush
  /\ buf' = {}
  /\ flushing' = IF fs # "good" THEN flushing ELSE NoThread
  /\ flush_return(t)
  /\ UNCHANGED <<cursor, logs, min_revnum, tar, comp, ctlVars, put_lines, written, gone>>

flush_end(t) ==
  /\ At(t, "flush") /\ th[t].n = NumElems
  /\ fs_flush
  /\ buf' = {}
  /\ flushing' = NoThread
  /\ flush_return(t)
  /\ UNCHANGED <<cursor, logs, min_revnum, tar, comp, ctlVars, put_lines, written, gone>>

(* SimpleLoggerMgr::flushWorker with flushAllLoggers: the loggers' lock is *)
(* held while the flusher is not idle.                                     *)
flushWorker ==
  /\ At(Flusher, "idle") /\ registered
  /\ start_flush(Flusher, cursor, "idle")
  /\ UNCHANGED <<cursor, logs, fileVars, compVars, ctlVars, histVars, faults>>
-----------------------------------------------------------------------------
(* SimpleLoggerMgr::compressWorker and SimpleLogger::doCompression *)

Comp(pc) == Up /\ comp.pc = pc
Without(f, n) == Restrict(f, DOMAIN f \ {n})

compressWorker ==
  /\ Comp("idle") /\ comp_elems # <<>>
  /\ comp' = [pc |-> "tar", file |-> Head(comp_elems)]
  /\ comp_elems' = Tail(comp_elems)
  /\ UNCHANGED <<ringVars, fileVars, comp_jobs, ctlVars, histVars, faults>>

(* The result of the command is ignored. *)
compress_tar ==
  /\ Comp("tar")
  /\ \/ tar' = With(tar, comp.file, plain[comp.file]) /\ UNCHANGED <<gone, faults>>
     \/ gone' = gone \cup plain[comp.file] /\ Fault /\ UNCHANGED tar
  /\ comp' = [comp EXCEPT !.pc = "rm"]
  /\ UNCHANGED <<ringVars, fs, buf, cur_revnum, min_revnum, plain, comp_jobs,
                 comp_elems, ctlVars, put_lines, written, ever>>

compress_rm ==
  /\ Comp("rm")
  /\ plain' = Without(plain, comp.file)
  /\ comp' = [comp EXCEPT !.pc = "expire"]
  /\ UNCHANGED <<ringVars, fs, buf, cur_revnum, min_revnum, tar, comp_jobs,
                 comp_elems, ctlVars, histVars, faults>>

(* Faulty variant: one file too many. *)
expires_one_more == MaxLogFiles > 0 /\ comp.file >= MaxLogFiles
                    /\ min_revnum <= comp.file - MaxLogFiles + 1

(* One round of the loop that removes the oldest files. *)
expires == MaxLogFiles > 0 /\ comp.file >= MaxLogFiles
           /\ min_revnum <= comp.file - MaxLogFiles

compress_expire ==
  /\ Comp("expire") /\ expires
  /\ plain' = Without(plain, min_revnum)
  /\ tar' = Without(tar, min_revnum)
  /\ min_revnum' = min_revnum + 1
  /\ UNCHANGED <<ringVars, fs, buf, cur_revnum, compVars, ctlVars, histVars, faults>>

(* Faulty variant: the job is not counted as done. *)
compress_end_keeps_job ==
  /\ Comp("expire") /\ ~expires
  /\ comp' = CompIdle
  /\ UNCHANGED <<ringVars, fileVars, comp_jobs, comp_elems, ctlVars, histVars, faults>>

compress_end ==
  /\ Comp("expire") /\ ~expires
  /\ comp_jobs' = comp_jobs - 1
  /\ comp' = CompIdle
  /\ UNCHANGED <<ringVars, fileVars, comp_elems, ctlVars, histVars, faults>>
-----------------------------------------------------------------------------
(* Construction, destruction, crash *)

MemoryInit ==
  /\ cursor = 0
  /\ logs = [k \in Elems |-> LogElem]
  /\ th = [t \in Writers \cup {Flusher} |-> Idle]
  /\ flushing = NoThread
  /\ comp_jobs = 0 /\ comp_elems = <<>> /\ comp = CompIdle
  /\ fs = "closed" /\ buf = {} /\ registered = FALSE
  /\ stage = "down"

Init ==
  /\ MemoryInit
  /\ cur_revnum = 0 /\ min_revnum = 0
  /\ plain = <<>> /\ tar = <<>>
  /\ put_lines = [t \in Writers |-> 0]
  /\ written = {} /\ ever = <<>> /\ gone = {}
  /\ starts = 0 /\ faults = 0

(* The process ends: what was in memory is lost. *)
exit ==
  /\ cursor' = 0
  /\ logs' = [k \in Elems |-> LogElem]
  /\ th' = [t \in Writers \cup {Flusher} |-> Idle]
  /\ flushing' = NoThread
  /\ comp_jobs' = 0 /\ comp_elems' = <<>> /\ comp' = CompIdle
  /\ fs' = "closed" /\ buf' = {} /\ registered' = FALSE
  /\ stage' = "down"
  /\ gone' = gone \cup RingLines \cup buf
  /\ UNCHANGED <<cur_revnum, min_revnum, plain, tar, starts, put_lines, written, ever>>

crash == Up /\ Fault /\ exit

(* Faulty variants: a packed file counts like any other, or not at all. *)
findMaxRevNum_packed_too == Max({0} \cup DOMAIN plain \cup DOMAIN tar)
findMinRevNum_plain_only == IF DOMAIN plain = {} THEN 0 ELSE Min(DOMAIN plain)

(* A packed file has the next number as its follower. *)
findMaxRevNum == Max({0} \cup DOMAIN plain \cup {n + 1 : n \in DOMAIN tar})
findMinRevNum ==
  LET found == DOMAIN plain \cup DOMAIN tar IN IF found = {} THEN 0 ELSE Min(found)

(* Constructor and start; the file is appended to if it exists.  The lines *)
(* start puts are lines of a caller.                                       *)
start ==
  /\ stage = "down" /\ starts < MaxStarts
  /\ starts' = starts + 1
  /\ stage' = "run"
  /\ cur_revnum' = findMaxRevNum
  /\ min_revnum' = findMinRevNum
  /\ \/ /\ fs' = "good" /\ registered' = TRUE
        /\ plain' = Opened(plain, findMaxRevNum) /\ UNCHANGED faults
     \/ /\ fs' = "failed" /\ registered' = FALSE
        /\ Fault /\ UNCHANGED plain
  /\ ever' = Opened(ever, findMaxRevNum)
  /\ UNCHANGED <<ringVars, buf, tar, compVars, put_lines, written, gone>>

(* ~SimpleLogger, with nobody left who logs: flushAll ... *)
destroy ==
  /\ stage = "run" /\ \A t \in Callers : th[t].pc = "idle"
  /\ start_flush(Owner, cursor, "idle")
  /\ stage' = "remove"
  /\ UNCHANGED <<cursor, logs, fileVars, compVars, registered, starts, histVars, faults>>

(* Faulty variant: a flush that is under way is not waited for. *)
stop_removeLogger_at_once ==
  /\ stage = "remove" /\ fs # "failed" /\ th[Owner].pc = "idle"
  /\ registered' = FALSE
  /\ stage' = "line"
  /\ UNCHANGED <<ringVars, fileVars, compVars, starts, histVars, faults>>

(* ... then stop, which waits for the loggers' lock first ...              *)
stop_removeLogger ==
  /\ stage = "remove" /\ fs # "failed"
  /\ th[Owner].pc = "idle" /\ th[Flusher].pc = "idle"
  /\ registered' = FALSE
  /\ stage' = "line"
  /\ UNCHANGED <<ringVars, fileVars, compVars, starts, histVars, faults>>

(* Without an open file it returns, with the logger still listed and jobs  *)
(* under way.  The threads that use the logger from now on may find it as  *)
(* it was or crash.                                                        *)
stop_not_open ==
  /\ stage = "remove" /\ fs = "failed" /\ th[Owner].pc = "idle"
  /\ stage' = "returned"
  /\ UNCHANGED <<ringVars, fileVars, compVars, registered, starts, histVars, faults>>

process_end == stage = "returned" /\ exit /\ UNCHANGED faults

(* ... and puts a last line, if the stream is good. *)
stop_put ==
  /\ stage = "line"
  /\ \/ fs = "good" /\ claim(Owner)
     \/ fs # "good" /\ UNCHANGED <<ringVars, fileVars, compVars, registered, starts, histVars, faults>>
  /\ stage' = "put"

stop_flushAll ==
  /\ stage = "put" /\ th[Owner].pc = "idle"
  /\ start_flush(Owner, cursor, "idle")
  /\ stage' = "close"
  /\ UNCHANGED <<cursor, logs, fileVars, compVars, registered, starts, histVars, faults>>

stop_close ==
  /\ stage = "close" /\ th[Owner].pc = "idle"
  /\ fs' = "closed"
  /\ stage' = "wait"
  /\ UNCHANGED <<ringVars, buf, cur_revnum, min_revnum, plain, tar, compVars,
                 registered, starts, histVars, faults>>

stop_wait == stage = "wait" /\ comp_jobs = 0 /\ exit /\ UNCHANGED faults
-----------------------------------------------------------------------------
Put(t) == \/ put_available(t) \/ put_check(t) \/ put_flush(t) \/ put_wait(t)
          \/ write(t) \/ write_end(t)
Flush(t) == flush_elem(t) \/ flush_elem_end(t) \/ flush_end(t)
FlushThread == flushWorker \/ Flush(Flusher)
CompressThread == \/ compressWorker \/ compress_tar \/ compress_rm
                  \/ compress_expire \/ compress_end
Stop == \/ stop_removeLogger \/ stop_not_open \/ stop_put \/ stop_flushAll
        \/ stop_close \/ stop_wait

Next ==
  \/ \E t \in Callers : put(t)
  \/ \E t \in Writers : Put(t) \/ Flush(t)
  \/ FlushThread
  \/ CompressThread
  \/ start \/ destroy \/ Stop \/ process_end \/ crash

Spec == Init /\ [][Next]_vars

(* Threads are scheduled; the flush thread wakes every 500 ms and so does  *)
(* the compression thread.  The flush thread sleeps without the loggers'   *)
(* lock between two rounds, so who waits for that lock gets it in the end. *)
FairSpec ==
  /\ Spec
  /\ \A t \in Callers : WF_vars(Put(t) \/ Flush(t))
  /\ WF_vars(Put(Owner) \/ Flush(Owner) \/ Stop)
  /\ SF_vars(stop_removeLogger)
  /\ WF_vars(FlushThread)
  /\ WF_vars(CompressThread)
-----------------------------------------------------------------------------
(* Properties *)

Lines == Writers \X (Nat \ {0})

(* The type invariant; numCompJobs counts the jobs queued or under way. *)
LoggerTypeOK ==
  /\ cursor \in Elems
  /\ th \in [Writers \cup {Flusher} ->
             [pc : {"idle", "put", "check", "full", "wait", "write", "copy", "flush", "out"},
              elem : Elems, n : 0 .. NumElems, lapped : BOOLEAN]]
  /\ logs \in [Elems -> [status : {"CLEAN", "WRITING", "DIRTY", "FLUSHING"},
                         ctx : Lines \cup {Torn}]]
  /\ flushing \in Writers \cup {Flusher, NoThread}
  /\ fs \in {"closed", "good", "failed", "bad"}
  /\ stage \in {"down", "run", "remove", "returned", "line", "put", "close", "wait"}
  /\ registered \in BOOLEAN
  /\ comp \in [pc : {"idle", "tar", "rm", "expire"}, file : Nat]
  /\ comp_jobs = Len(comp_elems) + (IF comp.pc = "idle" THEN 0 ELSE 1)
  /\ buf \cup written \cup gone \subseteq Lines \cup {Torn}
  /\ cur_revnum \in Nat /\ min_revnum \in Nat

Disk(n) == (IF n \in DOMAIN plain THEN plain[n] ELSE {})
           \cup (IF n \in DOMAIN tar THEN tar[n] ELSE {})

(* What a file holds are whole lines, and a line is in one revision only: *)
(* no flush reads an element that is being written, or reads it twice.    *)
WholeLinesOnce ==
  /\ Torn \notin buf \cup UNION Range(ever)
  /\ \A n \in DOMAIN ever : ever[n] \cap (buf \cup RingLines) = {}
  /\ \A m, n \in DOMAIN ever : m # n => ever[m] \cap ever[n] = {}

(* A line that was written is in the ring, on its way to the file or in   *)
(* the file, until its file expires: MaxLogFiles revisions before the     *)
(* newest are kept.  Only a crash, a failed stream or a failed packing    *)
(* loses it.                                                              *)
WrittenIsKept ==
  /\ written \subseteq RingLines \cup buf \cup gone \cup UNION Range(ever)
  /\ \A n \in DOMAIN ever :
       (\A m \in DOMAIN ever : m <= n + MaxLogFiles) => ever[n] \ gone \subseteq Disk(n)

(* A packed revision is closed for good: a restarted logger never appends *)
(* to its number, which would overwrite the packed file later.            *)
PackedIsFinal == fs = "good" => \A n \in DOMAIN tar : n < cur_revnum

(* No file is left behind by the removal of old ones. *)
NoneForgotten == Up => \A n \in DOMAIN plain \cup DOMAIN tar : n >= min_revnum

(* put gives up a line only if its element is being flushed at that very  *)
(* moment or another caller, a round of the ring away, has the same       *)
(* element.                                                               *)
DroppedOnlyIfLapped ==
  [][\A t \in Writers :
       th[t].pc = "write" /\ th'[t].pc = "idle" /\ stage' # "down"
         => th[t].lapped \/ Elem(t).status = "FLUSHING"]_vars

(* When stop waits for the compression thread, nothing is left in memory: *)
(* its last flushAll cannot have been skipped.                            *)
StoppedIsFlushed ==
  stage = "wait" => RingLines = {} /\ buf = {} /\ flushing = NoThread

(* A caller that waits for room in the ring gets on, also if the flush it  *)
(* waits for has passed its element already.                              *)
PutReturns == \A t \in Callers : []<>(th[t].pc = "idle")

(* The destructor ends: the jobs it waits for are done. *)
StopEnds == []<>(stage \in {"down", "run", "returned"})
=============================================================================
