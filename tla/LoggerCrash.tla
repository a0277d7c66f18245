---------------------------- MODULE LoggerCrash ----------------------------
(***************************************************************************)
(* The crash handler of SimpleLoggerMgr.  It runs in the thread that       *)
(* crashed, wherever that thread was: what the thread held (an element of  *)
(* the ring, the flush lock, the loggers' lock) stays held.  The handler   *)
(* logs a line, collects stacks, logs them, prints that the logs are safe  *)
(* and ends the process; the other threads go on meanwhile.  The flush     *)
(* thread counts the abort timer down between two of its rounds.           *)
(*                                                                         *)
(* The ring and the flushes are those of SimpleLogger.  The handler uses   *)
(* the frame of Owner, whose destructor does not run in this module; stage *)
(* is "put" while the handler is inside put, as it is for Owner.  Files    *)
(* stay below their limit and can be written.                              *)
(***************************************************************************)
EXTENDS SimpleLogger

CONSTANT AbortRounds   \* rounds of the flush thread in 60 seconds

ASSUME CrashAssumption == AbortRounds \in Nat \ {0}

VARIABLES h,            \* the handler
          abort_timer,  \* abortTimer, in rounds of the flush thread
          tick,         \* the flush thread is past flushAllLoggers
          at_crash,     \* history: the lines written before the crash
          flushed       \* history: a flush of the handler was not skipped

crashVars == <<h, abort_timer, tick, at_crash, flushed>>
loggerVars == vars
allVars == <<vars, crashVars>>

NoCrash == [pc |-> "none", victim |-> NoThread, msg |-> "fault", todo |-> {},
            asked |-> NoThread, answered |-> FALSE]
Crashed == h.pc # "none"
Alive(t) == t # h.victim
HandlerHasLoggers == h.pc \in {"put", "flush"}
HandlerAt(pc) == Up /\ h.pc = pc
HGoto(pc) == h' = [h EXCEPT !.pc = pc]

(* The loggers' lock, unless the handler has it itself. *)
LoggersFree == th[Flusher].pc = "idle"

CrashInit ==
  /\ Init
  /\ h = NoCrash /\ abort_timer = 0 /\ tick = FALSE
  /\ at_crash = {} /\ flushed = FALSE
-----------------------------------------------------------------------------
(* Threads that have not crashed *)

caller_put(t) ==
  /\ Alive(t) /\ fs = "good" /\ Up
  /\ SumFunctionOnSet(put_lines, Callers) < MaxLines
  /\ claim(t)
  /\ UNCHANGED <<stage, crashVars>>

caller(t) ==
  /\ Alive(t) /\ (Put(t) \/ Flush(t))
  /\ UNCHANGED crashVars

(* One round of the flush thread, which needs the loggers' lock. *)
flush_thread_round ==
  /\ Alive(Flusher) /\ ~tick /\ ~HandlerHasLoggers
  /\ flushWorker
  /\ tick' = TRUE
  /\ UNCHANGED <<h, abort_timer, at_crash, flushed>>

flush_thread ==
  \/ flush_thread_round
  \/ Alive(Flusher) /\ Flush(Flusher) /\ UNCHANGED crashVars

(* The timer runs out: "STACK DUMP TIMEOUT, FORCE ABORT". *)
force_abort == exit /\ UNCHANGED faults

abort_tick ==
  /\ Up /\ Alive(Flusher) /\ tick /\ th[Flusher].pc = "idle"
  /\ tick' = FALSE
  /\ \/ abort_timer = 1 /\ force_abort /\ abort_timer' = 0
     \/ /\ abort_timer # 1
        /\ abort_timer' = Max({0, abort_timer - 1})
        /\ UNCHANGED loggerVars
  /\ UNCHANGED <<h, at_crash, flushed>>
-----------------------------------------------------------------------------
(* The handler: handleSegFault and handleSegAbort *)

crash_in(t) ==
  /\ stage = "run" /\ ~Crashed
  /\ h' = [NoCrash EXCEPT !.pc = "display", !.victim = t]
  /\ at_crash' = written
  /\ UNCHANGED <<loggerVars, abort_timer, tick, flushed>>

enableOnlyOneDisplayer ==
  /\ HandlerAt("display") /\ LoggersFree
  /\ HGoto("msg")
  /\ UNCHANGED <<loggerVars, abort_timer, tick, at_crash, flushed>>

(* flushAllLoggers with a message: the line is put ... *)
flushAllLoggers_put ==
  /\ HandlerAt("msg") /\ LoggersFree
  /\ claim(Owner)
  /\ stage' = "put"
  /\ HGoto("put")
  /\ UNCHANGED <<abort_timer, tick, at_crash, flushed>>

(* ... and the ring flushed, unless somebody else is at it. *)
flushAllLoggers_flush ==
  /\ HandlerAt("put") /\ th[Owner].pc = "idle"
  /\ start_flush(Owner, cursor, "idle")
  /\ stage' = "run"
  /\ HGoto("flush")
  /\ flushed' = (flushed \/ flushing = NoThread)
  /\ UNCHANGED <<cursor, logs, fileVars, compVars, registered, starts, histVars, faults,
                 abort_timer, tick, at_crash>>

handler == (Put(Owner) \/ Flush(Owner)) /\ UNCHANGED crashVars

(* Faulty variant: the timer is set when the stacks have been collected. *)
logStackBacktrace_late_timer ==
  abort_timer' = IF h.msg = "stack" THEN AbortRounds ELSE abort_timer

(* logStackBacktrace sets the timer before anything else. *)
logStackBacktrace ==
  abort_timer' = IF h.msg = "fault" THEN AbortRounds ELSE abort_timer

(* What comes after a message: another one, the other threads, the end.    *)
(* Whether the other threads are explored is a setting that may change.    *)
after(msg) ==
  CASE msg = "fault" -> {"critical"}
    [] msg = "critical" -> {"captured", "disabled"}
    [] msg = "captured" -> {"explore"}
    [] msg \in {"disabled", "gotall"} -> {"stack"}
    [] msg = "stack" -> {"done"}

ActiveThreads == {t \in Callers \ {h.victim} : put_lines[t] > 0}

flushAllLoggers_end ==
  /\ HandlerAt("flush") /\ th[Owner].pc = "idle"
  /\ logStackBacktrace
  /\ \E next \in after(h.msg) :
       h' = CASE next = "explore" -> [h EXCEPT !.pc = "explore", !.todo = ActiveThreads]
              [] next = "done" -> [h EXCEPT !.pc = "done"]
              [] OTHER -> [h EXCEPT !.pc = "msg", !.msg = next]
  /\ UNCHANGED <<loggerVars, tick, at_crash, flushed>>

(* logStackBackTraceOtherThreads signals one thread after the other and    *)
(* waits for its answer in sigsuspend.                                     *)
pthread_kill(t) ==
  /\ HandlerAt("explore") /\ t \in h.todo
  /\ h' = [h EXCEPT !.pc = "sent", !.asked = t, !.answered = FALSE]
  /\ UNCHANGED <<loggerVars, abort_timer, tick, at_crash, flushed>>

(* The thread adds its stack and signals back.  A signal that comes before *)
(* sigsuspend is handled at once and wakes nobody later.                   *)
handleStackTrace ==
  /\ Up /\ h.pc \in {"sent", "suspend"} /\ ~h.answered
  /\ h' = IF h.pc = "suspend"
          THEN [h EXCEPT !.pc = "explore", !.todo = @ \ {h.asked}, !.asked = NoThread]
          ELSE [h EXCEPT !.answered = TRUE]
  /\ UNCHANGED <<loggerVars, abort_timer, tick, at_crash, flushed>>

sigsuspend ==
  /\ HandlerAt("sent") /\ HGoto("suspend")
  /\ UNCHANGED <<loggerVars, abort_timer, tick, at_crash, flushed>>

explored ==
  /\ HandlerAt("explore") /\ h.todo = {}
  /\ h' = [h EXCEPT !.pc = "msg", !.msg = "gotall"]
  /\ UNCHANGED <<loggerVars, abort_timer, tick, at_crash, flushed>>

(* "Flushed all logs safely" is printed; then exit, the old handler or     *)
(* abort: the process ends.                                                *)
handler_end ==
  /\ HandlerAt("done")
  /\ exit
  /\ UNCHANGED <<faults, crashVars>>
-----------------------------------------------------------------------------
Handler == \/ enableOnlyOneDisplayer \/ flushAllLoggers_put \/ flushAllLoggers_flush
           \/ handler \/ flushAllLoggers_end \/ sigsuspend \/ explored \/ handler_end
           \/ \E t \in Callers : pthread_kill(t)

(* One process: it is over when it has crashed, and its handler has ended. *)
CrashNext ==
  \/ start /\ ~Crashed /\ UNCHANGED crashVars
  \/ \E t \in Callers : caller_put(t) \/ caller(t)
  \/ flush_thread \/ abort_tick
  \/ \E t \in Callers \cup {Flusher} : crash_in(t)
  \/ Handler \/ handleStackTrace

CrashSpec == CrashInit /\ [][CrashNext]_allVars

(* Threads are scheduled, the one that crashed included: its handler runs. *)
FairCrashSpec ==
  /\ CrashSpec
  /\ \A t \in Callers : WF_allVars(caller(t))
  /\ WF_allVars(flush_thread \/ abort_tick)
  /\ SF_allVars(enableOnlyOneDisplayer) /\ SF_allVars(flushAllLoggers_put)
  /\ WF_allVars(Handler) /\ WF_allVars(handleStackTrace)
-----------------------------------------------------------------------------
(* Properties *)

(* A caller crashed where it holds nothing the others need.  If the flush  *)
(* thread itself crashed, nobody is left to count the timer down.          *)
Harmless == Up /\ h.victim \in Callers /\ th[h.victim].pc \notin {"copy", "flush", "out"}

(* The handler waits inside put for room in the ring.  It has the loggers' *)
(* lock, so that the flush thread can neither make room nor count.         *)
WaitsForRoom == HandlerAt("put") /\ th[Owner].pc = "wait" /\ needToFlush(Elem(Owner))

(* A crash ends the process: the handler comes to its end, or the abort    *)
(* timer does when the answer of another thread was missed.  The one thing *)
(* that can keep it for ever is a wait for room in the ring.  The victim   *)
(* does not move, so Harmless lasts until the process has ended.           *)
CrashEnds == <>[]Harmless => <>[]WaitsForRoom

(* Unless every flush of the handler was skipped, because somebody held    *)
(* the flush lock each time, what was written before the crash is in the   *)
(* files when the handler comes to its end.                                *)
SafeMeansFlushed ==
  Up /\ h.pc = "done" /\ flushed => at_crash \subseteq UNION Range(ever)

=============================================================================
