---------------------------- MODULE CrashHandler ----------------------------
(***************************************************************************)
(* From an exception on any thread of the game to the end of the process:  *)
(* the vectored handler, the top-level filter and the crash handler proper *)
(* (VectoredExceptions and UnhandledExceptions, src/Crash/CrashHandler.cpp)*)
(* with the log files it writes.                                           *)
(*                                                                         *)
(* Several threads may crash at once.  Each runs the handler: it waits for *)
(* the mutex sync, creates a log named after the current second, writes    *)
(* and flushes one section after the other, releases the mutex, shows the  *)
(* log to the user and terminates the process, whatever the other threads  *)
(* are doing.  Some sections hand work to worker threads and wait for it.  *)
(*                                                                         *)
(* A report is the run of one handler frame, <<thread, level>>: a handler  *)
(* entered by an exception of the handler itself has level 2.              *)
(***************************************************************************)
EXTENDS Naturals

CONSTANTS
  Threads,        \* threads of the game that may crash
  Workers,        \* threads of the pool that the analysis sections use
  NoThread,
  NumSections,    \* calls of print(...) in the handler
  Parallel,       \* the sections that use the workers
  AutoOpen,       \* autoOpenCrashLog or autoUploadCrashLog
  MaxClock        \* bound: seconds that pass

ASSUME CrashAssumption ==
  /\ Threads \cap Workers = {}
  /\ NoThread \notin Threads \cup Workers
  /\ NumSections \in Nat
  /\ Parallel \subseteq 1 .. NumSections
  /\ AutoOpen \in BOOLEAN
  /\ MaxClock \in Nat

All == Threads \cup Workers
Seconds == 0 .. MaxClock
NoLog == MaxClock + 1
Reports == All \X (1 .. 2)
NoReport == <<NoThread, 0>>

\* What a report puts in its log: its sections, or the notice that it failed.
Failure == 0
Items == Reports \X (0 .. NumSections)

VARIABLES
  clock,      \* std::time, in seconds
  filter,     \* whose top-level filter is installed
  handling,   \* the static flag of VectoredExceptions
  sync,       \* the static mutex: its owner and how often it holds it
  pc,         \* thread |-> where it is
  level,      \* thread |-> handler frames on its stack
  log,        \* thread |-> the second that names its log
  section,    \* thread |-> the section it writes next
  buffer,     \* thread |-> what its logger has not flushed
  disk,       \* second |-> content of the log of that name
  life,       \* what has become of the process
  creator,    \* history: second |-> the report that created the log last
  closed,     \* history: reports whose last flush is done
  opened      \* history: what the user was shown

mutexVars == <<filter, handling, sync>>
fileVars == <<disk, creator>>
vars == <<clock, mutexVars, pc, level, log, section, buffer, fileVars, life,
          closed, opened>>

Init ==
  /\ clock = 0
  /\ filter = "ours"
  /\ handling = FALSE
  /\ sync = [owner |-> NoThread, count |-> 0]
  /\ pc = [t \in All |-> IF t \in Threads THEN "run" ELSE "idle"]
  /\ level = [t \in All |-> 0]
  /\ log = [t \in All |-> NoLog]
  /\ section = [t \in All |-> 1]
  /\ buffer = [t \in All |-> {}]
  /\ disk = [n \in Seconds |-> {}]
  /\ life = "alive"
  /\ creator = [n \in Seconds |-> NoReport]
  /\ closed = {}
  /\ opened = {}

Alive == life = "alive"
ReportOf(t) == <<t, level[t]>>
Goto(t, to) == pc' = [pc EXCEPT ![t] = to]

-----------------------------------------------------------------------------
(* Exceptions and who sees them first                                       *)

\* A new handler frame of thread t, waiting for sync.
EnterHandler(t) ==
  /\ Goto(t, "lock")
  /\ level' = [level EXCEPT ![t] = @ + 1]
  /\ log' = [log EXCEPT ![t] = NoLog]
  /\ section' = [section EXCEPT ![t] = 1]
  /\ buffer' = [buffer EXCEPT ![t] = {}]

\* An ordinary exception of the game: the vectored handler sees it first and
\* installs the filter again.
Fault(t) ==
  /\ Alive
  /\ pc[t] = "run"
  /\ Goto(t, "dispatch")
  /\ filter' = "ours"
  /\ UNCHANGED <<clock, handling, sync, level, log, section, buffer, fileVars,
                 life, closed, opened>>

\* ... the game has a handler for it after all
HandledByGame(t) ==
  /\ Alive
  /\ pc[t] = "dispatch"
  /\ Goto(t, "run")
  /\ UNCHANGED <<clock, mutexVars, level, log, section, buffer, fileVars, life,
                 closed, opened>>

\* ... or nobody has, and the filter that is installed now decides.
Unhandled(t) ==
  /\ Alive
  /\ pc[t] = "dispatch"
  /\ \/ /\ filter = "ours"
        /\ EnterHandler(t)
        /\ UNCHANGED life
     \/ /\ filter # "ours"
        /\ life' = "killed"
        /\ UNCHANGED <<pc, level, log, section, buffer>>
  /\ UNCHANGED <<clock, mutexVars, fileVars, closed, opened>>

\* Another plugin calls SetUnhandledExceptionFilter.
ReplaceFilter ==
  /\ Alive
  /\ filter = "ours"
  /\ filter' = "other"
  /\ UNCHANGED <<clock, handling, sync, pc, level, log, section, buffer,
                 fileVars, life, closed, opened>>

\* A fast-fail (corrupted stack, abort, std::terminate) of the game, of the
\* handler, or of a worker whose analysis throws.  The first one enters the
\* handler; a later one is left to the system, which ends the process.
FastFail(t) ==
  /\ Alive
  /\ pc[t] \in {"run", "start", "body", "flush", "catch", "show", "analyse"}
  /\ filter' = "ours"
  /\ \/ /\ ~handling
        /\ handling' = TRUE
        /\ EnterHandler(t)
        /\ UNCHANGED life
     \/ /\ handling
        /\ life' = "killed"
        /\ UNCHANGED <<handling, pc, level, log, section, buffer>>
  /\ UNCHANGED <<clock, sync, fileVars, closed, opened>>

-----------------------------------------------------------------------------
(* UnhandledExceptions                                                      *)

\* Defect: the mutex is not static, so that each handler locks its own.
Lock_NotStatic(t) ==
  /\ Alive
  /\ pc[t] = "lock"
  /\ sync' = [owner |-> t, count |-> 1]
  /\ Goto(t, "start")
  /\ UNCHANGED <<clock, filter, handling, level, log, section, buffer, fileVars,
                 life, closed, opened>>

\* Defect: a lock that makes its own holder wait.
Lock_SelfDeadlock(t) ==
  /\ Alive
  /\ pc[t] = "lock"
  /\ sync.owner = NoThread
  /\ sync' = [owner |-> t, count |-> 1]
  /\ Goto(t, "start")
  /\ UNCHANGED <<clock, filter, handling, level, log, section, buffer, fileVars,
                 life, closed, opened>>

\* Locking a std::mutex that the thread holds already is undefined: the
\* runtime counts it as a second acquisition, or reports it as an error.
Lock(t) ==
  /\ Alive
  /\ pc[t] = "lock"
  /\ \/ /\ sync.owner = NoThread
        /\ sync' = [owner |-> t, count |-> 1]
        /\ Goto(t, "start")
     \/ /\ sync.owner = t
        /\ \/ sync' = [sync EXCEPT !.count = @ + 1] /\ Goto(t, "start")
           \/ UNCHANGED sync /\ Goto(t, "catch")
  /\ UNCHANGED <<clock, filter, handling, level, log, section, buffer, fileVars,
                 life, closed, opened>>

\* The destructor of the lock_guard.
Unlock ==
  sync' = IF sync.count > 1 THEN [sync EXCEPT !.count = @ - 1]
                            ELSE [owner |-> NoThread, count |-> 0]

\* get_timestamped_log: the file of this second is created, or truncated.
CreateLog(t) ==
  /\ log' = [log EXCEPT ![t] = clock]
  /\ creator' = [creator EXCEPT ![clock] = ReportOf(t)]

\* The modules are listed and the log is created.  (The cleaning of old logs
\* that follows cannot touch a log of this process, which is still open.)
StartLog(t) ==
  /\ Alive
  /\ pc[t] = "start"
  /\ CreateLog(t)
  /\ disk' = [disk EXCEPT ![clock] = {}]
  /\ Goto(t, "body")
  /\ UNCHANGED <<clock, mutexVars, level, section, buffer, life, closed, opened>>

Write(t, item) == buffer' = [buffer EXCEPT ![t] = @ \cup {<<ReportOf(t), item>>}]

\* One print(...): the section, or the line that says why it failed, goes to
\* the buffer of the log file,
Section(t) ==
  /\ Alive
  /\ pc[t] = "body"
  /\ section[t] <= NumSections
  /\ section[t] \notin Parallel
  /\ Write(t, section[t])
  /\ Goto(t, "flush")
  /\ UNCHANGED <<clock, mutexVars, level, log, section, fileVars, life, closed,
                 opened>>

\* Defect: the sections stay in the buffer until the log is closed.
Flush_Deferred(t) ==
  /\ Alive
  /\ pc[t] = "flush"
  /\ section' = [section EXCEPT ![t] = @ + 1]
  /\ Goto(t, "body")
  /\ UNCHANGED <<clock, mutexVars, level, log, buffer, fileVars, life, closed,
                 opened>>

\* and the flush at its end writes the buffer out.
Flush(t) ==
  /\ Alive
  /\ pc[t] = "flush"
  /\ disk' = [disk EXCEPT ![log[t]] = @ \cup buffer[t]]
  /\ buffer' = [buffer EXCEPT ![t] = {}]
  /\ section' = [section EXCEPT ![t] = @ + 1]
  /\ Goto(t, "body")
  /\ UNCHANGED <<clock, mutexVars, level, log, creator, life, closed, opened>>

\* A section that analyses addresses in parallel and waits for the workers.
StartParallel(t) ==
  /\ Alive
  /\ pc[t] = "body"
  /\ section[t] <= NumSections
  /\ section[t] \in Parallel
  /\ \A w \in Workers : pc[w] = "idle"
  /\ pc' = [u \in All |-> IF u = t THEN "wait"
                          ELSE IF u \in Workers THEN "analyse" ELSE pc[u]]
  /\ UNCHANGED <<clock, mutexVars, level, log, section, buffer, fileVars, life,
                 closed, opened>>

WorkerDone(w) ==
  /\ Alive
  /\ pc[w] = "analyse"
  /\ Goto(w, "idle")
  /\ UNCHANGED <<clock, mutexVars, level, log, section, buffer, fileVars, life,
                 closed, opened>>

Join(t) ==
  /\ Alive
  /\ pc[t] = "wait"
  /\ \A w \in Workers : pc[w] = "idle"
  /\ Write(t, section[t])
  /\ Goto(t, "flush")
  /\ UNCHANGED <<clock, mutexVars, level, log, section, fileVars, life, closed,
                 opened>>

\* The last flush; then the try block ends and with it the lock.
Finish(t) ==
  /\ Alive
  /\ pc[t] = "body"
  /\ section[t] > NumSections
  /\ closed' = closed \cup {[report |-> ReportOf(t), name |-> log[t], ok |-> TRUE]}
  /\ Unlock
  /\ Goto(t, "show")
  /\ UNCHANGED <<clock, filter, handling, level, log, section, buffer, fileVars,
                 life, opened>>

\* An exception that no section caught, before the log exists or after.
Escape(t) ==
  /\ Alive
  /\ pc[t] \in {"start", "body", "flush"}
  /\ Unlock
  /\ Goto(t, "catch")
  /\ UNCHANGED <<clock, filter, handling, level, log, section, buffer, fileVars,
                 life, closed, opened>>

\* Defect: the path of the new log is not kept (crashLogPath).
Catch_KeepsNoPath(t) ==
  LET name == IF log[t] = NoLog THEN clock ELSE log[t] IN
  /\ Alive
  /\ pc[t] = "catch"
  /\ disk' = [disk EXCEPT ![name] = @ \cup {<<ReportOf(t), Failure>>}]
  /\ closed' = closed \cup {[report |-> ReportOf(t), name |-> name, ok |-> FALSE]}
  /\ Goto(t, "show")
  /\ UNCHANGED <<clock, mutexVars, level, log, section, buffer, creator, life,
                 opened>>

\* Defect: the notice of the failure is not flushed.
Catch_NotFlushed(t) ==
  LET name == IF log[t] = NoLog THEN clock ELSE log[t] IN
  /\ Alive
  /\ pc[t] = "catch"
  /\ IF log[t] = NoLog THEN CreateLog(t) ELSE UNCHANGED <<log, creator>>
  /\ Write(t, Failure)
  /\ closed' = closed \cup {[report |-> ReportOf(t), name |-> name, ok |-> FALSE]}
  /\ Goto(t, "show")
  /\ UNCHANGED <<clock, mutexVars, level, section, disk, life, opened>>

\* The catch clauses: a log is created if there is none, the failure is noted
\* and flushed.
Catch(t) ==
  LET name == IF log[t] = NoLog THEN clock ELSE log[t]
      old == IF log[t] = NoLog THEN {} ELSE disk[name]
  IN
  /\ Alive
  /\ pc[t] = "catch"
  /\ IF log[t] = NoLog THEN CreateLog(t) ELSE UNCHANGED <<log, creator>>
  /\ disk' = [disk EXCEPT ![name] = old \cup buffer[t] \cup {<<ReportOf(t), Failure>>}]
  /\ buffer' = [buffer EXCEPT ![t] = {}]
  /\ closed' = closed \cup {[report |-> ReportOf(t), name |-> name, ok |-> FALSE]}
  /\ Goto(t, "show")
  /\ UNCHANGED <<clock, mutexVars, level, section, life, opened>>

\* "Last resort: can't create logger or log failed, just terminate"
CatchFails(t) ==
  /\ Alive
  /\ pc[t] = "catch"
  /\ life' = "aborted"
  /\ UNCHANGED <<clock, mutexVars, pc, level, log, section, buffer, fileVars,
                 closed, opened>>

\* The log is uploaded, or opened in the user's text viewer, from the file.
Show(t) ==
  /\ Alive
  /\ pc[t] = "show"
  /\ opened' = IF AutoOpen
                 THEN opened \cup {[report |-> ReportOf(t), content |-> disk[log[t]]]}
                 ELSE opened
  /\ Goto(t, "end")
  /\ UNCHANGED <<clock, mutexVars, level, log, section, buffer, fileVars, life,
                 closed>>

Terminate(t) ==
  /\ Alive
  /\ pc[t] = "end"
  /\ life' = "done"
  /\ UNCHANGED <<clock, mutexVars, pc, level, log, section, buffer, fileVars,
                 closed, opened>>

Tick ==
  /\ Alive
  /\ clock < MaxClock
  /\ clock' = clock + 1
  /\ UNCHANGED <<mutexVars, pc, level, log, section, buffer, fileVars, life,
                 closed, opened>>

HandlerStep(t) ==
  Lock(t) \/ StartLog(t) \/ Section(t) \/ Flush(t) \/ StartParallel(t)
  \/ Join(t) \/ Finish(t) \/ Catch(t) \/ Show(t) \/ Terminate(t)

Next ==
  \/ \E t \in Threads : Fault(t) \/ HandledByGame(t) \/ Unhandled(t)
  \/ \E t \in All : \/ FastFail(t)
                    \/ Lock(t)
                    \/ StartLog(t)
                    \/ Section(t)
                    \/ Flush(t)
                    \/ StartParallel(t)
                    \/ Join(t)
                    \/ Finish(t)
                    \/ Escape(t)
                    \/ Catch(t)
                    \/ CatchFails(t)
                    \/ Show(t)
                    \/ Terminate(t)
  \/ \E w \in Workers : WorkerDone(w)
  \/ ReplaceFilter
  \/ Tick

Spec == Init /\ [][Next]_vars
-----------------------------------------------------------------------------
(* Properties                                                               *)

\* Where a thread holds the mutex for the frame it is in.
InBody(t) == pc[t] \in {"start", "body", "flush", "wait"}

\* Every variable holds a value of its kind; a thread that writes a section
\* has a log to write it to.
TypeOK ==
  /\ clock \in Seconds
  /\ filter \in {"ours", "other"}
  /\ handling \in BOOLEAN
  /\ sync \in [owner : All \cup {NoThread}, count : 0 .. 2]
  /\ pc \in [All -> {"run", "dispatch", "lock", "start", "body", "flush", "wait",
                     "catch", "show", "end", "idle", "analyse"}]
  /\ level \in [All -> 0 .. 2]
  /\ log \in [All -> Seconds \cup {NoLog}]
  /\ section \in [All -> 1 .. NumSections + 1]
  /\ buffer \in [All -> SUBSET Items]
  /\ disk \in [Seconds -> SUBSET Items]
  /\ life \in {"alive", "killed", "aborted", "done"}
  /\ creator \in [Seconds -> Reports \cup {NoReport}]
  /\ closed \subseteq [report : Reports, name : Seconds, ok : BOOLEAN]
  /\ \A t \in All : pc[t] \in {"body", "flush", "wait", "show"} => log[t] \in Seconds

\* However many threads crash, and even when the handler crashes again on the
\* thread that holds the mutex, one thread at a time writes a report.
OneWriter ==
  \A t, u \in All : InBody(t) /\ InBody(u) => t = u

\* A report is never written without the mutex; and a thread out of the try
\* block does not keep the others out, unless that block is one that its own
\* second crash has interrupted.
WriterHoldsMutex ==
  \A t \in All :
    /\ InBody(t) => sync.owner = t
    /\ sync.owner = t => InBody(t) \/ level[t] = 2

\* "static std::mutex sync": there is one report at a time, and none without the
\* mutex.
ReportsExclusive == OneWriter /\ WriterHoldsMutex

\* What a crash of the handler cannot take away: all sections before the one
\* being written are on disk, whenever and however the process ends, unless
\* a log of the same name was created since.
WrittenSectionsSurvive ==
  \A t \in All :
    log[t] # NoLog /\ creator[log[t]] = ReportOf(t) =>
      \A k \in 1 .. section[t] - 1 : <<ReportOf(t), k>> \in disk[log[t]]

\* A report that was closed, complete or with the notice of its failure, stays
\* on disk unless a log of the same name was created since.
ClosedReportKept ==
  \A c \in closed :
    creator[c.name] = c.report =>
      \A k \in (IF c.ok THEN 1 .. NumSections ELSE {Failure}) :
        <<c.report, k>> \in disk[c.name]

\* Nothing that has reached a log is lost from it, however the handler and the process
\* end.
ReportsKept == WrittenSectionsSurvive /\ ClosedReportKept

\* However the handlers of several threads, their nested crashes and their workers
\* interleave, they do not shut each other out: a thread in the handler can take its
\* next step, or the one that holds the mutex can, or that one waits for a worker that
\* can finish.  The one exception is a worker that has crashed itself: it waits for the
\* mutex of the handler that waits for it, and nothing in the code ends that (the
\* timeout of print is never used).  Assumes nothing of how threads are scheduled, and
\* says nothing of a thread that a dump has suspended, or that is stuck inside a section.
HandlersGoOn ==
  Alive =>
    \A t \in {u \in All : level[u] > 0} :
      LET first == IF pc[t] = "lock" /\ sync.owner # NoThread THEN sync.owner ELSE t IN
      \/ ENABLED HandlerStep(first)
      \/ /\ pc[first] = "wait"
         /\ \E w \in Workers : pc[w] = "lock" \/ ENABLED WorkerDone(w)

\* "Ensure all log data is written to disk before we try to open the file":
\* a finished report that is shown is shown with all its sections.
ShownReportComplete ==
  \A o \in opened :
    (\E c \in closed : c.report = o.report /\ c.ok)
      => \A k \in 1 .. NumSections : <<o.report, k>> \in o.content

\* The report a thread is writing, or has to give up, and how far its log is.
DraftOf(t) == [report |-> ReportOf(t), name |-> log[t], written |-> section[t] - 1]
NoDraft == [report |-> NoReport, name |-> NoLog, written |-> 0]

\* The reports behind the mutex, the one in the try block, and those in a catch clause.
Begun == {r \in Reports : r[2] < level[r[1]] \/ (r[2] = level[r[1]] /\ pc[r[1]] # "lock")}
Writer == IF \E t \in All : InBody(t) THEN DraftOf(CHOOSE t \in All : InBody(t)) ELSE NoDraft
Failing == {DraftOf(t) : t \in {u \in All : pc[u] = "catch"}}

Promised == INSTANCE CrashLog WITH
  NoName <- NoLog, file <- disk, author <- creator, begun <- Begun, writer <- Writer,
  failing <- Failing, over <- ~Alive

\* Threads race for the mutex, workers crash under the thread that waits for them, the
\* handler crashes in itself and fails before it has a log: the reader of the logs finds
\* what CrashLog describes.
RefinesCrashLog == Promised!Spec
=============================================================================
