------------------------- MODULE CrashHandlerProofs -------------------------
(***************************************************************************)
(* What CrashHandler guarantees for every number of threads, workers,      *)
(* sections and seconds.                                                   *)
(***************************************************************************)
EXTENDS CrashHandler, TLAPS

Outside == {"run", "dispatch", "idle", "analyse"}

\* A thread has a frame of the handler exactly while it is not outside; there
\* is a second frame only once a fast-fail was let in; a frame that has no log
\* has written nothing.
FramesOK ==
  /\ \A t \in All : level[t] = 0 <=> pc[t] \in Outside
  /\ ~handling => \A t \in All : level[t] <= 1
  /\ \A t \in All : pc[t] \in {"flush", "wait"} => section[t] <= NumSections
  /\ \A t \in All : log[t] = NoLog => section[t] = 1
  /\ \A t \in All : pc[t] \in {"lock", "start"} => log[t] = NoLog

\* Beside WriterHoldsMutex: the mutex is held twice only by a second frame
\* that is itself in its try block.
MutexOK ==
  /\ WriterHoldsMutex
  /\ sync.owner = NoThread <=> sync.count = 0
  /\ sync.count = 2 => InBody(sync.owner) /\ level[sync.owner] = 2

\* A section is in the buffer until it is flushed; a closed report has no
\* more to write.
ContentOK ==
  /\ \A t \in All : pc[t] = "flush" => <<ReportOf(t), section[t]>> \in buffer[t]
  /\ \A c \in closed : /\ c.report[2] <= level[c.report[1]]
                       /\ c.report[2] = level[c.report[1]]
                            => pc[c.report[1]] \in {"show", "end"}

ControlInv == TypeOK /\ FramesOK /\ MutexOK
LogInv == ContentOK /\ WrittenSectionsSurvive /\ ClosedReportKept
\* What a new frame of the handler is, wherever the thread was.
LEMMA EnterFacts ==
  ASSUME NEW t \in All, TypeOK, FramesOK, EnterHandler(t), level[t] \in 0 .. 1
  PROVE  /\ level' \in [All -> 0 .. 2]
         /\ \A u \in All : level'[u] = IF u = t THEN level[t] + 1 ELSE level[u]
         /\ \A u \in All : pc'[u] = IF u = t THEN "lock" ELSE pc[u]
         /\ log' = [log EXCEPT ![t] = NoLog]
         /\ section' = [section EXCEPT ![t] = 1]
         /\ buffer' = [buffer EXCEPT ![t] = {}]
BY DEF TypeOK, EnterHandler, Goto

LEMMA ControlInit == Init => ControlInv
<1> SUFFICES ASSUME Init PROVE ControlInv
  OBVIOUS
<1>1. /\ \A t \in All : pc[t] \in {"run", "idle"} /\ level[t] = 0 /\ log[t] = NoLog
      /\ \A t \in All : section[t] = 1
      /\ sync = [owner |-> NoThread, count |-> 0]
  BY DEF Init
<1>2. NoThread \notin All
  BY CrashAssumption DEF All
<1>3. TypeOK
  <2> USE CrashAssumption DEF Init, Seconds, NoLog
  <2>1. level \in [All -> 0 .. 2] /\ section \in [All -> 1 .. NumSections + 1]
    OBVIOUS
  <2>2. buffer \in [All -> SUBSET Items] /\ disk \in [Seconds -> SUBSET Items]
    OBVIOUS
  <2>3. pc \in [All -> {"run", "dispatch", "lock", "start", "body", "flush", "wait",
                       "catch", "show", "end", "idle", "analyse"}]
    OBVIOUS
  <2>4. log \in [All -> Seconds \cup {NoLog}]
    OBVIOUS
  <2>5. creator \in [Seconds -> Reports \cup {NoReport}]
    OBVIOUS
  <2>6. clock \in Seconds /\ filter = "ours" /\ life = "alive"
    OBVIOUS
  <2>7. handling \in BOOLEAN
    BY Zenon
  <2>8. closed = {} /\ sync \in [owner : All \cup {NoThread}, count : 0 .. 2]
    OBVIOUS
  <2>9. \A t \in All : pc[t] \notin {"body", "flush", "wait", "show"}
    BY <1>1
  <2> HIDE DEF Init, Seconds, NoLog
  <2>10. QED
    BY <2>1, <2>2, <2>3, <2>4, <2>5, <2>6, <2>7, <2>8, <2>9 DEF TypeOK
<1>4. FramesOK
  BY <1>1 DEF FramesOK, Outside
<1>5. MutexOK
  BY <1>1, <1>2 DEF MutexOK, WriterHoldsMutex, InBody
<1>6. QED
  BY <1>3, <1>4, <1>5 DEF ControlInv

LEMMA ControlStep == ControlInv /\ [Next]_vars => ControlInv'
<1> SUFFICES ASSUME ControlInv, [Next]_vars PROVE ControlInv'
  OBVIOUS
<1> USE CrashAssumption DEF ControlInv, All, NoLog, Alive, InBody, mutexVars, fileVars
<1>1. ASSUME NEW t \in Threads, Fault(t) PROVE ControlInv'
  <2> USE <1>1 DEF Goto, Fault
  <2>1. TypeOK'
    BY DEF TypeOK, FramesOK, MutexOK, WriterHoldsMutex, Seconds, Outside
  <2>2. FramesOK'
    BY <2>1 DEF TypeOK, FramesOK, Seconds, Outside
  <2>3. MutexOK'
    BY DEF TypeOK, FramesOK, MutexOK, WriterHoldsMutex, Outside
  <2>4. QED
    BY <2>1, <2>2, <2>3
<1>2. ASSUME NEW t \in Threads, HandledByGame(t) PROVE ControlInv'
  <2> USE <1>2 DEF Goto, HandledByGame
  <2>1. TypeOK'
    BY DEF TypeOK, FramesOK, MutexOK, WriterHoldsMutex, Seconds, Outside
  <2>2. FramesOK'
    BY <2>1 DEF TypeOK, FramesOK, Seconds, Outside
  <2>3. MutexOK'
    BY DEF TypeOK, FramesOK, MutexOK, WriterHoldsMutex, Outside
  <2>4. QED
    BY <2>1, <2>2, <2>3
<1>3. ASSUME NEW t \in Threads, Unhandled(t) PROVE ControlInv'
  <2> USE <1>3 DEF Unhandled
  <2>1. CASE UNCHANGED <<pc, level, log, section, buffer>>
    BY <2>1 DEF TypeOK, FramesOK, MutexOK, WriterHoldsMutex, Outside
  <2>2. CASE EnterHandler(t)
    <3>1. level[t] \in 0 .. 1 /\ (level[t] = 1 => handling') /\ t \in All
      BY <2>2 DEF TypeOK, FramesOK, Outside
    <3>2. /\ level' \in [All -> 0 .. 2]
          /\ \A u \in All : level'[u] = IF u = t THEN level[t] + 1 ELSE level[u]
          /\ \A u \in All : pc'[u] = IF u = t THEN "lock" ELSE pc[u]
          /\ log' = [log EXCEPT ![t] = NoLog]
          /\ section' = [section EXCEPT ![t] = 1]
          /\ buffer' = [buffer EXCEPT ![t] = {}]
      BY <2>2, <3>1, EnterFacts
    <3>3. TypeOK'
      BY <2>2, <3>1, <3>2 DEF TypeOK, EnterHandler, Goto
    <3>4. FramesOK'
      BY <2>2, <3>1, <3>2 DEF TypeOK, FramesOK, Outside
    <3>5. MutexOK'
      BY <2>2, <3>1, <3>2 DEF TypeOK, FramesOK, MutexOK, WriterHoldsMutex, Outside
    <3>6. QED
      BY <3>3, <3>4, <3>5
  <2>3. QED
    BY <2>1, <2>2
<1>4. ASSUME NEW t \in All, FastFail(t) PROVE ControlInv'
  <2> USE <1>4 DEF FastFail
  <2>1. CASE handling
    <3>1. filter' = "ours" /\ life' = "killed"
          /\ UNCHANGED <<clock, handling, sync, pc, level, log, section, buffer,
                         disk, creator, closed>>
      BY <2>1
    <3>2. TypeOK'
      BY <3>1 DEF TypeOK
    <3>3. FramesOK'
      BY <3>1 DEF FramesOK
    <3>4. MutexOK'
      BY <3>1 DEF MutexOK, WriterHoldsMutex
    <3>5. QED
      BY <3>2, <3>3, <3>4
  <2>2. CASE ~handling
    <3>1. level[t] \in 0 .. 1 /\ EnterHandler(t) /\ handling' = TRUE
      BY <2>2 DEF TypeOK, FramesOK
    <3>2. /\ level' \in [All -> 0 .. 2]
          /\ \A u \in All : level'[u] = IF u = t THEN level[t] + 1 ELSE level[u]
          /\ \A u \in All : pc'[u] = IF u = t THEN "lock" ELSE pc[u]
          /\ log' = [log EXCEPT ![t] = NoLog]
          /\ section' = [section EXCEPT ![t] = 1]
          /\ buffer' = [buffer EXCEPT ![t] = {}]
      BY <3>1, EnterFacts
    <3>3. pc' = [pc EXCEPT ![t] = "lock"]
      BY <3>1 DEF EnterHandler, Goto
    <3>4. TypeOK'
      <4>1. /\ pc' \in [All -> {"run", "dispatch", "lock", "start", "body", "flush",
                               "wait", "catch", "show", "end", "idle", "analyse"}]
            /\ log' \in [All -> Seconds \cup {NoLog}]
            /\ section' \in [All -> 1 .. NumSections + 1]
            /\ buffer' \in [All -> SUBSET Items]
        BY <3>2, <3>3 DEF TypeOK
      <4>2. \A u \in All : pc'[u] \in {"body", "flush", "wait", "show"}
                            => log'[u] \in Seconds
        BY <3>2 DEF TypeOK
      <4>3. /\ filter' = "ours" /\ life' = life
            /\ UNCHANGED <<clock, sync, disk, creator, closed>>
        BY <2>2
      <4>4. QED
        BY <3>1, <3>2, <4>1, <4>2, <4>3 DEF TypeOK
    <3>5. FramesOK'
      BY <3>1, <3>2 DEF TypeOK, FramesOK, Outside
    <3>6. MutexOK'
      BY <2>2, <3>1, <3>2 DEF TypeOK, FramesOK, MutexOK, WriterHoldsMutex, Outside
    <3>7. QED
      BY <3>4, <3>5, <3>6
  <2>3. QED
    BY <2>1, <2>2 DEF TypeOK
<1>5. ASSUME NEW t \in All, Lock(t) PROVE ControlInv'
  <2> USE <1>5 DEF Goto, Lock
  <2>1. /\ sync.owner \in All \cup {NoThread} /\ sync.count \in 0 .. 2
        /\ sync = [owner |-> sync.owner, count |-> sync.count]
    BY DEF TypeOK
  <2>2. sync.owner = t => sync.count = 1 /\ level[t] = 2
    BY <2>1 DEF TypeOK, FramesOK, MutexOK, WriterHoldsMutex, Outside
  <2>3. \/ sync' = [owner |-> t, count |-> 1] /\ sync.owner = NoThread /\ pc' = [pc EXCEPT ![t] = "start"]
        \/ sync' = [owner |-> t, count |-> 2] /\ sync.owner = t /\ pc' = [pc EXCEPT ![t] = "start"]
        \/ sync' = sync /\ sync.owner = t /\ pc' = [pc EXCEPT ![t] = "catch"]
    BY <2>1, <2>2
  <2>4. sync' \in [owner : All \cup {NoThread}, count : 0 .. 2]
    BY <2>1, <2>3 DEF TypeOK
  <2>5. TypeOK'
    BY <2>4 DEF TypeOK
  <2>6. FramesOK'
    BY DEF TypeOK, FramesOK, Outside
  <2>7. MutexOK'
    BY <2>1, <2>2, <2>3 DEF TypeOK, FramesOK, MutexOK, WriterHoldsMutex, Outside
  <2>8. QED
    BY <2>5, <2>6, <2>7
<1>6. ASSUME NEW t \in All, StartLog(t) PROVE ControlInv'
  <2> USE <1>6 DEF Goto, StartLog, CreateLog
  <2>1. TypeOK'
    <3>1. clock \in Seconds /\ ReportOf(t) \in Reports
      BY DEF TypeOK, FramesOK, Outside, ReportOf, Reports
    <3>2. disk' \in [Seconds -> SUBSET Items]
      BY <3>1 DEF TypeOK
    <3>3. creator' \in [Seconds -> Reports \cup {NoReport}]
      BY <3>1 DEF TypeOK, CreateLog
    <3>4. log' \in [All -> Seconds \cup {NoLog}] /\ log'[t] \in Seconds
      BY <3>1 DEF TypeOK, CreateLog
    <3>5. QED
      BY <3>1, <3>2, <3>3, <3>4 DEF TypeOK
  <2>2. FramesOK'
    BY <2>1 DEF TypeOK, FramesOK, Seconds, Outside
  <2>3. MutexOK'
    BY DEF TypeOK, FramesOK, MutexOK, WriterHoldsMutex, Outside
  <2>4. QED
    BY <2>1, <2>2, <2>3
<1>7. ASSUME NEW t \in All, Section(t) PROVE ControlInv'
  <2> USE <1>7 DEF Goto, Section, Write
  <2>1. TypeOK'
    <3>1. <<ReportOf(t), section[t]>> \in Items
      BY DEF TypeOK, FramesOK, Outside, ReportOf, Reports, Items
    <3>2. buffer' \in [All -> SUBSET Items]
      BY <3>1 DEF TypeOK
    <3>3. QED
      BY <3>1, <3>2 DEF TypeOK
  <2>2. FramesOK'
    BY <2>1 DEF TypeOK, FramesOK, Seconds, Outside
  <2>3. MutexOK'
    BY DEF TypeOK, FramesOK, MutexOK, WriterHoldsMutex, Outside
  <2>4. QED
    BY <2>1, <2>2, <2>3
<1>8. ASSUME NEW t \in All, Flush(t) PROVE ControlInv'
  <2> USE <1>8 DEF Goto, Flush
  <2>1. TypeOK'
    <3>1. section[t] + 1 \in 1 .. NumSections + 1
      BY DEF TypeOK, FramesOK
    <3>2. disk' \in [Seconds -> SUBSET Items]
      BY DEF TypeOK
    <3>3. QED
      BY <3>1, <3>2 DEF TypeOK
  <2>2. FramesOK'
    BY <2>1 DEF TypeOK, FramesOK, Seconds, Outside
  <2>3. MutexOK'
    BY DEF TypeOK, FramesOK, MutexOK, WriterHoldsMutex, Outside
  <2>4. QED
    BY <2>1, <2>2, <2>3
<1>9. ASSUME NEW t \in All, StartParallel(t) PROVE ControlInv'
  <2> USE <1>9 DEF Goto, StartParallel
  <2>1. TypeOK'
    BY DEF TypeOK, FramesOK, MutexOK, WriterHoldsMutex, Seconds, Outside
  <2>2. FramesOK'
    BY <2>1 DEF TypeOK, FramesOK, Seconds, Outside
  <2>3. MutexOK'
    BY DEF TypeOK, FramesOK, MutexOK, WriterHoldsMutex, Outside
  <2>4. QED
    BY <2>1, <2>2, <2>3
<1>10. ASSUME NEW t \in All, Join(t) PROVE ControlInv'
  <2> USE <1>10 DEF Goto, Join, Write
  <2>1. TypeOK'
    <3>1. <<ReportOf(t), section[t]>> \in Items
      BY DEF TypeOK, FramesOK, Outside, ReportOf, Reports, Items
    <3>2. buffer' \in [All -> SUBSET Items]
      BY <3>1 DEF TypeOK
    <3>3. QED
      BY <3>1, <3>2 DEF TypeOK
  <2>2. FramesOK'
    BY <2>1 DEF TypeOK, FramesOK, Seconds, Outside
  <2>3. MutexOK'
    BY DEF TypeOK, FramesOK, MutexOK, WriterHoldsMutex, Outside
  <2>4. QED
    BY <2>1, <2>2, <2>3
<1>11. ASSUME NEW t \in All, Finish(t) PROVE ControlInv'
  <2> USE <1>11 DEF Goto, Finish, Unlock
  <2>1. TypeOK'
    <3>1. [report |-> ReportOf(t), name |-> log[t], ok |-> TRUE] \in [report : Reports, name : Seconds, ok : BOOLEAN]
      BY DEF TypeOK, FramesOK, Outside, ReportOf, Reports
    <3>2. sync.owner = t /\ sync.count \in 1 .. 2
      BY DEF TypeOK, MutexOK, WriterHoldsMutex
    <3>3. sync' \in [owner : All \cup {NoThread}, count : 0 .. 2]
      BY <3>2 DEF TypeOK
    <3>4. QED
      BY <3>1, <3>2, <3>3 DEF TypeOK
  <2>2. FramesOK'
    BY <2>1 DEF TypeOK, FramesOK, Seconds, Outside
  <2>3. MutexOK'
    BY DEF TypeOK, FramesOK, MutexOK, WriterHoldsMutex, Outside
  <2>4. QED
    BY <2>1, <2>2, <2>3
<1>12. ASSUME NEW t \in All, Escape(t) PROVE ControlInv'
  <2> USE <1>12 DEF Goto, Escape, Unlock
  <2>1. TypeOK'
    <3>1. sync.owner = t /\ sync.count \in 1 .. 2
      BY DEF TypeOK, MutexOK, WriterHoldsMutex
    <3>2. sync' \in [owner : All \cup {NoThread}, count : 0 .. 2]
      BY <3>1 DEF TypeOK
    <3>3. QED
      BY <3>1, <3>2 DEF TypeOK
  <2>2. FramesOK'
    BY <2>1 DEF TypeOK, FramesOK, Seconds, Outside
  <2>3. MutexOK'
    BY DEF TypeOK, FramesOK, MutexOK, WriterHoldsMutex, Outside
  <2>4. QED
    BY <2>1, <2>2, <2>3
<1>13. ASSUME NEW t \in All, Catch(t) PROVE ControlInv'
  <2> USE <1>13 DEF Goto, Catch, CreateLog
  <2>1. TypeOK'
    <3>1. clock \in Seconds /\ ReportOf(t) \in Reports
      BY DEF TypeOK, FramesOK, Outside, ReportOf, Reports
    <3>2. <<ReportOf(t), Failure>> \in Items
      BY <3>1 DEF Items, Failure
    <3>3. log' \in [All -> Seconds \cup {NoLog}] /\ log'[t] = (IF log[t] = NoLog THEN clock ELSE log[t])
      BY <3>1 DEF TypeOK, CreateLog
    <3>4. (IF log[t] = NoLog THEN clock ELSE log[t]) \in Seconds
      BY <3>1 DEF TypeOK
    <3>5. creator' \in [Seconds -> Reports \cup {NoReport}]
      BY <3>1 DEF TypeOK, CreateLog
    <3>6. disk' \in [Seconds -> SUBSET Items]
      BY <3>2, <3>4 DEF TypeOK
    <3>7. closed' \subseteq [report : Reports, name : Seconds, ok : BOOLEAN]
      <4> DEFINE name == IF log[t] = NoLog THEN clock ELSE log[t]
                 entry == [report |-> ReportOf(t), name |-> name, ok |-> FALSE]
      <4>1. closed' = closed \cup {entry}
        OBVIOUS
      <4>2. entry \in [report : Reports, name : Seconds, ok : BOOLEAN]
        BY <3>1, <3>4
      <4> HIDE DEF entry
      <4>3. QED
        BY <4>1, <4>2 DEF TypeOK
    <3>8. QED
      BY <3>1, <3>2, <3>3, <3>4, <3>5, <3>6, <3>7 DEF TypeOK
  <2>2. FramesOK'
    BY <2>1 DEF TypeOK, FramesOK, Seconds, Outside
  <2>3. MutexOK'
    BY DEF TypeOK, FramesOK, MutexOK, WriterHoldsMutex, Outside
  <2>4. QED
    BY <2>1, <2>2, <2>3
<1>14. ASSUME NEW t \in All, CatchFails(t) PROVE ControlInv'
  <2> USE <1>14 DEF Goto, CatchFails
  <2>1. TypeOK'
    BY DEF TypeOK, FramesOK, MutexOK, WriterHoldsMutex, Seconds, Outside
  <2>2. FramesOK'
    BY <2>1 DEF TypeOK, FramesOK, Seconds, Outside
  <2>3. MutexOK'
    BY DEF TypeOK, FramesOK, MutexOK, WriterHoldsMutex, Outside
  <2>4. QED
    BY <2>1, <2>2, <2>3
<1>15. ASSUME NEW t \in All, Show(t) PROVE ControlInv'
  <2> USE <1>15 DEF Goto, Show
  <2>1. TypeOK'
    BY DEF TypeOK, FramesOK, MutexOK, WriterHoldsMutex, Seconds, Outside
  <2>2. FramesOK'
    BY <2>1 DEF TypeOK, FramesOK, Seconds, Outside
  <2>3. MutexOK'
    BY DEF TypeOK, FramesOK, MutexOK, WriterHoldsMutex, Outside
  <2>4. QED
    BY <2>1, <2>2, <2>3
<1>16. ASSUME NEW t \in All, Terminate(t) PROVE ControlInv'
  <2> USE <1>16 DEF Goto, Terminate
  <2>1. TypeOK'
    BY DEF TypeOK, FramesOK, MutexOK, WriterHoldsMutex, Seconds, Outside
  <2>2. FramesOK'
    BY <2>1 DEF TypeOK, FramesOK, Seconds, Outside
  <2>3. MutexOK'
    BY DEF TypeOK, FramesOK, MutexOK, WriterHoldsMutex, Outside
  <2>4. QED
    BY <2>1, <2>2, <2>3
<1>17. ASSUME NEW t \in Workers, WorkerDone(t) PROVE ControlInv'
  <2> USE <1>17 DEF Goto, WorkerDone
  <2>1. TypeOK'
    BY DEF TypeOK, FramesOK, MutexOK, WriterHoldsMutex, Seconds, Outside
  <2>2. FramesOK'
    BY <2>1 DEF TypeOK, FramesOK, Seconds, Outside
  <2>3. MutexOK'
    BY DEF TypeOK, FramesOK, MutexOK, WriterHoldsMutex, Outside
  <2>4. QED
    BY <2>1, <2>2, <2>3
<1>18. CASE ReplaceFilter
  BY <1>18 DEF ReplaceFilter, TypeOK, FramesOK, MutexOK, WriterHoldsMutex, Seconds, Outside
<1>19. CASE Tick
  BY <1>19 DEF Tick, TypeOK, FramesOK, MutexOK, WriterHoldsMutex, Seconds, Outside
<1>20. CASE UNCHANGED vars
  BY <1>20 DEF vars, TypeOK, FramesOK, MutexOK, WriterHoldsMutex, Seconds, Outside
<1>21. QED
  BY <1>1, <1>2, <1>3, <1>4, <1>5, <1>6, <1>7, <1>8, <1>9, <1>10, <1>11, <1>12, <1>13, <1>14, <1>15, <1>16, <1>17, <1>18, <1>19, <1>20 DEF Next

\* Every reachable state satisfies the inductive invariant of the control.
THEOREM ControlInvariant == Spec => []ControlInv
<1>1. QED
  BY ControlInit, ControlStep, PTL DEF Spec

\* Every variable keeps to its type, for all threads, workers and sections.
THEOREM TypeCorrect == Spec => []TypeOK
<1>1. ControlInv => TypeOK
  BY DEF ControlInv
<1>2. QED
  BY <1>1, ControlInvariant, PTL

\* The mutex and the try block agree, also when a handler crashes in its own
\* try block and enters the handler again.
THEOREM MutexAgrees == Spec => []WriterHoldsMutex
<1>1. ControlInv => WriterHoldsMutex
  BY DEF ControlInv, MutexOK
<1>2. QED
  BY <1>1, ControlInvariant, PTL

\* No two threads are ever in the try block together.
THEOREM OneReportAtATime == Spec => []OneWriter
<1>1. ControlInv => OneWriter
  BY DEF ControlInv, MutexOK, WriterHoldsMutex, OneWriter
<1>2. QED
  BY <1>1, ControlInvariant, PTL

LEMMA LogInit == Init => LogInv
BY CrashAssumption
DEF Init, LogInv, ContentOK, WrittenSectionsSurvive, ClosedReportKept

LEMMA LogStep == ControlInv /\ ControlInv' /\ LogInv /\ [Next]_vars => LogInv'
<1> SUFFICES ASSUME ControlInv, ControlInv', LogInv, [Next]_vars PROVE LogInv'
  OBVIOUS
<1> USE CrashAssumption DEF LogInv, All, NoLog, Alive, mutexVars, fileVars, ReportOf
<1>1. ASSUME NEW t \in Threads, Fault(t) PROVE LogInv'
  <2> USE <1>1 DEF Goto, Fault
  <2>1. ContentOK'
    BY DEF ContentOK, ControlInv, TypeOK, FramesOK, Outside, Reports
  <2>2. WrittenSectionsSurvive'
    BY DEF WrittenSectionsSurvive, ContentOK, ControlInv, TypeOK, FramesOK
  <2>3. ClosedReportKept'
    BY DEF ClosedReportKept, WrittenSectionsSurvive, ContentOK, ControlInv, TypeOK, FramesOK
  <2>4. QED
    BY <2>1, <2>2, <2>3
<1>2. ASSUME NEW t \in Threads, HandledByGame(t) PROVE LogInv'
  <2> USE <1>2 DEF Goto, HandledByGame
  <2>1. ContentOK'
    BY DEF ContentOK, ControlInv, TypeOK, FramesOK, Outside, Reports
  <2>2. WrittenSectionsSurvive'
    BY DEF WrittenSectionsSurvive, ContentOK, ControlInv, TypeOK, FramesOK
  <2>3. ClosedReportKept'
    BY DEF ClosedReportKept, WrittenSectionsSurvive, ContentOK, ControlInv, TypeOK, FramesOK
  <2>4. QED
    BY <2>1, <2>2, <2>3
<1>3. ASSUME NEW t \in Threads, Unhandled(t) PROVE LogInv'
  <2> USE <1>3 DEF Goto, Unhandled, EnterHandler
  <2>1. ContentOK'
    BY DEF ContentOK, ControlInv, TypeOK, FramesOK, Outside, Reports
  <2>2. WrittenSectionsSurvive'
    BY DEF WrittenSectionsSurvive, ContentOK, ControlInv, TypeOK, FramesOK
  <2>3. ClosedReportKept'
    BY DEF ClosedReportKept, WrittenSectionsSurvive, ContentOK, ControlInv, TypeOK, FramesOK
  <2>4. QED
    BY <2>1, <2>2, <2>3
<1>4. ASSUME NEW t \in All, FastFail(t) PROVE LogInv'
  <2> USE <1>4 DEF Goto, FastFail, EnterHandler
  <2>1. ContentOK'
    BY DEF ContentOK, ControlInv, TypeOK, FramesOK, Outside, Reports
  <2>2. WrittenSectionsSurvive'
    BY DEF WrittenSectionsSurvive, ContentOK, ControlInv, TypeOK, FramesOK
  <2>3. ClosedReportKept'
    BY DEF ClosedReportKept, WrittenSectionsSurvive, ContentOK, ControlInv, TypeOK, FramesOK
  <2>4. QED
    BY <2>1, <2>2, <2>3
<1>5. ASSUME NEW t \in All, Lock(t) PROVE LogInv'
  <2> USE <1>5 DEF Goto, Lock
  <2>1. ContentOK'
    BY DEF ContentOK, ControlInv, TypeOK, FramesOK, Outside, Reports
  <2>2. WrittenSectionsSurvive'
    BY DEF WrittenSectionsSurvive, ContentOK, ControlInv, TypeOK, FramesOK
  <2>3. ClosedReportKept'
    BY DEF ClosedReportKept, WrittenSectionsSurvive, ContentOK, ControlInv, TypeOK, FramesOK
  <2>4. QED
    BY <2>1, <2>2, <2>3
<1>6. ASSUME NEW t \in All, StartLog(t) PROVE LogInv'
  <2> USE <1>6 DEF Goto, StartLog, CreateLog
  <2>1. ContentOK'
    BY DEF ContentOK, ControlInv, TypeOK, FramesOK, Outside, Reports
  <2>2. WrittenSectionsSurvive'
    BY DEF WrittenSectionsSurvive, ContentOK, ControlInv, TypeOK, FramesOK
  <2>3. ClosedReportKept'
    BY DEF ClosedReportKept, WrittenSectionsSurvive, ContentOK, ControlInv, TypeOK, FramesOK
  <2>4. QED
    BY <2>1, <2>2, <2>3
<1>7. ASSUME NEW t \in All, Section(t) PROVE LogInv'
  <2> USE <1>7 DEF Goto, Section, Write
  <2>1. ContentOK'
    BY DEF ContentOK, ControlInv, TypeOK, FramesOK, Outside, Reports
  <2>2. WrittenSectionsSurvive'
    BY DEF WrittenSectionsSurvive, ContentOK, ControlInv, TypeOK, FramesOK
  <2>3. ClosedReportKept'
    BY DEF ClosedReportKept, WrittenSectionsSurvive, ContentOK, ControlInv, TypeOK, FramesOK
  <2>4. QED
    BY <2>1, <2>2, <2>3
<1>8. ASSUME NEW t \in All, Flush(t) PROVE LogInv'
  <2> USE <1>8 DEF Goto, Flush
  <2>1. ContentOK'
    BY DEF ContentOK, ControlInv, TypeOK, FramesOK, Outside, Reports
  <2>2. WrittenSectionsSurvive'
    BY DEF WrittenSectionsSurvive, ContentOK, ControlInv, TypeOK, FramesOK
  <2>3. ClosedReportKept'
    BY DEF ClosedReportKept, WrittenSectionsSurvive, ContentOK, ControlInv, TypeOK, FramesOK
  <2>4. QED
    BY <2>1, <2>2, <2>3
<1>9. ASSUME NEW t \in All, StartParallel(t) PROVE LogInv'
  <2> USE <1>9 DEF Goto, StartParallel
  <2>1. ContentOK'
    BY DEF ContentOK, ControlInv, TypeOK, FramesOK, Outside, Reports
  <2>2. WrittenSectionsSurvive'
    BY DEF WrittenSectionsSurvive, ContentOK, ControlInv, TypeOK, FramesOK
  <2>3. ClosedReportKept'
    BY DEF ClosedReportKept, WrittenSectionsSurvive, ContentOK, ControlInv, TypeOK, FramesOK
  <2>4. QED
    BY <2>1, <2>2, <2>3
<1>10. ASSUME NEW t \in All, Join(t) PROVE LogInv'
  <2> USE <1>10 DEF Goto, Join, Write
  <2>1. ContentOK'
    BY DEF ContentOK, ControlInv, TypeOK, FramesOK, Outside, Reports
  <2>2. WrittenSectionsSurvive'
    BY DEF WrittenSectionsSurvive, ContentOK, ControlInv, TypeOK, FramesOK
  <2>3. ClosedReportKept'
    BY DEF ClosedReportKept, WrittenSectionsSurvive, ContentOK, ControlInv, TypeOK, FramesOK
  <2>4. QED
    BY <2>1, <2>2, <2>3
<1>11. ASSUME NEW t \in All, Finish(t) PROVE LogInv'
  <2> USE <1>11 DEF Goto, Finish, Unlock
  <2>1. ContentOK'
    BY DEF ContentOK, ControlInv, TypeOK, FramesOK, Outside, Reports
  <2>2. WrittenSectionsSurvive'
    BY DEF WrittenSectionsSurvive, ContentOK, ControlInv, TypeOK, FramesOK
  <2>3. ClosedReportKept'
    BY DEF ClosedReportKept, WrittenSectionsSurvive, ContentOK, ControlInv, TypeOK, FramesOK
  <2>4. QED
    BY <2>1, <2>2, <2>3
<1>12. ASSUME NEW t \in All, Escape(t) PROVE LogInv'
  <2> USE <1>12 DEF Goto, Escape, Unlock
  <2>1. ContentOK'
    BY DEF ContentOK, ControlInv, TypeOK, FramesOK, Outside, Reports
  <2>2. WrittenSectionsSurvive'
    BY DEF WrittenSectionsSurvive, ContentOK, ControlInv, TypeOK, FramesOK
  <2>3. ClosedReportKept'
    BY DEF ClosedReportKept, WrittenSectionsSurvive, ContentOK, ControlInv, TypeOK, FramesOK
  <2>4. QED
    BY <2>1, <2>2, <2>3
<1>13. ASSUME NEW t \in All, Catch(t) PROVE LogInv'
  <2> USE <1>13 DEF Goto, Catch, CreateLog
  <2>1. ContentOK'
    BY DEF ContentOK, ControlInv, TypeOK, FramesOK, Outside, Reports
  <2>2. WrittenSectionsSurvive'
    BY DEF WrittenSectionsSurvive, ContentOK, ControlInv, TypeOK, FramesOK
  <2>3. ClosedReportKept'
    BY DEF ClosedReportKept, WrittenSectionsSurvive, ContentOK, ControlInv, TypeOK, FramesOK
  <2>4. QED
    BY <2>1, <2>2, <2>3
<1>14. ASSUME NEW t \in All, CatchFails(t) PROVE LogInv'
  <2> USE <1>14 DEF Goto, CatchFails
  <2>1. ContentOK'
    BY DEF ContentOK, ControlInv, TypeOK, FramesOK, Outside, Reports
  <2>2. WrittenSectionsSurvive'
    BY DEF WrittenSectionsSurvive, ContentOK, ControlInv, TypeOK, FramesOK
  <2>3. ClosedReportKept'
    BY DEF ClosedReportKept, WrittenSectionsSurvive, ContentOK, ControlInv, TypeOK, FramesOK
  <2>4. QED
    BY <2>1, <2>2, <2>3
<1>15. ASSUME NEW t \in All, Show(t) PROVE LogInv'
  <2> USE <1>15 DEF Goto, Show
  <2>1. ContentOK'
    BY DEF ContentOK, ControlInv, TypeOK, FramesOK, Outside, Reports
  <2>2. WrittenSectionsSurvive'
    BY DEF WrittenSectionsSurvive, ContentOK, ControlInv, TypeOK, FramesOK
  <2>3. ClosedReportKept'
    BY DEF ClosedReportKept, WrittenSectionsSurvive, ContentOK, ControlInv, TypeOK, FramesOK
  <2>4. QED
    BY <2>1, <2>2, <2>3
<1>16. ASSUME NEW t \in All, Terminate(t) PROVE LogInv'
  <2> USE <1>16 DEF Goto, Terminate
  <2>1. ContentOK'
    BY DEF ContentOK, ControlInv, TypeOK, FramesOK, Outside, Reports
  <2>2. WrittenSectionsSurvive'
    BY DEF WrittenSectionsSurvive, ContentOK, ControlInv, TypeOK, FramesOK
  <2>3. ClosedReportKept'
    BY DEF ClosedReportKept, WrittenSectionsSurvive, ContentOK, ControlInv, TypeOK, FramesOK
  <2>4. QED
    BY <2>1, <2>2, <2>3
<1>17. ASSUME NEW t \in Workers, WorkerDone(t) PROVE LogInv'
  <2> USE <1>17 DEF Goto, WorkerDone
  <2>1. ContentOK'
    BY DEF ContentOK, ControlInv, TypeOK, FramesOK, Outside, Reports
  <2>2. WrittenSectionsSurvive'
    BY DEF WrittenSectionsSurvive, ContentOK, ControlInv, TypeOK, FramesOK
  <2>3. ClosedReportKept'
    BY DEF ClosedReportKept, WrittenSectionsSurvive, ContentOK, ControlInv, TypeOK, FramesOK
  <2>4. QED
    BY <2>1, <2>2, <2>3
<1>18. CASE ReplaceFilter
  BY <1>18 DEF ReplaceFilter, ContentOK, WrittenSectionsSurvive, ClosedReportKept
<1>19. CASE Tick
  BY <1>19 DEF Tick, ContentOK, WrittenSectionsSurvive, ClosedReportKept
<1>20. CASE UNCHANGED vars
  BY <1>20 DEF vars, ContentOK, WrittenSectionsSurvive, ClosedReportKept
<1>21. QED
  BY <1>1, <1>2, <1>3, <1>4, <1>5, <1>6, <1>7, <1>8, <1>9, <1>10, <1>11, <1>12, <1>13, <1>14, <1>15, <1>16, <1>17, <1>18, <1>19, <1>20 DEF Next

\* Every reachable state satisfies the inductive invariant of the logs.
THEOREM LogInvariant == Spec => []LogInv
<1>1. QED
  BY ControlInvariant, LogInit, LogStep, PTL DEF Spec

\* The sections before the one being written are on disk, whatever happens to
\* the handler, unless a log of the same name was created since.
THEOREM SectionsSurvive == Spec => []WrittenSectionsSurvive
<1>1. LogInv => WrittenSectionsSurvive
  BY DEF LogInv
<1>2. QED
  BY <1>1, LogInvariant, PTL

\* A closed report stays on disk as it was closed, unless a log of the same
\* name was created since.
THEOREM ClosedReportStays == Spec => []ClosedReportKept
<1>1. LogInv => ClosedReportKept
  BY DEF LogInv
<1>2. QED
  BY <1>1, LogInvariant, PTL

\* Whoever crashes and however often, reports exclude each other.
THEOREM ReportsAreExclusive == Spec => []ReportsExclusive
<1>1. OneWriter /\ WriterHoldsMutex => ReportsExclusive
  BY DEF ReportsExclusive
<1>2. QED
  BY <1>1, OneReportAtATime, MutexAgrees, PTL

\* Nothing that has reached a log is lost from it, for all threads and sections.
THEOREM ReportsAreKept == Spec => []ReportsKept
<1>1. LogInv => ReportsKept
  BY DEF LogInv, ReportsKept
<1>2. QED
  BY <1>1, LogInvariant, PTL
-----------------------------------------------------------------------------
(* The handler implements CrashLog                                          *)

\* What the logger holds back is at most the section being written; a thread that
\* is neither flushing nor in a catch clause holds back nothing.
BufferOK ==
  \A t \in All :
    LET ready == {<<ReportOf(t), section[t]>>} IN
    /\ pc[t] = "flush" => buffer[t] = ready
    /\ pc[t] = "catch" =>
         \/ buffer[t] = {}
         \/ section[t] <= NumSections /\ buffer[t] = ready
    /\ pc[t] \notin {"flush", "catch"} => buffer[t] = {}

LEMMA BufferInit == Init => BufferOK
BY DEF Init, BufferOK

LEMMA BufferStep == ControlInv /\ BufferOK /\ [Next]_vars => BufferOK'
<1> SUFFICES ASSUME ControlInv, BufferOK, [Next]_vars PROVE BufferOK'
  OBVIOUS
<1> USE CrashAssumption DEF ControlInv, TypeOK, FramesOK, BufferOK, All, Outside,
                            mutexVars, fileVars, ReportOf, Goto
<1>1. ASSUME NEW t \in Threads, Fault(t) \/ HandledByGame(t) PROVE BufferOK'
  BY <1>1 DEF Fault, HandledByGame
<1>2. ASSUME NEW t \in Threads, Unhandled(t) PROVE BufferOK'
  BY <1>2 DEF Unhandled, EnterHandler
<1>3. ASSUME NEW t \in All, FastFail(t) PROVE BufferOK'
  BY <1>3 DEF FastFail, EnterHandler
<1>4. ASSUME NEW t \in All, Lock(t) PROVE BufferOK'
  BY <1>4 DEF Lock
<1>5. ASSUME NEW t \in All, StartLog(t) PROVE BufferOK'
  BY <1>5 DEF StartLog, CreateLog
<1>6. ASSUME NEW t \in All, Section(t) \/ Join(t) PROVE BufferOK'
  <2>1. buffer[t] = {} /\ pc' = [pc EXCEPT ![t] = "flush"]
    BY <1>6 DEF Section, Join
  <2>2. buffer' = [buffer EXCEPT ![t] = {<<ReportOf(t), section[t]>>}]
    BY <1>6, <2>1 DEF Section, Join, Write
  <2>3. UNCHANGED <<level, section>>
    BY <1>6 DEF Section, Join
  <2>4. QED
    BY <2>1, <2>2, <2>3
<1>7. ASSUME NEW t \in All, Flush(t) PROVE BufferOK'
  BY <1>7 DEF Flush
<1>8. ASSUME NEW t \in All, StartParallel(t) PROVE BufferOK'
  BY <1>8 DEF StartParallel
<1>9. ASSUME NEW t \in All, Finish(t) \/ Escape(t) PROVE BufferOK'
  BY <1>9 DEF Finish, Escape
<1>10. ASSUME NEW t \in All, Catch(t) PROVE BufferOK'
  BY <1>10 DEF Catch, CreateLog
<1>11. ASSUME NEW t \in All, CatchFails(t) \/ Show(t) \/ Terminate(t) PROVE BufferOK'
  BY <1>11 DEF CatchFails, Show, Terminate
<1>12. ASSUME NEW w \in Workers, WorkerDone(w) PROVE BufferOK'
  BY <1>12 DEF WorkerDone
<1>13. CASE ReplaceFilter \/ Tick \/ UNCHANGED vars
  BY <1>13 DEF ReplaceFilter, Tick, vars
<1>14. QED
  BY <1>1, <1>2, <1>3, <1>4, <1>5, <1>6, <1>7, <1>8, <1>9, <1>10, <1>11, <1>12, <1>13
  DEF Next

\* Whose report is being written, before a step and after it.
LEMMA WriterIs ==
  ASSUME NEW t \in All, InBody(t), \A u \in All : InBody(u) => u = t
  PROVE  Writer = DraftOf(t)
<1>1. (CHOOSE u \in All : InBody(u)) = t
  OBVIOUS
<1>2. QED
  BY <1>1 DEF Writer

LEMMA WriterWillBe ==
  ASSUME NEW t \in All, InBody(t)', \A u \in All : InBody(u)' => u = t
  PROVE  Writer' = DraftOf(t)'
<1>1. (CHOOSE u \in All : InBody(u)') = t
  OBVIOUS
<1>2. QED
  BY <1>1 DEF Writer

LEMMA NobodyWrites ==
  /\ (\A u \in All : ~InBody(u)) => Writer = NoDraft
  /\ (\A u \in All : ~InBody(u)') => Writer' = NoDraft'
BY DEF Writer

\* A step that leaves every report where it is, and every thread on its side of the
\* mutex, the try block and the catch clause.
Unmoved ==
  /\ UNCHANGED <<level, log, section>>
  /\ \A u \in All :
       /\ InBody(u)' <=> InBody(u)
       /\ pc'[u] = "catch" <=> pc[u] = "catch"
       /\ pc'[u] = "lock" <=> pc[u] = "lock"

LEMMA SameReports ==
  ASSUME OneWriter, Unmoved
  PROVE  UNCHANGED <<Begun, Writer, Failing>>
<1>1. Begun' = Begun
  BY DEF Begun, Unmoved, Reports
<1>2. \A u \in All : DraftOf(u)' = DraftOf(u)
  BY DEF DraftOf, ReportOf, Unmoved
<1>3. Failing' = Failing
  BY <1>2 DEF Failing, Unmoved
<1>4. Writer' = Writer
  <2>1. CASE \E t \in All : InBody(t)
    <3>1. PICK t \in All : InBody(t)
      BY <2>1
    <3>2. \A u \in All : (InBody(u) => u = t) /\ (InBody(u)' => u = t)
      BY <3>1 DEF OneWriter, Unmoved
    <3>3. Writer = DraftOf(t)
      BY <3>1, <3>2, WriterIs
    <3>4. Writer' = DraftOf(t)'
      BY <3>1, <3>2, WriterWillBe DEF Unmoved
    <3>5. QED
      BY <1>2, <3>3, <3>4
  <2>2. CASE \A t \in All : ~InBody(t)
    BY <2>2, NobodyWrites DEF Unmoved, NoDraft
  <2>3. QED
    BY <2>1, <2>2
<1>5. QED
  BY <1>1, <1>3, <1>4

\* Steps that the reader of the logs does not see.
LEMMA HiddenStep ==
  ASSUME OneWriter, Unmoved, UNCHANGED <<clock, disk, creator, closed, life>>
  PROVE  UNCHANGED Promised!logVars
BY SameReports DEF Promised!logVars, Alive

\* The process ends where it stands.
LEMMA EndStep ==
  ASSUME OneWriter, Alive, life' # "alive",
         UNCHANGED <<clock, pc, level, log, section, disk, creator, closed>>
  PROVE  Promised!End
<1>1. Unmoved
  BY DEF Unmoved, InBody
<1>2. UNCHANGED <<Begun, Writer, Failing>>
  BY <1>1, SameReports
<1>3. ~~Alive /\ ~Alive'
  BY DEF Alive
<1>4. QED
  BY <1>2, <1>3 DEF Promised!End

\* What the mapping needs to know of a thread that is in the handler.
LEMMA InHandler ==
  ASSUME ControlInv, NEW t \in All, pc[t] \notin Outside
  PROVE  /\ ReportOf(t) \in Reports
         /\ ReportOf(t) # NoReport
         /\ section[t] - 1 \in Nat
BY CrashAssumption
DEF ControlInv, TypeOK, FramesOK, Outside, ReportOf, Reports, NoReport, All

\* A thread that enters the handler, for the first time or out of the handler, gives
\* up what it was writing or still had to note.
LEMMA EnterStep ==
  ASSUME ControlInv, OneWriter, NEW t \in All, Alive, EnterHandler(t), pc[t] # "lock",
         level[t] \in 0 .. 1, UNCHANGED <<clock, disk, creator, closed, life>>
  PROVE  \/ Promised!Abandon
         \/ \E f \in Failing : Promised!Forget(f)
         \/ UNCHANGED Promised!logVars
<1>1. /\ \A u \in All : level'[u] = IF u = t THEN level[t] + 1 ELSE level[u]
      /\ \A u \in All : pc'[u] = IF u = t THEN "lock" ELSE pc[u]
      /\ \A u \in All \ {t} : log'[u] = log[u] /\ section'[u] = section[u]
  BY DEF EnterHandler, Goto, ControlInv, TypeOK
<1>2. Begun' = Begun
  <2>1. level[t] = 0 <=> pc[t] \in Outside
    BY DEF ControlInv, FramesOK
  <2>2. ASSUME NEW r \in Reports PROVE r \in Begun' <=> r \in Begun
    <3>1. r[1] \in All /\ r[2] \in 1 .. 2
      BY DEF Reports
    <3>2. CASE r[1] # t
      BY <1>1, <3>1, <3>2 DEF Begun
    <3>3. CASE r[1] = t
      <4>1. level'[t] = level[t] + 1 /\ pc'[t] = "lock"
        BY <1>1
      <4>2. r \in Begun' <=> r[2] < level[t] + 1
        BY <3>3, <4>1 DEF Begun
      <4>3. r \in Begun <=> r[2] < level[t] \/ r[2] = level[t]
        BY <3>3 DEF Begun
      <4>4. QED
        BY <3>1, <4>2, <4>3
    <3>4. QED
      BY <3>2, <3>3
  <2>3. Begun \subseteq Reports /\ Begun' \subseteq Reports
    BY DEF Begun, Reports
  <2>4. QED
    BY <2>2, <2>3
<1>3. \A u \in All \ {t} : DraftOf(u)' = DraftOf(u)
  BY <1>1 DEF DraftOf, ReportOf
<1>4. \A u \in All : /\ InBody(u)' <=> u # t /\ InBody(u)
                     /\ pc'[u] = "catch" <=> (u # t /\ pc[u] = "catch")
  BY <1>1 DEF InBody
<1>5. Alive' = Alive
  BY DEF Alive
<1>6. Failing' = {DraftOf(u) : u \in {v \in All \ {t} : pc[v] = "catch"}}
  <2>1. {u \in All : pc'[u] = "catch"} = {v \in All \ {t} : pc[v] = "catch"}
    BY <1>4
  <2>2. Failing' = {DraftOf(u)' : u \in {v \in All : pc'[v] = "catch"}}
    BY DEF Failing
  <2>3. QED
    BY <1>3, <2>1, <2>2
<1>7. Failing' = Failing \ {DraftOf(t)}
  <2>1. \A u \in All \ {t} : DraftOf(u) # DraftOf(t)
    BY DEF DraftOf, ReportOf
  <2>2. QED
    BY <1>6, <2>1 DEF Failing
<1>8. CASE InBody(t)
  <2>1. \A u \in All : InBody(u) => u = t
    BY <1>8 DEF OneWriter
  <2>2. Writer = DraftOf(t) /\ Writer' = NoDraft
    BY <1>4, <1>8, <2>1, WriterIs, NobodyWrites DEF NoDraft
  <2>3. Failing' = Failing
    BY <1>3, <1>6, <1>8 DEF Failing, InBody
  <2>4. ReportOf(t) # NoReport
    BY <1>8, InHandler DEF InBody, Outside
  <2>5. Writer # Promised!Nobody /\ Writer' = Promised!Nobody
    BY <2>2, <2>4 DEF Promised!Nobody, NoDraft, DraftOf
  <2>6. Promised!Abandon
    BY <1>2, <1>5, <2>3, <2>5 DEF Promised!Abandon
  <2>7. QED
    BY <2>6
<1>9. CASE ~InBody(t)
  <2>1. Writer' = Writer
    <3>1. CASE \E u \in All : InBody(u)
      <4>1. PICK u \in All : InBody(u)
        BY <3>1
      <4>2. u # t /\ InBody(u)'
        BY <1>4, <1>9, <4>1
      <4>3. \A v \in All : (InBody(v) => v = u) /\ (InBody(v)' => v = u)
        BY <1>4, <4>1 DEF OneWriter
      <4>4. QED
        BY <1>3, <4>1, <4>2, <4>3, WriterIs, WriterWillBe
    <3>2. CASE \A u \in All : ~InBody(u)
      BY <1>4, <3>2, NobodyWrites DEF NoDraft
    <3>3. QED
      BY <3>1, <3>2
  <2>2. CASE pc[t] = "catch"
    <3>1. DraftOf(t) \in Failing
      BY <2>2 DEF Failing
    <3>2. Promised!Forget(DraftOf(t))
      BY <1>2, <1>5, <1>7, <2>1 DEF Promised!Forget
    <3>3. QED
      BY <3>1, <3>2
  <2>3. CASE pc[t] # "catch"
    <3>1. Failing' = Failing
      BY <1>3, <1>6, <2>3 DEF Failing
    <3>2. QED
      BY <1>2, <1>5, <2>1, <3>1 DEF Promised!logVars
  <2>4. QED
    BY <2>2, <2>3
<1>10. QED
  BY <1>8, <1>9

\* A handler that gets the mutex begins its report; one that is refused it by its own
\* first frame has only its failure to tell.
LEMMA LockStep ==
  ASSUME ControlInv, NEW t \in All, Lock(t)
  PROVE  Promised!Begin(ReportOf(t)) \/ Promised!CannotBegin(ReportOf(t))
<1>1. /\ Alive /\ pc[t] = "lock" /\ sync.owner \in {NoThread, t}
      /\ pc' = [pc EXCEPT ![t] = "start"] \/ pc' = [pc EXCEPT ![t] = "catch"]
      /\ UNCHANGED <<clock, level, log, section, disk, creator, closed, life>>
  BY DEF Lock, Goto, fileVars
<1>2. log[t] = NoLog /\ section[t] = 1 /\ pc \in [All -> {pc[u] : u \in All}]
  BY <1>1 DEF ControlInv, TypeOK, FramesOK
<1>3. \A u \in All : ~InBody(u)
  BY <1>1, CrashAssumption DEF ControlInv, MutexOK, WriterHoldsMutex, InBody, All
<1>4. Writer = NoDraft /\ NoDraft = Promised!Nobody
  BY <1>3, NobodyWrites DEF NoDraft, Promised!Nobody
<1>5. ReportOf(t) \in Reports
  BY <1>1, InHandler DEF Outside
<1>6. ReportOf(t) \notin Begun
  BY <1>1 DEF Begun, ReportOf, ControlInv, TypeOK
<1>7. Begun' = Begun \cup {ReportOf(t)}
  <2>1. ASSUME NEW r \in Reports PROVE r \in Begun' <=> r \in Begun \/ r = ReportOf(t)
    <3>1. r[1] \in All /\ r[2] \in 1 .. 2 /\ r = <<r[1], r[2]>>
      BY DEF Reports
    <3>2. CASE r[1] # t
      BY <1>1, <1>2, <3>1, <3>2 DEF Begun, ReportOf
    <3>3. CASE r[1] = t
      <4>1. pc'[t] # "lock" /\ level'[t] = level[t]
        BY <1>1, <1>2
      <4>2. r \in Begun' <=> r[2] < level[t] \/ r[2] = level[t]
        BY <3>3, <4>1 DEF Begun
      <4>3. r \in Begun <=> r[2] < level[t]
        BY <1>1, <3>3 DEF Begun
      <4>4. QED
        BY <3>1, <3>3, <4>2, <4>3 DEF ReportOf
    <3>4. QED
      BY <3>2, <3>3
  <2>2. Begun \subseteq Reports /\ Begun' \subseteq Reports
    BY DEF Begun, Reports
  <2>3. QED
    BY <1>5, <2>1, <2>2
<1>8. \A u \in All : DraftOf(u)' = DraftOf(u)
  BY <1>1 DEF DraftOf, ReportOf
<1>9. DraftOf(t) = Promised!Draft(ReportOf(t))
  BY <1>2 DEF DraftOf, Promised!Draft
<1>10. Alive' = Alive
  BY <1>1 DEF Alive
<1>11. CASE pc' = [pc EXCEPT ![t] = "start"]
  <2>1. \A u \in All : (InBody(u)' <=> u = t) /\ (pc'[u] = "catch" <=> pc[u] = "catch")
    BY <1>1, <1>2, <1>3, <1>11 DEF InBody
  <2>2. Writer' = DraftOf(t)
    BY <1>8, <2>1, WriterWillBe
  <2>3. Failing' = Failing
    BY <1>8, <2>1 DEF Failing
  <2>4. Promised!Begin(ReportOf(t))
    BY <1>1, <1>4, <1>6, <1>7, <1>9, <1>10, <2>2, <2>3 DEF Promised!Begin
  <2>5. QED
    BY <2>4
<1>12. CASE pc' = [pc EXCEPT ![t] = "catch"]
  <2>1. \A u \in All : ~InBody(u)' /\ (pc'[u] = "catch" <=> u = t \/ pc[u] = "catch")
    BY <1>1, <1>2, <1>3, <1>12 DEF InBody
  <2>2. Writer' = Writer
    BY <1>4, <2>1, NobodyWrites DEF NoDraft
  <2>3. Failing' = Failing \cup {DraftOf(t)}
    BY <1>8, <2>1 DEF Failing
  <2>4. Promised!CannotBegin(ReportOf(t))
    BY <1>1, <1>4, <1>6, <1>7, <1>9, <1>10, <2>2, <2>3 DEF Promised!CannotBegin
  <2>5. QED
    BY <2>4
<1>13. QED
  BY <1>1, <1>11, <1>12

\* A step of the thread in the try block that leaves it there: no report begins or
\* fails by it.
LEMMA WriterStays ==
  ASSUME ControlInv, OneWriter, NEW t \in All, InBody(t), NEW to \in {"body", "flush"},
         pc' = [pc EXCEPT ![t] = to], UNCHANGED level,
         \A u \in All \ {t} : log'[u] = log[u] /\ section'[u] = section[u]
  PROVE  /\ Writer = DraftOf(t) /\ Writer' = DraftOf(t)'
         /\ Begun' = Begun /\ Failing' = Failing
<1>1. \A u \in All : pc'[u] = IF u = t THEN to ELSE pc[u]
  BY DEF ControlInv, TypeOK
<1>2. \A u \in All : /\ (InBody(u) => u = t) /\ (InBody(u)' <=> u = t)
                     /\ pc'[u] = "catch" <=> pc[u] = "catch"
                     /\ pc'[u] = "lock" <=> pc[u] = "lock"
  BY <1>1 DEF InBody, OneWriter
<1>3. \A u \in All : pc[u] = "catch" => DraftOf(u)' = DraftOf(u)
  BY DEF DraftOf, ReportOf, InBody
<1>4. Failing' = Failing
  BY <1>2, <1>3 DEF Failing
<1>5. Begun' = Begun
  BY <1>2 DEF Begun, Reports
<1>6. QED
  BY <1>2, <1>4, <1>5, WriterIs, WriterWillBe

\* A thread that leaves the try block.
LEMMA WriterLeaves ==
  ASSUME ControlInv, OneWriter, NEW t \in All, InBody(t), NEW to \in {"show", "catch"},
         pc' = [pc EXCEPT ![t] = to], UNCHANGED <<level, log, section>>
  PROVE  /\ Writer = DraftOf(t) /\ Writer # Promised!Nobody
         /\ Writer' = Promised!Nobody
         /\ Begun' = Begun
         /\ Failing' = IF to = "catch" THEN Failing \cup {DraftOf(t)} ELSE Failing
<1>1. \A u \in All : pc'[u] = IF u = t THEN to ELSE pc[u]
  BY DEF ControlInv, TypeOK
<1>2. \A u \in All : /\ (InBody(u) => u = t) /\ ~InBody(u)'
                     /\ pc'[u] = "lock" <=> pc[u] = "lock"
  BY <1>1 DEF InBody, OneWriter
<1>3. \A u \in All : DraftOf(u)' = DraftOf(u)
  BY DEF DraftOf, ReportOf
<1>4. \A u \in All : pc'[u] = "catch" <=> pc[u] = "catch" \/ (u = t /\ to = "catch")
  BY <1>1 DEF InBody
<1>5. Failing' = IF to = "catch" THEN Failing \cup {DraftOf(t)} ELSE Failing
  BY <1>3, <1>4 DEF Failing
<1>6. Begun' = Begun
  BY <1>2 DEF Begun, Reports
<1>7. Writer = DraftOf(t) /\ Writer' = NoDraft
  BY <1>2, WriterIs, NobodyWrites DEF NoDraft
<1>8. ReportOf(t) # NoReport
  BY InHandler DEF InBody, Outside
<1>9. Writer # Promised!Nobody /\ Writer' = Promised!Nobody
  BY <1>7, <1>8 DEF Promised!Nobody, NoDraft, DraftOf
<1>10. QED
  BY <1>5, <1>6, <1>7, <1>9

\* The log is created ...
LEMMA StartLogStep ==
  ASSUME ControlInv, OneWriter, NEW t \in All, StartLog(t)
  PROVE  Promised!Create
<1>1. /\ Alive /\ pc[t] = "start" /\ pc' = [pc EXCEPT ![t] = "body"]
      /\ log' = [log EXCEPT ![t] = clock] /\ creator' = [creator EXCEPT ![clock] = ReportOf(t)]
      /\ disk' = [disk EXCEPT ![clock] = {}]
      /\ UNCHANGED <<clock, level, section, closed, life>>
  BY DEF StartLog, CreateLog, Goto
<1>2. log[t] = NoLog /\ section[t] = 1 /\ log'[t] = clock
  BY <1>1 DEF ControlInv, TypeOK, FramesOK
<1>3. /\ Writer = DraftOf(t) /\ Writer' = DraftOf(t)'
      /\ Begun' = Begun /\ Failing' = Failing
  <2>1. \A u \in All \ {t} : log'[u] = log[u] /\ section'[u] = section[u]
    BY <1>1 DEF ControlInv, TypeOK
  <2>2. QED
    BY <1>1, <2>1, WriterStays DEF InBody
<1>4. DraftOf(t)' = [DraftOf(t) EXCEPT !.name = clock]
  BY <1>1, <1>2 DEF DraftOf, ReportOf
<1>5. ReportOf(t) # NoReport
  BY <1>1, InHandler DEF Outside
<1>6. DraftOf(t).name = NoLog /\ DraftOf(t).report = ReportOf(t) /\ DraftOf(t) # Promised!Nobody
  BY <1>2, <1>5 DEF DraftOf, Promised!Nobody
<1>7. Alive' = Alive
  BY <1>1 DEF Alive
<1>8. QED
  BY <1>1, <1>3, <1>4, <1>6, <1>7 DEF Promised!Create

\* ... sections are prepared, some of them with the workers, ...
LEMMA SectionStep ==
  ASSUME ControlInv, OneWriter, NEW t \in All, Section(t) \/ Join(t)
  PROVE  UNCHANGED Promised!logVars
<1>1. /\ InBody(t) /\ pc' = [pc EXCEPT ![t] = "flush"]
      /\ UNCHANGED <<clock, level, log, section, disk, creator, closed, life>>
  BY DEF Section, Join, Goto, InBody, fileVars
<1>2. \A u \in All : pc'[u] = IF u = t THEN "flush" ELSE pc[u]
  BY <1>1 DEF ControlInv, TypeOK
<1>3. Unmoved
  BY <1>1, <1>2 DEF Unmoved, InBody
<1>4. QED
  BY <1>1, <1>3, HiddenStep

\* ... each reaches the file when it is flushed, ...
LEMMA FlushStep ==
  ASSUME ControlInv, OneWriter, BufferOK, NEW t \in All, Flush(t)
  PROVE  Promised!Add
<1>1. /\ Alive /\ pc[t] = "flush" /\ pc' = [pc EXCEPT ![t] = "body"]
      /\ disk' = [disk EXCEPT ![log[t]] = @ \cup buffer[t]]
      /\ section' = [section EXCEPT ![t] = @ + 1]
      /\ UNCHANGED <<clock, level, log, creator, closed, life>>
  BY DEF Flush, Goto
<1>2. /\ log[t] \in Seconds /\ log[t] # NoLog
      /\ section[t] \in Nat \ {0} /\ section[t] <= NumSections
      /\ section'[t] = section[t] + 1
  BY <1>1, CrashAssumption DEF ControlInv, TypeOK, FramesOK, Seconds, NoLog
<1>3. /\ Writer = DraftOf(t) /\ Writer' = DraftOf(t)'
      /\ Begun' = Begun /\ Failing' = Failing
  <2>1. \A u \in All \ {t} : log'[u] = log[u] /\ section'[u] = section[u]
    BY <1>1 DEF ControlInv, TypeOK
  <2>2. QED
    BY <1>1, <2>1, WriterStays DEF InBody
<1>4. buffer[t] = {<<ReportOf(t), section[t]>>}
  BY <1>1 DEF BufferOK
<1>5. /\ DraftOf(t).report = ReportOf(t) /\ DraftOf(t).name = log[t]
      /\ DraftOf(t).written < NumSections /\ DraftOf(t).written + 1 = section[t]
      /\ DraftOf(t)' = [DraftOf(t) EXCEPT !.written = @ + 1]
  BY <1>1, <1>2, CrashAssumption DEF DraftOf, ReportOf
<1>6. Alive' = Alive
  BY <1>1 DEF Alive
<1>7. QED
  BY <1>1, <1>2, <1>3, <1>4, <1>5, <1>6 DEF Promised!Add

\* ... and after the last the report is complete,
LEMMA FinishStep ==
  ASSUME ControlInv, OneWriter, NEW t \in All, Finish(t)
  PROVE  Promised!Complete
<1>1. /\ Alive /\ pc[t] = "body" /\ pc' = [pc EXCEPT ![t] = "show"]
      /\ section[t] > NumSections
      /\ closed' = closed \cup {[report |-> ReportOf(t), name |-> log[t], ok |-> TRUE]}
      /\ UNCHANGED <<clock, level, log, section, disk, creator, life>>
  BY DEF Finish, Goto, fileVars
<1>2. log[t] # NoLog /\ section[t] - 1 = NumSections
  BY <1>1, CrashAssumption DEF ControlInv, TypeOK, Seconds, NoLog
<1>3. Writer = DraftOf(t) /\ Writer' = Promised!Nobody /\ Begun' = Begun /\ Failing' = Failing
  BY <1>1, WriterLeaves DEF InBody
<1>4. Alive' = Alive
  BY <1>1 DEF Alive
<1>5. QED
  BY <1>1, <1>2, <1>3, <1>4 DEF Promised!Complete, DraftOf

\* or it fails.
LEMMA EscapeStep ==
  ASSUME ControlInv, OneWriter, NEW t \in All, Escape(t)
  PROVE  Promised!Fail
<1>1. /\ Alive /\ InBody(t) /\ pc' = [pc EXCEPT ![t] = "catch"]
      /\ UNCHANGED <<clock, level, log, section, disk, creator, closed, life>>
  BY DEF Escape, Goto, InBody, fileVars
<1>2. /\ Writer = DraftOf(t) /\ Writer # Promised!Nobody /\ Writer' = Promised!Nobody
      /\ Begun' = Begun /\ Failing' = Failing \cup {DraftOf(t)}
  BY <1>1, WriterLeaves
<1>3. Alive' = Alive
  BY <1>1 DEF Alive
<1>4. QED
  BY <1>1, <1>2, <1>3 DEF Promised!Fail

\* The failure is noted with what the logger still held back.
LEMMA CatchStep ==
  ASSUME ControlInv, OneWriter, BufferOK, NEW t \in All, Catch(t)
  PROVE  \E f \in Failing : Promised!Notice(f)
<1> DEFINE f == DraftOf(t)
           name == IF log[t] = NoLog THEN clock ELSE log[t]
<1>1. /\ Alive /\ pc[t] = "catch" /\ pc' = [pc EXCEPT ![t] = "show"]
      /\ closed' = closed \cup {[report |-> ReportOf(t), name |-> name, ok |-> FALSE]}
      /\ disk' = [disk EXCEPT ![name] = (IF log[t] = NoLog THEN {} ELSE disk[name])
                                          \cup buffer[t] \cup {<<ReportOf(t), Failure>>}]
      /\ UNCHANGED <<clock, level, section, life>>
  BY DEF Catch, Goto
<1>2. /\ creator' = IF log[t] = NoLog THEN [creator EXCEPT ![clock] = ReportOf(t)] ELSE creator
      /\ \A u \in All \ {t} : log'[u] = log[u]
  BY DEF Catch, CreateLog, ControlInv, TypeOK
<1>3. \A u \in All : pc'[u] = IF u = t THEN "show" ELSE pc[u]
  BY <1>1 DEF ControlInv, TypeOK
<1>4. \A u \in All : /\ InBody(u)' <=> InBody(u)
                     /\ pc'[u] = "lock" <=> pc[u] = "lock"
                     /\ pc'[u] = "catch" <=> u # t /\ pc[u] = "catch"
  BY <1>1, <1>3 DEF InBody
<1>5. Begun' = Begun
  BY <1>1, <1>4 DEF Begun, Reports
<1>6. \A u \in All \ {t} : DraftOf(u)' = DraftOf(u) /\ DraftOf(u) # f
  BY <1>1, <1>2 DEF DraftOf, ReportOf
<1>7. f \in Failing /\ Failing' = Failing \ {f}
  BY <1>1, <1>4, <1>6 DEF Failing
<1>8. Writer' = Writer
  <2>1. CASE \E u \in All : InBody(u)
    <3>1. PICK u \in All : InBody(u)
      BY <2>1
    <3>2. u # t
      BY <1>1, <3>1 DEF InBody
    <3>3. \A v \in All : (InBody(v) => v = u) /\ (InBody(v)' => v = u)
      BY <1>4, <3>1 DEF OneWriter
    <3>4. QED
      BY <1>4, <1>6, <3>1, <3>2, <3>3, WriterIs, WriterWillBe
  <2>2. CASE \A u \in All : ~InBody(u)
    BY <1>4, <2>2, NobodyWrites DEF NoDraft
  <2>3. QED
    BY <2>1, <2>2
<1>9. /\ f.report = ReportOf(t) /\ f.name = log[t]
      /\ f.written = section[t] - 1 /\ f.written + 1 = section[t]
  <2>1. section[t] \in Nat
    BY CrashAssumption DEF ControlInv, TypeOK
  <2>2. QED
    BY <2>1 DEF DraftOf
<1>10. \/ buffer[t] = {}
       \/ buffer[t] = {<<f.report, f.written + 1>>} /\ f.written # NumSections
  BY <1>1, <1>9, CrashAssumption DEF BufferOK, ControlInv, TypeOK
<1>11. Alive' = Alive
  BY <1>1 DEF Alive
<1>12. Failure = Promised!Failure
  BY DEF Failure, Promised!Failure
<1> HIDE DEF f
<1>13. Promised!Notice(f)
  BY <1>1, <1>2, <1>5, <1>7, <1>8, <1>9, <1>10, <1>11, <1>12 DEF Promised!Notice
<1>14. QED
  BY <1>7, <1>13

\* Every step of the handler is a step of the abstract log, or hidden from it.
LEMMA StepRefines ==
  ASSUME ControlInv, OneWriter, BufferOK, [Next]_vars
  PROVE  [Promised!Next]_(Promised!logVars)
<1>1. ASSUME NEW t \in Threads, Fault(t) \/ HandledByGame(t)
      PROVE  UNCHANGED Promised!logVars
  <2>1. /\ pc[t] \in {"run", "dispatch"}
        /\ pc' = [pc EXCEPT ![t] = "dispatch"] \/ pc' = [pc EXCEPT ![t] = "run"]
        /\ UNCHANGED <<clock, level, log, section, disk, creator, closed, life>>
    BY <1>1 DEF Fault, HandledByGame, Goto, fileVars
  <2>2. \A u \in All : pc'[u] = pc[u] \/ {pc[u], pc'[u]} \subseteq {"run", "dispatch"}
    BY <2>1 DEF ControlInv, TypeOK, All
  <2>3. Unmoved
    BY <2>1, <2>2 DEF Unmoved, InBody
  <2>4. QED
    BY <2>1, <2>3, HiddenStep
<1>2. ASSUME NEW t \in All, (t \in Threads /\ Unhandled(t)) \/ FastFail(t)
      PROVE  \/ Promised!Abandon
             \/ \E f \in Failing : Promised!Forget(f)
             \/ Promised!End
             \/ UNCHANGED Promised!logVars
  <2>1. Alive /\ pc[t] # "lock" /\ UNCHANGED <<clock, disk, creator, closed>>
    BY <1>2 DEF Unhandled, FastFail, fileVars
  <2>2. \/ EnterHandler(t) /\ life' = life /\ level[t] \in 0 .. 1
        \/ life' = "killed" /\ UNCHANGED <<pc, level, log, section>>
    BY <1>2 DEF Unhandled, FastFail, ControlInv, TypeOK, FramesOK, Outside
  <2>3. QED
    BY <2>1, <2>2, EnterStep, EndStep
<1>3. ASSUME NEW t \in All, Lock(t)
      PROVE  \E r \in Reports : Promised!Begin(r) \/ Promised!CannotBegin(r)
  <2>1. ReportOf(t) \in Reports
    BY <1>3, InHandler DEF Lock, Outside
  <2>2. QED
    BY <1>3, <2>1, LockStep
<1>4. ASSUME NEW t \in All, CatchFails(t) \/ Terminate(t) PROVE Promised!End
  BY <1>4, EndStep DEF CatchFails, Terminate, fileVars
<1>5. ASSUME NEW t \in All, Show(t) PROVE UNCHANGED Promised!logVars
  <2>1. /\ pc[t] = "show" /\ pc' = [pc EXCEPT ![t] = "end"]
        /\ UNCHANGED <<clock, level, log, section, disk, creator, closed, life>>
    BY <1>5 DEF Show, Goto, fileVars
  <2>2. \A u \in All : pc'[u] = IF u = t THEN "end" ELSE pc[u]
    BY <2>1 DEF ControlInv, TypeOK
  <2>3. Unmoved
    BY <2>1, <2>2 DEF Unmoved, InBody
  <2>4. QED
    BY <2>1, <2>3, HiddenStep
<1>6. ASSUME NEW t \in All, StartParallel(t) PROVE UNCHANGED Promised!logVars
  <2>1. /\ pc[t] = "body"
        /\ \A u \in All : \/ u = t /\ pc'[u] = "wait"
                          \/ pc[u] = "idle" /\ pc'[u] = "analyse"
                          \/ u # t /\ pc'[u] = pc[u]
        /\ UNCHANGED <<clock, level, log, section, disk, creator, closed, life>>
    BY <1>6 DEF StartParallel, fileVars
  <2>2. Unmoved
    BY <2>1 DEF Unmoved, InBody
  <2>3. QED
    BY <2>1, <2>2, HiddenStep
<1>7. ASSUME NEW w \in Workers, WorkerDone(w) PROVE UNCHANGED Promised!logVars
  <2>1. /\ pc[w] = "analyse" /\ pc' = [pc EXCEPT ![w] = "idle"] /\ w \in All
        /\ UNCHANGED <<clock, level, log, section, disk, creator, closed, life>>
    BY <1>7 DEF WorkerDone, Goto, fileVars, All
  <2>2. \A u \in All : pc'[u] = IF u = w THEN "idle" ELSE pc[u]
    BY <2>1 DEF ControlInv, TypeOK
  <2>3. Unmoved
    BY <2>1, <2>2 DEF Unmoved, InBody
  <2>4. QED
    BY <2>1, <2>3, HiddenStep
<1>8. CASE ReplaceFilter
  <2>1. UNCHANGED <<clock, pc, level, log, section, disk, creator, closed, life>>
    BY <1>8 DEF ReplaceFilter, fileVars
  <2>2. Unmoved
    BY <2>1 DEF Unmoved, InBody
  <2>3. QED
    BY <2>1, <2>2, HiddenStep
<1>9. CASE Tick
  <2>1. /\ Alive /\ clock' = clock + 1 /\ clock < MaxClock
        /\ UNCHANGED <<pc, level, log, section, disk, creator, closed, life>>
    BY <1>9 DEF Tick, fileVars
  <2>2. Unmoved
    BY <2>1 DEF Unmoved, InBody
  <2>3. UNCHANGED <<Begun, Writer, Failing>>
    BY <2>2, SameReports
  <2>4. clock + 1 \in Seconds
    BY <2>1, CrashAssumption DEF ControlInv, TypeOK, Seconds
  <2>5. Promised!Tick
    BY <2>1, <2>3, <2>4 DEF Promised!Tick, Alive
  <2>6. QED
    BY <2>5 DEF Promised!Next
<1>10. CASE UNCHANGED vars
  <2>1. UNCHANGED <<clock, pc, level, log, section, disk, creator, closed, life>>
    BY <1>10 DEF vars, fileVars
  <2>2. Unmoved
    BY <2>1 DEF Unmoved, InBody
  <2>3. QED
    BY <2>1, <2>2, HiddenStep
<1>11. ASSUME NEW t \in All, \/ StartLog(t) \/ Section(t) \/ Flush(t) \/ Join(t)
                             \/ Finish(t) \/ Escape(t) \/ Catch(t)
       PROVE  \/ Promised!Create \/ Promised!Add \/ Promised!Complete \/ Promised!Fail
              \/ \E f \in Failing : Promised!Notice(f)
              \/ UNCHANGED Promised!logVars
  BY <1>11, StartLogStep, SectionStep, FlushStep, FinishStep, EscapeStep, CatchStep
<1>12. CASE \E t \in Threads : Fault(t) \/ HandledByGame(t) \/ Unhandled(t)
  <2>1. Threads \subseteq All
    BY DEF All
  <2>2. QED
    BY <1>1, <1>2, <1>12, <2>1 DEF Promised!Next
<1>13. CASE \E t \in All : \/ FastFail(t) \/ Lock(t) \/ StartLog(t) \/ Section(t)
                           \/ Flush(t) \/ StartParallel(t) \/ Join(t) \/ Finish(t)
                           \/ Escape(t) \/ Catch(t) \/ CatchFails(t) \/ Show(t)
                           \/ Terminate(t)
  BY <1>2, <1>3, <1>4, <1>5, <1>6, <1>11, <1>13 DEF Promised!Next
<1>14. QED
  BY <1>7, <1>8, <1>9, <1>10, <1>12, <1>13 DEF Next

LEMMA InitRefines == Init => Promised!Init
<1> SUFFICES ASSUME Init PROVE Promised!Init
  OBVIOUS
<1>1. \A t \in All : /\ pc[t] \in {"run", "idle"} /\ level[t] = 0
                     /\ log[t] = NoLog /\ section[t] = 1
  BY DEF Init
<1>2. Begun = {}
  BY <1>1 DEF Begun, Reports
<1>3. Failing = {}
  BY <1>1 DEF Failing
<1>4. Writer = Promised!Nobody
  BY <1>1, NobodyWrites DEF InBody, NoDraft, Promised!Nobody
<1>5. ~Alive = FALSE
  BY DEF Init, Alive
<1>6. QED
  BY <1>2, <1>3, <1>4, <1>5 DEF Init, Promised!Init

\* However many threads crash, wherever the handler crashes again and whatever it fails
\* in, the logs on disk change as CrashLog promises: one report at a time, section by
\* section, nothing after the end of the process.
THEOREM CrashHandlerImplementsCrashLog == Spec => RefinesCrashLog
<1>1. ControlInv => OneWriter
  BY DEF ControlInv, MutexOK, WriterHoldsMutex, OneWriter
<1>2. ControlInv /\ BufferOK /\ [Next]_vars => [Promised!Next]_(Promised!logVars)
  BY <1>1, StepRefines
<1>3. QED
  BY <1>2, InitRefines, ControlInvariant, BufferInit, BufferStep, PTL
  DEF Spec, RefinesCrashLog, Promised!Spec
=============================================================================
