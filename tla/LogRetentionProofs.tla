------------------------- MODULE LogRetentionProofs -------------------------
(***************************************************************************)
(* What LogRetention guarantees for any limits, any number of crashes and  *)
(* whatever the user does in the directory.                                *)
(***************************************************************************)
EXTENDS LogRetention, FiniteSetTheorems, TLAPS

LogFiles == {"log"} \X Names

\* The log of this crash is there and open, so that no call can delete it.
CrashOK ==
  /\ pc # "idle" => current \in files \cap busy \cap LogFiles
  /\ pc = "delete logs" => doomed \subseteq LogFiles
  /\ pc \in {"idle", "clean logs"} => gone = {}
  /\ pc # "idle" => \A f \in gone : f \in LogFiles /\ f # current
  /\ pc # "delete logs" => assoc = NoFile

RetentionInv == TypeOK /\ CrashOK

\* The kinds of files and their names.
LEMMA FileFacts ==
  /\ \A n \in Names : /\ Log(n) \in File /\ Log(n) \in LogFiles /\ Dump(n) \in File
                      /\ Dump(n) \notin LogFiles /\ Dump(n) # NoFile
  /\ NoFile \notin File /\ 0 \in Names
  /\ \A f \in File : f[2] \in Names /\ (f \in LogFiles <=> f[1] = "log")
  /\ \A f \in LogFiles : f \in File /\ f = Log(f[2])
BY RetentionAssumption DEF File, LogFiles, Log, Dump, NoFile, Names

LEMMA RetentionInit == Init => RetentionInv
<1> SUFFICES ASSUME Init PROVE RetentionInv
  OBVIOUS
<1> USE RetentionAssumption DEF Init
<1>1. failed \in BOOLEAN /\ meddled \in BOOLEAN
  BY Zenon
<1>2. clock \in Names /\ mtime \in [File -> Names] /\ user \in 0 .. MaxUser
  BY DEF Names
<1>3. TypeOK
  BY <1>1, <1>2 DEF TypeOK
<1>4. CrashOK
  BY DEF CrashOK
<1>5. QED
  BY <1>3, <1>4 DEF RetentionInv

LEMMA RetentionStep == RetentionInv /\ [Next]_vars => RetentionInv'
<1> SUFFICES ASSUME RetentionInv, [Next]_vars PROVE RetentionInv'
  OBVIOUS
<1> USE RetentionAssumption DEF RetentionInv, dirVars, cleanVars
<1>1. CASE StartLog
  <2> USE <1>1 DEF StartLog, Create
  <2>1. TypeOK'
    BY FileFacts DEF TypeOK, CrashOK
  <2>2. CrashOK'
    BY FileFacts DEF TypeOK, CrashOK
  <2>3. QED
    BY <2>1, <2>2
<1>2. CASE ListLogs
  <2> USE <1>2 DEF ListLogs, List
  <2>1. TypeOK'
    BY FileFacts DEF TypeOK, CrashOK
  <2>2. CrashOK'
    BY FileFacts DEF TypeOK, CrashOK
  <2>3. QED
    BY <2>1, <2>2
<1>3. CASE ListDumps
  <2> USE <1>3 DEF ListDumps, List
  <2>1. TypeOK'
    BY FileFacts DEF TypeOK, CrashOK
  <2>2. CrashOK'
    BY FileFacts DEF TypeOK, CrashOK
  <2>3. QED
    BY <2>1, <2>2
<1>4. CASE DeleteLog
  <2> USE <1>4 DEF DeleteLog
  <2>1. /\ pc = "delete logs" /\ assoc = NoFile
        /\ UNCHANGED <<clock, busy, current, stranded, meddled, user>>
    OBVIOUS
  <2>2. ASSUME NEW f \in doomed, Throws(f, "clean dumps") PROVE RetentionInv'
    <3>1. failed' = TRUE /\ pc' = "clean dumps" /\ doomed' = {} /\ assoc' = NoFile
          /\ UNCHANGED <<files, mtime, gone>>
      BY <2>2 DEF Throws
    <3>2. failed' \in BOOLEAN
      BY <3>1, Zenon
    <3> HIDE <1>4
    <3>3. TypeOK'
      BY <2>1, <3>1, <3>2 DEF TypeOK
    <3>4. CrashOK'
      BY <2>1, <3>1 DEF CrashOK
    <3>5. QED
      BY <3>3, <3>4
  <2>3. ASSUME NEW f \in doomed, Delete(f), doomed' = doomed \ {f},
               assoc' = Dump(f[2]), gone' = gone \cup {f}, UNCHANGED <<failed, pc>>
        PROVE  RetentionInv'
    <3> HIDE <1>4
    <3>1. /\ files' = files \ {f} /\ (f \in files => f \notin busy)
          /\ mtime' = [mtime EXCEPT ![f] = 0]
      BY <2>3 DEF Delete, Deletable
    <3>2. f \in LogFiles /\ f # current /\ current \in files \cap busy \cap LogFiles
      BY <2>1, <3>1 DEF CrashOK
    <3>3. f \in File /\ Dump(f[2]) \in File /\ Dump(f[2]) # NoFile
      BY <3>2, FileFacts
    <3>4. TypeOK'
      BY <2>1, <2>3, <3>1, <3>3, FileFacts DEF TypeOK
    <3>5. \A g \in gone' : g \in LogFiles /\ g # current
      BY <2>1, <2>3, <3>2 DEF CrashOK
    <3>6. CrashOK'
      BY <2>1, <2>3, <3>1, <3>2, <3>5 DEF CrashOK
    <3>7. QED
      BY <3>4, <3>6
  <2>4. QED
    BY <2>2, <2>3
<1>5. CASE DeleteAssociated
  <2> USE <1>5 DEF DeleteAssociated
  <2>1. /\ pc = "delete logs" /\ assoc # NoFile
        /\ UNCHANGED <<clock, busy, current, meddled, user>>
    OBVIOUS
  <2>2. CASE Throws(assoc, "clean dumps") /\ stranded' = stranded \cup {assoc}
    <3>1. failed' = TRUE /\ pc' = "clean dumps" /\ doomed' = {} /\ assoc' = NoFile
          /\ UNCHANGED <<files, mtime, gone>>
      BY <2>2 DEF Throws
    <3>2. failed' \in BOOLEAN
      BY <3>1, Zenon
    <3> HIDE <1>5
    <3>3. TypeOK'
      BY <2>1, <2>2, <3>1, <3>2 DEF TypeOK
    <3>4. CrashOK'
      BY <2>1, <3>1 DEF CrashOK
    <3>5. QED
      BY <3>3, <3>4
  <2>3. CASE Delete(assoc) /\ assoc' = NoFile /\ UNCHANGED <<doomed, failed, gone, stranded, pc>>
    <3> HIDE <1>5
    <3>1. /\ files' = files \ {assoc} /\ (assoc \in files => assoc \notin busy)
          /\ mtime' = [mtime EXCEPT ![assoc] = 0]
      BY <2>3 DEF Delete, Deletable
    <3>2. current \in files' \cap busy \cap LogFiles
      BY <2>1, <3>1 DEF CrashOK
    <3>3. TypeOK'
      BY <2>1, <2>3, <3>1, FileFacts DEF TypeOK
    <3>4. CrashOK'
      BY <2>1, <2>3, <3>2 DEF CrashOK
    <3>5. QED
      BY <3>3, <3>4
  <2>4. QED
    BY <2>2, <2>3
<1>6. CASE DeleteDump
  <2> USE <1>6 DEF DeleteDump
  <2>1. /\ pc = "delete dumps"
        /\ UNCHANGED <<clock, busy, current, stranded, meddled, user>>
    OBVIOUS
  <2>2. ASSUME NEW f \in doomed, Throws(f, "dump") PROVE RetentionInv'
    <3>1. failed' = TRUE /\ pc' = "dump" /\ doomed' = {} /\ assoc' = NoFile
          /\ UNCHANGED <<files, mtime, gone>>
      BY <2>2 DEF Throws
    <3>2. failed' \in BOOLEAN
      BY <3>1, Zenon
    <3> HIDE <1>6
    <3>3. TypeOK'
      BY <2>1, <3>1, <3>2 DEF TypeOK
    <3>4. CrashOK'
      BY <2>1, <3>1 DEF CrashOK
    <3>5. QED
      BY <3>3, <3>4
  <2>3. ASSUME NEW f \in doomed, Delete(f), doomed' = doomed \ {f},
               UNCHANGED <<assoc, failed, gone, pc>>
        PROVE  RetentionInv'
    <3> HIDE <1>6
    <3>1. /\ files' = files \ {f} /\ (f \in files => f \notin busy)
          /\ mtime' = [mtime EXCEPT ![f] = 0]
      BY <2>3 DEF Delete, Deletable
    <3>2. current \in files' \cap busy \cap LogFiles
      BY <2>1, <3>1 DEF CrashOK
    <3>3. TypeOK'
      BY <2>1, <2>3, <3>1, FileFacts DEF TypeOK
    <3>4. CrashOK'
      BY <2>1, <2>3, <3>1, <3>2 DEF CrashOK
    <3>5. QED
      BY <3>3, <3>4
  <2>4. QED
    BY <2>2, <2>3
<1>7. CASE Deleted
  <2> USE <1>7 DEF Deleted
  <2>1. TypeOK'
    BY FileFacts DEF TypeOK, CrashOK
  <2>2. CrashOK'
    BY FileFacts DEF TypeOK, CrashOK
  <2>3. QED
    BY <2>1, <2>2
<1>8. CASE WriteDump
  <2> USE <1>8 DEF WriteDump
  <2>1. /\ pc = "dump" /\ pc' = "report"
        /\ UNCHANGED <<clock, busy, current, doomed, assoc, failed, gone, stranded, meddled, user>>
    OBVIOUS
  <2>2. CASE UNCHANGED <<files, mtime>>
    BY <2>1, <2>2 DEF TypeOK, CrashOK
  <2>3. CASE Create(Dump(current[2]))
    <3> HIDE <1>8
    <3>1. /\ current \in LogFiles /\ clock \in Names
          /\ files' = files \cup {Dump(current[2])}
          /\ mtime' = [mtime EXCEPT ![Dump(current[2])] = clock]
      BY <2>1, <2>3 DEF TypeOK, CrashOK, Create
    <3>2. current = Log(current[2]) /\ Dump(current[2]) \in File
      BY <3>1, FileFacts
    <3>3. TypeOK'
      BY <2>1, <3>1, <3>2 DEF TypeOK
    <3>4. CrashOK'
      BY <2>1, <3>1 DEF CrashOK
    <3>5. QED
      BY <3>3, <3>4
  <2>4. QED
    BY <2>2, <2>3
<1>9. CASE EndProcess
  <2> USE <1>9 DEF EndProcess
  <2>1. TypeOK'
    BY FileFacts DEF TypeOK, CrashOK
  <2>2. CrashOK'
    BY FileFacts DEF TypeOK, CrashOK
  <2>3. QED
    BY <2>1, <2>2
<1>10. CASE Touch
  <2> USE <1>10 DEF Touch
  <2>1. TypeOK'
    BY FileFacts DEF TypeOK, CrashOK
  <2>2. CrashOK'
    BY FileFacts DEF TypeOK, CrashOK
  <2>3. QED
    BY <2>1, <2>2
<1>11. ASSUME NEW f \in File, UserOpens(f) PROVE RetentionInv'
  <2> USE <1>11 DEF UserOpens
  <2>5. user' \in 0 .. MaxUser
    <3>1. user \in 0 .. MaxUser /\ user < MaxUser /\ user' = user + 1
      BY <1>11 DEF TypeOK, UserActs
    <3> HIDE <1>11 DEF RetentionInv
    <3>2. QED
      BY <3>1
  <2>1. TypeOK'
    <3>1. UNCHANGED <<clock, files, mtime, pc, current, cleanVars, meddled>>
      OBVIOUS
    <3>2. busy' \subseteq files
      BY DEF TypeOK
    <3>3. QED
      BY <2>5, <3>1, <3>2 DEF TypeOK
  <2>2. CrashOK'
    BY FileFacts DEF TypeOK, CrashOK
  <2>3. QED
    BY <2>1, <2>2
<1>12. ASSUME NEW f \in File, UserCloses(f) PROVE RetentionInv'
  <2> USE <1>12 DEF UserCloses
  <2>5. user' \in 0 .. MaxUser
    <3>1. user \in 0 .. MaxUser /\ user < MaxUser /\ user' = user + 1
      BY <1>12 DEF TypeOK, UserActs
    <3> HIDE <1>12 DEF RetentionInv
    <3>2. QED
      BY <3>1
  <2>1. TypeOK'
    <3>1. f # current /\ UNCHANGED <<clock, files, mtime, pc, current, cleanVars, meddled>>
      OBVIOUS
    <3>2. busy' \subseteq files
      BY DEF TypeOK
    <3>3. QED
      BY <2>5, <3>1, <3>2 DEF TypeOK
  <2>2. CrashOK'
    BY FileFacts DEF TypeOK, CrashOK
  <2>3. QED
    BY <2>1, <2>2
<1>13. ASSUME NEW f \in File, UserDeletes(f) PROVE RetentionInv'
  <2> USE <1>13 DEF UserDeletes
  <2>5. user' \in 0 .. MaxUser
    <3>1. user \in 0 .. MaxUser /\ user < MaxUser /\ user' = user + 1
      BY <1>13 DEF TypeOK, UserActs
    <3> HIDE <1>13 DEF RetentionInv
    <3>2. QED
      BY <3>1
  <2>1. TypeOK'
    <3>1. UNCHANGED <<clock, mtime, busy, pc, current, doomed, assoc, failed, gone>> /\ meddled' = TRUE
      OBVIOUS
    <3>2. files' \subseteq File /\ busy \subseteq files' /\ stranded' \subseteq File
      BY FileFacts DEF TypeOK
    <3>3. QED
      BY <2>5, <3>1, <3>2 DEF TypeOK
  <2>2. CrashOK'
    BY FileFacts DEF TypeOK, CrashOK
  <2>3. QED
    BY <2>1, <2>2
<1>14. ASSUME NEW f \in File, UserEdits(f) PROVE RetentionInv'
  <2> USE <1>14 DEF UserEdits
  <2>5. user' \in 0 .. MaxUser
    <3>1. user \in 0 .. MaxUser /\ user < MaxUser /\ user' = user + 1
      BY <1>14 DEF TypeOK, UserActs
    <3> HIDE <1>14 DEF RetentionInv
    <3>2. QED
      BY <3>1
  <2>1. TypeOK'
    <3>1. UNCHANGED <<clock, files, busy, pc, current, cleanVars, meddled>>
      OBVIOUS
    <3>2. mtime' \in [File -> Names]
      BY DEF TypeOK
    <3>3. QED
      BY <2>5, <3>1, <3>2 DEF TypeOK
  <2>2. CrashOK'
    BY FileFacts DEF TypeOK, CrashOK
  <2>3. QED
    BY <2>1, <2>2
<1>15. CASE Tick
  <2>1. clock' \in Names
    <3>1. clock \in Names /\ clock < MaxClock /\ clock' = clock + 1
      BY <1>15 DEF Tick, TypeOK
    <3> HIDE DEF RetentionInv
    <3>2. QED
      BY <3>1 DEF Names
  <2>2. UNCHANGED <<files, mtime, busy, pc, current, doomed, assoc, failed, gone,
                    stranded, meddled, user>>
    BY <1>15 DEF Tick
  <2>3. TypeOK' /\ CrashOK'
    BY <2>1, <2>2 DEF TypeOK, CrashOK
  <2>4. QED
    BY <2>3
<1>16. CASE UNCHANGED vars
  BY <1>16 DEF vars, TypeOK, CrashOK, Names
<1>17. QED
  BY <1>1, <1>2, <1>3, <1>4, <1>5, <1>6, <1>7, <1>8, <1>9, <1>10, <1>11, <1>12, <1>13, <1>14, <1>15, <1>16 DEF Next

\* Every reachable state satisfies the inductive invariant.
THEOREM RetentionInvariant == Spec => []RetentionInv
<1>1. QED
  BY RetentionInit, RetentionStep, PTL DEF Spec

\* Every variable keeps to its type, for all limits.
THEOREM TypeCorrect == Spec => []TypeOK
<1>1. RetentionInv => TypeOK
  BY DEF RetentionInv
<1>2. QED
  BY <1>1, RetentionInvariant, PTL

\* Cleaning never deletes the log of the crash under way.
THEOREM CurrentLogStays == Spec => []CurrentLogKept
<1>1. RetentionInv => CurrentLogKept
  BY DEF RetentionInv, CrashOK, CurrentLogKept
<1>2. QED
  BY <1>1, RetentionInvariant, PTL

\* What a clean-up deletes as minidumps are no logs, nor is the minidump that goes
\* with a log.
OrphanInv ==
  /\ OrphansExplained
  /\ pc = "delete dumps" => doomed \cap LogFiles = {}
  /\ assoc \notin LogFiles

LEMMA OrphanInit == Init => OrphanInv
BY DEF Init, OrphanInv, OrphansExplained, Dumps, NoFile, LogFiles

\* A minidump and its log have one name.
LEMMA NameFacts ==
  ASSUME files \subseteq File
  PROVE  /\ \A d \in Dumps : d \in File /\ d = Dump(d[2]) /\ d \notin LogFiles
         /\ \A f \in LogFiles : f = Log(f[2])
         /\ \A n : Dump(n)[2] = n /\ Log(n)[2] = n /\ Log(n) # Dump(n)
         /\ \A n : Dump(n) \notin LogFiles
         /\ NoFile \notin LogFiles
BY DEF File, LogFiles, Dumps, Dump, Log, NoFile

LEMMA OrphanStep == RetentionInv /\ OrphanInv /\ [Next]_vars => OrphanInv'
<1> SUFFICES ASSUME RetentionInv, OrphanInv, [Next]_vars PROVE OrphanInv'
  OBVIOUS
<1>0. /\ files \subseteq File /\ doomed \subseteq File
      /\ \A d \in Dumps : d \in File /\ d = Dump(d[2]) /\ d \notin LogFiles
      /\ \A f \in LogFiles : f = Log(f[2])
      /\ \A n : Dump(n)[2] = n /\ Log(n)[2] = n /\ Log(n) # Dump(n)
      /\ \A n : Dump(n) \notin LogFiles
      /\ NoFile \notin LogFiles
  BY NameFacts DEF RetentionInv, TypeOK
\* A file that goes and is no log leaves no minidump alone.
<1>a. ASSUME NEW f, f \notin LogFiles, files' = files \ {f}, stranded \subseteq stranded',
             assoc' = assoc \/ (assoc = f /\ assoc' = NoFile)
      PROVE  OrphansExplained'
  <2>1. SUFFICES ASSUME NEW d \in Dumps', d # assoc', Log(d[2]) \notin files', d \notin stranded'
                 PROVE  FALSE
    BY DEF OrphansExplained
  <2>2. d \in Dumps /\ d # f
    BY <1>a, <2>1 DEF Dumps
  <2>3. Log(d[2]) \notin LogFiles \/ Log(d[2]) \notin files
    BY <1>a, <2>1
  <2>4. d[2] \in Names
    BY <1>0, <2>2 DEF File
  <2>5. Log(d[2]) \in LogFiles
    BY <2>4 DEF Log, LogFiles
  <2>6. d # assoc
    BY <1>a, <2>1, <2>2
  <2>7. QED
    BY <2>1, <2>2, <2>3, <2>5, <2>6, <1>a DEF OrphanInv, OrphansExplained
\* A log that goes is that of the minidump whose turn is next, or of one that is stranded.
<1>b. ASSUME NEW f \in LogFiles, files' = files \ {f}, stranded \subseteq stranded',
             \/ assoc' = Dump(f[2]) /\ assoc = NoFile
             \/ assoc' = assoc /\ Dump(f[2]) \in stranded'
      PROVE  OrphansExplained'
  <2>1. SUFFICES ASSUME NEW d \in Dumps', d # assoc', Log(d[2]) \notin files', d \notin stranded'
                 PROVE  FALSE
    BY DEF OrphansExplained
  <2>2. d \in Dumps /\ d = Dump(d[2])
    BY <1>0, <1>b, <2>1 DEF Dumps
  <2>3. d # Dump(f[2])
    BY <1>b, <2>1
  <2>4. Log(d[2]) # f
    BY <1>0, <2>2, <2>3
  <2>5. d # assoc
    BY <1>0, <1>b, <2>1, <2>2 DEF NoFile, Dumps
  <2>6. QED
    BY <1>b, <2>1, <2>2, <2>4, <2>5 DEF OrphanInv, OrphansExplained
\* Nothing goes.
<1>c. ASSUME files \subseteq files',
             \A d \in files' \ files : d \notin LogFiles => Log(d[2]) \in files',
             files' \subseteq File,
             \A d \in stranded \cap files : d \in stranded' \/ Log(d[2]) \in files',
             assoc' = assoc \/ assoc \in stranded' \/ assoc = NoFile
      PROVE  OrphansExplained'
  <2>1. SUFFICES ASSUME NEW d \in Dumps', d # assoc', Log(d[2]) \notin files', d \notin stranded'
                 PROVE  FALSE
    BY DEF OrphansExplained
  <2>2. d \in files' /\ d[1] = "dmp" /\ d \in File
    BY <1>c, <2>1 DEF Dumps
  <2>3. d \notin LogFiles /\ d # NoFile
    BY <2>2 DEF LogFiles, NoFile
  <2>4. d \in Dumps
    BY <1>c, <2>1, <2>2, <2>3 DEF Dumps
  <2>5. d # assoc
    BY <1>c, <2>1, <2>3
  <2>6. d \in stranded
    BY <1>c, <2>1, <2>4, <2>5 DEF OrphanInv, OrphansExplained
  <2>7. QED
    BY <1>c, <2>1, <2>4, <2>6 DEF Dumps
<1>d. ASSUME UNCHANGED <<files, stranded, assoc>> PROVE OrphansExplained'
  BY <1>c, <1>d, <1>0
<1>1. CASE StartLog
  <2>1. /\ files' = files \cup {Log(clock)} /\ clock \in Names
        /\ stranded' = (stranded \cap files) \ {Dump(clock)}
        /\ UNCHANGED <<doomed, assoc>> /\ pc' = "clean logs"
    BY <1>1 DEF StartLog, Create, RetentionInv, TypeOK
  <2>2. Log(clock) \in LogFiles /\ Log(clock) \in File
    BY <2>1 DEF Log, LogFiles, File
  <2>3. OrphansExplained'
    BY <1>0, <1>c, <2>1, <2>2
  <2>4. QED
    BY <2>1, <2>3 DEF OrphanInv
<1>2. CASE ListLogs
  <2>1. UNCHANGED <<files, stranded, assoc>> /\ pc = "clean logs"
    BY <1>2 DEF ListLogs, dirVars
  <2>2. pc' # "delete dumps"
    BY <1>2, <2>1 DEF ListLogs, List
  <2>3. QED
    BY <1>d, <2>1, <2>2 DEF OrphanInv
<1>3. CASE ListDumps
  <2>1. UNCHANGED <<files, stranded, assoc>> /\ pc = "clean dumps"
    BY <1>3 DEF ListDumps, dirVars
  <2>2. pc' = "delete dumps" => doomed' \subseteq Dumps
    BY <1>3 DEF ListDumps, List, Dumps
  <2>3. pc' = "delete dumps" => doomed' \cap LogFiles = {}
    BY <1>0, <2>2
  <2>4. QED
    BY <1>d, <2>1, <2>3 DEF OrphanInv
<1>4. CASE DeleteLog
  <2>1. pc = "delete logs" /\ assoc = NoFile /\ UNCHANGED stranded
    BY <1>4 DEF DeleteLog
  <2>2. ASSUME NEW f \in doomed, Throws(f, "clean dumps") PROVE OrphanInv'
    <3>1. pc' = "clean dumps" /\ assoc' = NoFile /\ UNCHANGED files
      BY <2>2 DEF Throws
    <3>2. QED
      BY <1>d, <2>1, <3>1 DEF OrphanInv
  <2>3. ASSUME NEW f \in doomed, Delete(f), assoc' = Dump(f[2]), UNCHANGED pc
        PROVE  OrphanInv'
    <3>1. f \in LogFiles
      BY <2>1 DEF RetentionInv, CrashOK
    <3>2. OrphansExplained'
      BY <1>b, <2>1, <2>3, <3>1 DEF Delete
    <3>3. QED
      BY <1>0, <2>1, <2>3, <3>2 DEF OrphanInv
  <2>4. QED
    BY <1>4, <2>2, <2>3 DEF DeleteLog
<1>5. CASE DeleteAssociated
  <2>1. pc = "delete logs" /\ assoc # NoFile
    BY <1>5 DEF DeleteAssociated
  <2>2. CASE Throws(assoc, "clean dumps") /\ stranded' = stranded \cup {assoc}
    <3>1. pc' = "clean dumps" /\ assoc' = NoFile /\ UNCHANGED files
      BY <2>2 DEF Throws
    <3>2. OrphansExplained'
      BY <1>0, <1>c, <2>2, <3>1
    <3>3. QED
      BY <1>0, <3>1, <3>2 DEF OrphanInv
  <2>3. CASE Delete(assoc) /\ assoc' = NoFile /\ UNCHANGED <<stranded, pc>>
    <3>1. OrphansExplained'
      BY <1>a, <2>3 DEF OrphanInv, Delete
    <3>2. QED
      BY <1>0, <2>1, <2>3, <3>1 DEF OrphanInv
  <2>4. QED
    BY <1>5, <2>2, <2>3 DEF DeleteAssociated
<1>6. CASE DeleteDump
  <2>1. pc = "delete dumps" /\ UNCHANGED stranded
    BY <1>6 DEF DeleteDump
  <2>2. ASSUME NEW f \in doomed, Throws(f, "dump") PROVE OrphanInv'
    <3>1. pc' = "dump" /\ assoc' = NoFile /\ assoc = NoFile /\ UNCHANGED files
      BY <2>1, <2>2 DEF Throws, RetentionInv, CrashOK
    <3>2. QED
      BY <1>d, <2>1, <3>1 DEF OrphanInv
  <2>3. ASSUME NEW f \in doomed, Delete(f), doomed' = doomed \ {f}, UNCHANGED <<assoc, pc>>
        PROVE  OrphanInv'
    <3>1. f \notin LogFiles
      BY <2>1 DEF OrphanInv
    <3>2. OrphansExplained'
      BY <1>a, <2>1, <2>3, <3>1 DEF Delete
    <3>3. QED
      BY <2>1, <2>3, <3>2 DEF OrphanInv
  <2>4. QED
    BY <1>6, <2>2, <2>3 DEF DeleteDump
<1>7. CASE Deleted
  <2>1. UNCHANGED <<files, stranded, assoc, doomed>> /\ pc' # "delete dumps"
    BY <1>7 DEF Deleted, dirVars, cleanVars
  <2>2. QED
    BY <1>d, <2>1 DEF OrphanInv
<1>8. CASE WriteDump
  <2>1. pc = "dump" /\ pc' = "report" /\ UNCHANGED <<current, assoc, stranded>>
    BY <1>8 DEF WriteDump, cleanVars
  <2>2. current \in files \cap LogFiles /\ current = Log(current[2]) /\ current[2] \in Names
    BY <1>0, <2>1 DEF RetentionInv, CrashOK, File
  <2>3. files' = files \/ files' = files \cup {Dump(current[2])}
    BY <1>8 DEF WriteDump, Create
  <2>4. Dump(current[2]) \in File /\ Log(Dump(current[2])[2]) = current
    BY <1>0, <2>2 DEF Dump, File
  <2>5. OrphansExplained'
    BY <1>0, <1>c, <2>1, <2>2, <2>3, <2>4
  <2>6. QED
    BY <2>1, <2>5 DEF OrphanInv
<1>9. CASE EndProcess
  <2>1. /\ pc' = "idle" /\ assoc' = NoFile /\ UNCHANGED files /\ stranded \subseteq stranded'
        /\ assoc = NoFile \/ assoc \in stranded'
    BY <1>9 DEF EndProcess
  <2>2. OrphansExplained'
    BY <1>0, <1>c, <2>1
  <2>3. QED
    BY <1>0, <2>1, <2>2 DEF OrphanInv
<1>10. CASE Touch
  <2>1. UNCHANGED <<files, stranded, assoc, doomed, pc>>
    BY <1>10 DEF Touch, cleanVars
  <2>2. QED
    BY <1>d, <2>1 DEF OrphanInv
<1>11. ASSUME NEW f \in File, UserOpens(f) \/ UserCloses(f) \/ UserEdits(f) PROVE OrphanInv'
  <2>1. UNCHANGED <<files, stranded, assoc, doomed, pc>>
    BY <1>11 DEF UserOpens, UserCloses, UserEdits, cleanVars
  <2>2. QED
    BY <1>d, <2>1 DEF OrphanInv
<1>12. ASSUME NEW f \in File, UserDeletes(f) PROVE OrphanInv'
  <2>1. /\ UNCHANGED <<assoc, doomed, pc>> /\ files' = files \ {f} /\ stranded \subseteq stranded'
        /\ f[1] = "log" => Dump(f[2]) \in stranded'
    BY <1>12 DEF UserDeletes
  <2>2. f[1] = "log" <=> f \in LogFiles
    BY DEF File, LogFiles
  <2>3. OrphansExplained'
    <3>1. CASE f \in LogFiles
      BY <1>b, <2>1, <2>2, <3>1
    <3>2. CASE f \notin LogFiles
      BY <1>a, <2>1, <3>2
    <3>3. QED
      BY <3>1, <3>2
  <2>4. QED
    BY <2>1, <2>3 DEF OrphanInv
<1>13. CASE Tick \/ UNCHANGED vars
  <2>1. UNCHANGED <<files, stranded, assoc, doomed, pc>>
    BY <1>13 DEF Tick, vars, dirVars, cleanVars
  <2>2. QED
    BY <1>d, <2>1 DEF OrphanInv
<1>14. QED
  BY <1>1, <1>2, <1>3, <1>4, <1>5, <1>6, <1>7, <1>8, <1>9, <1>10, <1>11, <1>12, <1>13 DEF Next

\* Over any number of crashes, a minidump without its log is one whose log the user took,
\* or one that a clean-up (clean_old_files) had come to and could not delete or was ended
\* before.
THEOREM DumpsGoWithLogs == Spec => []OrphansExplained
<1>1. OrphanInv => OrphansExplained
  BY DEF OrphanInv
<1>2. QED
  BY <1>1, RetentionInit, RetentionStep, OrphanInit, OrphanStep, PTL DEF Spec

-----------------------------------------------------------------------------
(* The limits                                                               *)

AtMost(S, n) == Cardinality(S) <= n
AtLeast(S, n) == Cardinality(S) >= n
AfterLogs == {"clean dumps", "delete dumps", "dump", "report"}

\* While a call deletes, what it has listed to keep is what it may keep; the user
\* may take some of it, but a call never takes more than it listed.
LimitsInv ==
  /\ pc = "delete logs" =>
       /\ MaxLogs > 0 /\ (~failed => AtMost(Logs \ doomed, MaxLogs))
       /\ ~meddled => AtLeast(Logs \ doomed, MaxLogs)
       /\ assoc \notin LogFiles
  /\ pc \in AfterLogs /\ gone # {} /\ ~meddled => AtLeast(Logs, MaxLogs)
  /\ pc \in AfterLogs /\ ~failed /\ MaxLogs > 0 => AtMost(Logs, MaxLogs)
  /\ pc = "delete dumps" =>
       /\ MaxDumps > 0 /\ (~failed => AtMost(Dumps \ doomed, MaxDumps))
       /\ doomed \cap LogFiles = {}
  /\ pc = "dump" /\ ~failed /\ MaxDumps > 0 => AtMost(Dumps, MaxDumps)
  /\ pc = "report" /\ ~failed /\ MaxDumps > 0 => AtMost(Dumps, MaxDumps + 1)

\* The directory has finitely many files, and a part of it no more of them.
LEMMA FilesFinite == \A S \in SUBSET File : IsFiniteSet(S)
<1>1. IsFiniteSet({"log", "dmp"})
  <2>1. {"log", "dmp"} = {"log"} \cup {"dmp"}
    OBVIOUS
  <2>2. QED
    <3>1. IsFiniteSet({"log"})
      BY FS_Singleton
    <3>2. IsFiniteSet({"log"} \cup {"dmp"})
      BY <3>1, FS_AddElement
    <3>3. QED
      BY <2>1, <3>2
<1>2. IsFiniteSet(Names)
  BY RetentionAssumption, FS_Interval DEF Names
<1>3. QED
  BY <1>1, <1>2, FS_Product, FS_Subset DEF File

LEMMA Counted ==
  ASSUME NEW S \in SUBSET File, NEW T \in SUBSET S
  PROVE  /\ Cardinality(S) \in Nat /\ Cardinality(T) \in Nat
         /\ Cardinality(T) <= Cardinality(S)
BY FilesFinite, FS_Subset, FS_CardinalityType

LEMMA Bounds ==
  ASSUME NEW S \in SUBSET File, NEW T \in SUBSET S, NEW n \in Int
  PROVE  /\ AtMost(S, n) => AtMost(T, n)
         /\ AtLeast(T, n) => AtLeast(S, n)
BY Counted DEF AtMost, AtLeast

\* Nothing is created, and neither the crash nor the user changes the phase.
LEMMA LimitsKept ==
  ASSUME RetentionInv, LimitsInv, UNCHANGED <<pc, doomed, assoc, failed, gone>>,
         \/ UNCHANGED <<files, meddled>>
         \/ files' \subseteq files /\ meddled' = TRUE
  PROVE  LimitsInv'
<1>1. files \subseteq File
  BY DEF RetentionInv, TypeOK
<1>2. CASE UNCHANGED <<files, meddled>>
  BY <1>2 DEF LimitsInv, Logs, Dumps
<1>3. CASE files' \subseteq files /\ meddled' = TRUE
  <2>1. /\ Logs \subseteq File /\ Dumps \subseteq File
        /\ Logs' \subseteq Logs /\ Dumps' \subseteq Dumps
        /\ Logs' \ doomed \subseteq Logs \ doomed /\ Dumps' \ doomed \subseteq Dumps \ doomed
    BY <1>1, <1>3 DEF Logs, Dumps
  <2>2. /\ AtMost(Logs, MaxLogs) => AtMost(Logs', MaxLogs)
        /\ AtMost(Logs \ doomed, MaxLogs) => AtMost(Logs' \ doomed, MaxLogs)
    BY <2>1, Bounds, RetentionAssumption
  <2>3. /\ AtMost(Dumps, MaxDumps) => AtMost(Dumps', MaxDumps)
        /\ AtMost(Dumps \ doomed, MaxDumps) => AtMost(Dumps' \ doomed, MaxDumps)
        /\ AtMost(Dumps, MaxDumps + 1) => AtMost(Dumps', MaxDumps + 1)
    BY <2>1, Bounds, RetentionAssumption
  <2>4. QED
    BY <1>3, <2>2, <2>3, Zenon DEF LimitsInv
<1>4. QED
  BY <1>2, <1>3

LEMMA LimitsInit == Init => LimitsInv
BY DEF Init, LimitsInv, AfterLogs

LEMMA LimitsStep == RetentionInv /\ LimitsInv /\ [Next]_vars => LimitsInv'
<1> SUFFICES ASSUME RetentionInv, LimitsInv, [Next]_vars PROVE LimitsInv'
  OBVIOUS
<1> USE RetentionAssumption
<1>0. /\ files \subseteq File /\ Logs \subseteq File /\ Dumps \subseteq File /\ doomed \subseteq File
      /\ Cardinality(Logs) \in Nat /\ Cardinality(Dumps) \in Nat
      /\ Cardinality(Logs \ doomed) \in Nat /\ Cardinality(Dumps \ doomed) \in Nat
  <2>1. files \subseteq File /\ Logs \subseteq File /\ Dumps \subseteq File /\ doomed \subseteq File
    BY DEF RetentionInv, TypeOK, Logs, Dumps
  <2>2. QED
    BY <2>1, Counted
<1>00. \A f \in files : /\ f \in LogFiles <=> f \in Logs
                        /\ f \notin LogFiles <=> f \in Dumps
  BY <1>0 DEF File, LogFiles, Logs, Dumps
<1>1. CASE StartLog
  <2>1. pc' = "clean logs"
    BY <1>1 DEF StartLog
  <2>2. QED
    BY <2>1 DEF LimitsInv, AfterLogs
<1>2. CASE ListLogs
  <2>1. /\ pc = "clean logs" /\ gone = {} /\ assoc = NoFile
        /\ UNCHANGED <<files, assoc, gone, meddled>>
    BY <1>2 DEF ListLogs, RetentionInv, CrashOK, dirVars
  <2>2. List("log", MaxLogs, "delete logs", "clean dumps")
    BY <1>2 DEF ListLogs
  <2>3. CASE MaxLogs <= 0
    <3>1. ~(MaxLogs > 0)
      BY <2>3, RetentionAssumption
    <3>2. pc' = "clean dumps"
      BY <2>2, <3>1, Zenon DEF List
    <3>3. QED
      BY <2>1, <3>1, <3>2 DEF LimitsInv, AfterLogs
  <2>4. CASE ~(MaxLogs <= 0)
    <3>1. PICK read \in SUBSET Logs :
            /\ failed' = (failed \/ read # Logs)
            /\ \/ Cardinality(read) <= MaxLogs /\ pc' = "clean dumps" /\ UNCHANGED doomed
               \/ /\ \E kept \in SUBSET read : Keeps(read, MaxLogs, kept) /\ doomed' = read \ kept
                  /\ pc' = "delete logs"
      BY <2>2, <2>4, Zenon DEF List, Logs
    <3>2. Logs' = Logs /\ MaxLogs > 0 /\ (~failed' => read = Logs)
      <4>1. ~failed' => read = Logs
        BY <3>1, Zenon
      <4>2. Logs' = Logs
        BY <2>1 DEF Logs
      <4>3. MaxLogs > 0
        BY <2>4, RetentionAssumption
      <4>4. QED
        BY <4>1, <4>2, <4>3
    <3>3. CASE Cardinality(read) <= MaxLogs /\ pc' = "clean dumps"
      <4>1. ~failed' => AtMost(Logs', MaxLogs)
        BY <3>2, <3>3 DEF AtMost
      <4>2. QED
        BY <2>1, <3>3, <4>1 DEF LimitsInv, AfterLogs
    <3>4. ASSUME NEW kept \in SUBSET read, Keeps(read, MaxLogs, kept), doomed' = read \ kept,
                 pc' = "delete logs"
          PROVE  LimitsInv'
      <4>1. kept \subseteq Logs' \ doomed' /\ (~failed' => Logs' \ doomed' = kept)
        BY <3>1, <3>2, <3>4
      <4>2. Cardinality(kept) = MaxLogs
        BY <3>4 DEF Keeps
      <4>3. AtLeast(kept, MaxLogs) /\ AtMost(kept, MaxLogs)
        BY <4>2 DEF AtLeast, AtMost
      <4>4. AtLeast(Logs' \ doomed', MaxLogs)
        <5>1. Logs' \ doomed' \subseteq File
          BY <1>0, <3>2
        <5>2. QED
          BY <5>1, <4>1, <4>3, Bounds
      <4>5. ~failed' => AtMost(Logs' \ doomed', MaxLogs)
        BY <4>1, <4>3
      <4>6. assoc' \notin LogFiles
        BY <2>1 DEF NoFile, LogFiles
      <4>7. QED
        BY <3>2, <3>4, <4>4, <4>5, <4>6 DEF LimitsInv, AfterLogs
    <3>5. QED
      BY <3>1, <3>3, <3>4
  <2>5. QED
    BY <2>3, <2>4
<1>3. CASE ListDumps
  <2>1. pc = "clean dumps" /\ UNCHANGED <<files, assoc, gone, meddled>>
    BY <1>3 DEF ListDumps, dirVars
  <2>2. List("dmp", MaxDumps, "delete dumps", "dump")
    BY <1>3 DEF ListDumps
  <2>3. Logs' = Logs /\ Dumps' = Dumps
    BY <2>1 DEF Logs, Dumps
  <2>4. CASE MaxDumps <= 0
    <3>1. ~(MaxDumps > 0)
      BY <2>4, RetentionAssumption
    <3>2. pc' = "dump" /\ UNCHANGED failed
      BY <2>2, <3>1, Zenon DEF List
    <3>3. QED
      BY <2>1, <2>3, <3>1, <3>2 DEF LimitsInv, AfterLogs
  <2>5. CASE ~(MaxDumps <= 0)
    <3>1. PICK read \in SUBSET Dumps :
            /\ failed' = (failed \/ read # Dumps)
            /\ \/ Cardinality(read) <= MaxDumps /\ pc' = "dump" /\ UNCHANGED doomed
               \/ /\ \E kept \in SUBSET read : Keeps(read, MaxDumps, kept) /\ doomed' = read \ kept
                  /\ pc' = "delete dumps"
      BY <2>2, <2>5, Zenon DEF List, Dumps
    <3>2. MaxDumps > 0 /\ (~failed' => read = Dumps /\ ~failed)
      <4>1. ~failed' => read = Dumps /\ ~failed
        BY <3>1, Zenon
      <4>2. QED
        BY <2>5, <4>1, RetentionAssumption
    <3>3. CASE Cardinality(read) <= MaxDumps /\ pc' = "dump"
      <4>1. ~failed' => AtMost(Dumps', MaxDumps)
        BY <2>3, <3>2, <3>3 DEF AtMost
      <4>2. QED
        BY <2>1, <2>3, <3>2, <3>3, <4>1 DEF LimitsInv, AfterLogs
    <3>4. ASSUME NEW kept \in SUBSET read, Keeps(read, MaxDumps, kept), doomed' = read \ kept,
                 pc' = "delete dumps"
          PROVE  LimitsInv'
      <4>1. ~failed' => Dumps' \ doomed' = kept
        BY <2>3, <3>1, <3>2, <3>4
      <4>2. ~failed' => AtMost(Dumps' \ doomed', MaxDumps)
        <5>1. Cardinality(kept) = MaxDumps
          BY <3>4 DEF Keeps
        <5>2. AtMost(kept, MaxDumps)
          BY <5>1, RetentionAssumption DEF AtMost
        <5>3. QED
          BY <4>1, <5>2
      <4>3. doomed' \cap LogFiles = {}
        BY <3>1, <3>4 DEF Dumps, LogFiles
      <4>4. QED
        BY <2>1, <2>3, <3>2, <3>4, <4>2, <4>3 DEF LimitsInv, AfterLogs
    <3>5. QED
      BY <3>1, <3>3, <3>4
  <2>6. QED
    BY <2>4, <2>5
<1>4. CASE DeleteLog
  <2>1. pc = "delete logs" /\ UNCHANGED meddled
    BY <1>4 DEF DeleteLog
  <2>2. ASSUME NEW f \in doomed, Throws(f, "clean dumps") PROVE LimitsInv'
    <3>1. failed' = TRUE /\ pc' = "clean dumps" /\ UNCHANGED <<files, gone>>
      BY <2>2 DEF Throws
    <3>2. Logs \ doomed \subseteq Logs /\ Logs' = Logs
      BY <3>1 DEF Logs
    <3>3. AtLeast(Logs \ doomed, MaxLogs) => AtLeast(Logs, MaxLogs)
      BY <1>0, <3>2, Bounds
    <3>4. ~meddled => AtLeast(Logs', MaxLogs)
      BY <1>0, <2>1, <3>2, <3>3 DEF LimitsInv
    <3>5. QED
      BY <2>1, <3>1, <3>4 DEF LimitsInv, AfterLogs
  <2>3. ASSUME NEW f \in doomed, Delete(f), doomed' = doomed \ {f}, assoc' = Dump(f[2]), UNCHANGED <<failed, pc>>
        PROVE  LimitsInv'
    <3>1. Logs' \ doomed' = Logs \ doomed
      BY <2>3 DEF Delete, Logs
    <3>2. assoc' \notin LogFiles
      BY <2>3 DEF Dump, LogFiles
    <3>3. QED
      BY <2>1, <2>3, <3>1, <3>2 DEF LimitsInv, AfterLogs
  <2>4. QED
    BY <1>4, <2>2, <2>3 DEF DeleteLog
<1>5. CASE DeleteAssociated
  <2>1. pc = "delete logs" /\ UNCHANGED meddled
    BY <1>5 DEF DeleteAssociated
  <2>2. CASE Throws(assoc, "clean dumps")
    <3>1. failed' = TRUE /\ pc' = "clean dumps" /\ UNCHANGED <<files, gone>>
      BY <2>2 DEF Throws
    <3>2. Logs \ doomed \subseteq Logs /\ Logs' = Logs
      BY <3>1 DEF Logs
    <3>3. AtLeast(Logs \ doomed, MaxLogs) => AtLeast(Logs, MaxLogs)
      BY <1>0, <3>2, Bounds
    <3>4. ~meddled => AtLeast(Logs', MaxLogs)
      BY <1>0, <2>1, <3>2, <3>3 DEF LimitsInv
    <3>5. QED
      BY <2>1, <3>1, <3>4 DEF LimitsInv, AfterLogs
  <2>3. CASE Delete(assoc) /\ assoc' = NoFile /\ UNCHANGED <<doomed, failed, gone, pc>>
    <3>1. assoc \notin LogFiles
      BY <2>1 DEF LimitsInv
    <3>2. Logs' = Logs
      BY <1>00, <2>3, <3>1 DEF Delete, Logs
    <3>3. assoc' \notin LogFiles
      BY <2>3 DEF NoFile, LogFiles
    <3>4. QED
      BY <2>1, <2>3, <3>2, <3>3 DEF LimitsInv, AfterLogs
  <2>4. QED
    BY <1>5, <2>2, <2>3 DEF DeleteAssociated
<1>6. CASE DeleteDump
  <2>1. pc = "delete dumps" /\ UNCHANGED meddled
    BY <1>6 DEF DeleteDump
  <2>2. ASSUME NEW f \in doomed, Throws(f, "dump") PROVE LimitsInv'
    <3>1. failed' = TRUE /\ pc' = "dump" /\ UNCHANGED <<files, gone>>
      BY <2>2 DEF Throws
    <3>2. Logs' = Logs
      BY <3>1 DEF Logs
    <3>3. QED
      BY <2>1, <3>1, <3>2 DEF LimitsInv, AfterLogs
  <2>3. ASSUME NEW f \in doomed, Delete(f), doomed' = doomed \ {f}, UNCHANGED <<assoc, failed, gone, pc>>
        PROVE  LimitsInv'
    <3>1. f \notin LogFiles
      BY <2>1 DEF LimitsInv
    <3>2. Logs' = Logs
      BY <1>00, <2>3, <3>1 DEF Delete, Logs
    <3>3. Dumps' \ doomed' = Dumps \ doomed
      BY <2>3 DEF Delete, Dumps
    <3>4. doomed' \cap LogFiles = {}
      BY <2>1, <2>3 DEF LimitsInv
    <3>5. QED
      BY <2>1, <2>3, <3>2, <3>3, <3>4 DEF LimitsInv, AfterLogs
  <2>4. QED
    BY <1>6, <2>2, <2>3 DEF DeleteDump
<1>7. CASE Deleted
  <2>1. /\ doomed = {} /\ assoc = NoFile
        /\ UNCHANGED <<files, doomed, assoc, failed, gone, meddled>>
    BY <1>7 DEF Deleted, dirVars, cleanVars
  <2>2. /\ Logs' = Logs /\ Dumps' = Dumps /\ Logs \ doomed = Logs /\ Dumps \ doomed = Dumps
    BY <2>1 DEF Logs, Dumps
  <2>3. CASE pc = "delete logs" /\ pc' = "clean dumps"
    BY <1>0, <2>1, <2>2, <2>3 DEF LimitsInv, AfterLogs
  <2>4. CASE pc = "delete dumps" /\ pc' = "dump"
    BY <1>0, <2>1, <2>2, <2>4 DEF LimitsInv, AfterLogs
  <2>5. QED
    BY <1>7, <2>3, <2>4 DEF Deleted
<1>8. CASE WriteDump
  <2>1. pc = "dump" /\ pc' = "report" /\ UNCHANGED <<current, failed, gone, meddled>>
    BY <1>8 DEF WriteDump, cleanVars
  <2>2. PICK d : d = Dump(current[2])
    OBVIOUS
  <2>3. d \in File /\ d \notin LogFiles /\ d[1] = "dmp"
    BY <2>1, <2>2, FileFacts DEF RetentionInv, CrashOK, Dump
  <2>4. files' = files \/ files' = files \cup {d}
    BY <1>8, <2>2 DEF WriteDump, Create
  <2>5. Logs' = Logs
    BY <2>3, <2>4 DEF Logs
  <2>6. Dumps' = Dumps \/ Dumps' = Dumps \cup {d}
    BY <2>3, <2>4 DEF Dumps
  <2>7. Cardinality(Dumps') \in Nat /\ Cardinality(Dumps') <= Cardinality(Dumps) + 1
    <3>1. IsFiniteSet(Dumps)
      BY <1>0, FilesFinite
    <3>2. CASE d \in Dumps
      BY <1>0, <2>6, <3>2
    <3>3. CASE d \notin Dumps
      BY <1>0, <2>6, <3>1, <3>3, FS_AddElement
    <3>4. QED
      BY <3>2, <3>3
  <2>8. AtMost(Dumps, MaxDumps) => AtMost(Dumps', MaxDumps + 1)
    BY <1>0, <2>7 DEF AtMost
  <2>9. QED
    BY <2>1, <2>5, <2>8 DEF LimitsInv, AfterLogs
<1>9. CASE EndProcess
  <2>1. pc' = "idle"
    BY <1>9 DEF EndProcess
  <2>2. QED
    BY <2>1 DEF LimitsInv, AfterLogs
<1>10. CASE Touch
  <2>1. UNCHANGED <<pc, doomed, assoc, failed, gone, files, meddled>>
    BY <1>10 DEF Touch, cleanVars
  <2>2. QED
    BY <2>1, LimitsKept
<1>11. ASSUME NEW f \in File, UserOpens(f) \/ UserCloses(f) \/ UserEdits(f) PROVE LimitsInv'
  <2>1. UNCHANGED <<pc, doomed, assoc, failed, gone, files, meddled>>
    BY <1>11 DEF UserOpens, UserCloses, UserEdits, cleanVars
  <2>2. QED
    BY <2>1, LimitsKept
<1>12. ASSUME NEW f \in File, UserDeletes(f) PROVE LimitsInv'
  <2>1. UNCHANGED <<pc, doomed, assoc, failed, gone>> /\ files' \subseteq files /\ meddled' = TRUE
    BY <1>12 DEF UserDeletes, cleanVars
  <2>2. QED
    BY <2>1, LimitsKept
<1>13. CASE Tick \/ UNCHANGED vars
  <2>1. UNCHANGED <<pc, doomed, assoc, failed, gone, files, meddled>>
    BY <1>13 DEF Tick, vars, dirVars, cleanVars
  <2>2. QED
    BY <2>1, LimitsKept
<1>14. QED
  BY <1>1, <1>2, <1>3, <1>4, <1>5, <1>6, <1>7, <1>8, <1>9, <1>10, <1>11, <1>12, <1>13 DEF Next

LEMMA LimitsInvHolds == Spec => [](RetentionInv /\ LimitsInv)
BY RetentionInit, RetentionStep, LimitsInit, LimitsStep, PTL DEF Spec

\* The logs that cleaning deletes are only those beyond the limit, whichever calls
\* are cut short by an open file or the end of the process (clean_old_files).
THEOREM CleaningStopsAtLimit == Spec => []CleaningKeepsLimit
<1>1. RetentionInv /\ LimitsInv => CleaningKeepsLimit
  <2> SUFFICES ASSUME RetentionInv, LimitsInv, gone # {}, pc # "idle", ~meddled
               PROVE  Cardinality(Logs) >= MaxLogs
    BY DEF CleaningKeepsLimit
  <2>1. Logs \subseteq File
    BY DEF RetentionInv, TypeOK, Logs
  <2>2. pc \in AfterLogs \cup {"delete logs"}
    BY DEF RetentionInv, TypeOK, CrashOK, AfterLogs
  <2>3. AtLeast(Logs \ doomed, MaxLogs) => AtLeast(Logs, MaxLogs)
    BY <2>1, Bounds, RetentionAssumption
  <2>4. AtLeast(Logs, MaxLogs)
    BY <2>2, <2>3 DEF LimitsInv
  <2>5. QED
    BY <2>4 DEF AtLeast
<1>2. QED
  BY <1>1, LimitsInvHolds, PTL

\* After a cleaning that no open file has cut short there are no more logs than
\* the setting allows, and one minidump more at most (clean_old_files, write_minidump).
THEOREM LimitsAreKept == Spec => []LimitsHold
<1>1. RetentionInv /\ LimitsInv => LimitsHold
  BY DEF LimitsInv, AfterLogs, AtMost, LimitsHold, LogsBounded, DumpsBoundedByOneMore
<1>2. QED
  BY <1>1, LimitsInvHolds, PTL
=============================================================================
