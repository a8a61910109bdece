---------------------------- MODULE LogRetention ----------------------------
(***************************************************************************)
(* The directory of crash logs and minidumps over many crashes: what a     *)
(* crash creates there, and what clean_old_files deletes                   *)
(* (src/Crash/CommonHeader.cpp, called from UnhandledExceptions and        *)
(* WriteAllThreadsDump).                                                   *)
(*                                                                         *)
(* A file is a log or a minidump of a name, and the name is the second of  *)
(* the crash.  Each call of clean_old_files lists its files once, picks    *)
(* the newest to keep and deletes the others one by one; the first delete  *)
(* that throws ends the call.  A file open without delete sharing cannot   *)
(* be deleted: the log of this process, or a file the user has open.       *)
(***************************************************************************)
EXTENDS Integers, FiniteSets

CONSTANTS
  MaxLogs,      \* debug.maxCrashLogs
  MaxDumps,     \* debug.maxMinidumps
  Write,        \* debug.crashLogWriteMinidump
  MaxClock,     \* bound: the last second
  MaxUser       \* bound: what the user does in the directory

ASSUME RetentionAssumption ==
  /\ MaxLogs \in Int
  /\ MaxDumps \in Int
  /\ Write \in BOOLEAN
  /\ MaxClock \in Nat
  /\ MaxUser \in Nat

Names == 0 .. MaxClock
File == {"log", "dmp"} \X Names
NoFile == <<"none", 0>>
Log(n) == <<"log", n>>
Dump(n) == <<"dmp", n>>

VARIABLES
  clock,      \* the second
  files,      \* what is in the directory
  mtime,      \* file |-> last_write_time
  busy,       \* files open without delete sharing
  pc,         \* where the crash is
  current,    \* the log of this crash
  doomed,     \* files the call under way has still to delete
  assoc,      \* the minidump that goes with the log just deleted
  failed,     \* history: a delete of this crash threw, or it could not list a file
  meddled,    \* history: the user deleted a file during this crash
  gone,       \* history: logs that this crash deleted
  stranded,   \* history: minidumps whose log was taken without them
  user        \* the user's actions so far

dirVars == <<files, mtime, busy>>
cleanVars == <<doomed, assoc, failed, gone, stranded>>
vars == <<clock, dirVars, pc, current, cleanVars, meddled, user>>

Init ==
  /\ clock = 0
  /\ files = {}
  /\ mtime = [f \in File |-> 0]
  /\ busy = {}
  /\ pc = "idle"
  /\ current = NoFile
  /\ doomed = {}
  /\ assoc = NoFile
  /\ failed = FALSE
  /\ meddled = FALSE
  /\ gone = {}
  /\ stranded = {}
  /\ user = 0

-----------------------------------------------------------------------------
(* A crash                                                                  *)

\* The file is new, or one of that name is truncated.
Create(f) ==
  /\ files' = files \cup {f}
  /\ mtime' = [mtime EXCEPT ![f] = clock]

\* get_timestamped_log; the log stays open until the process ends.
StartLog ==
  /\ pc = "idle"
  /\ Create(Log(clock))
  /\ busy' = busy \cup {Log(clock)}
  /\ current' = Log(clock)
  /\ meddled' = FALSE
  /\ stranded' = (stranded \cap files) \ {Dump(clock)}
  /\ pc' = "clean logs"
  /\ UNCHANGED <<clock, doomed, assoc, failed, gone, user>>

\* Defect: one file fewer is kept.
Keeps_OneShort(matching, max, kept) ==
  /\ kept \subseteq matching
  /\ Cardinality(kept) = max - 1
  /\ \A f \in kept, g \in matching \ kept : mtime[f] >= mtime[g]

\* The files at the first max places when matching is sorted newest first;
\* the order among files of the same time is the sort's to choose.
Keeps(matching, max, kept) ==
  /\ kept \subseteq matching
  /\ Cardinality(kept) = max
  /\ \A f \in kept, g \in matching \ kept : mtime[f] >= mtime[g]

\* Defect: off by one in the test that there is nothing to delete.
List_OneLate(kind, max, to, next) ==
  LET matching == {f \in files : f[1] = kind} IN
  \/ /\ max <= 0
     /\ pc' = next
     /\ UNCHANGED <<doomed, failed>>
  \/ /\ max > 0
     /\ \E read \in SUBSET matching :
          /\ failed' = (failed \/ read # matching)
          /\ \/ Cardinality(read) <= max + 1 /\ pc' = next /\ UNCHANGED doomed
             \/ /\ Cardinality(read) > max + 1
                /\ \E kept \in SUBSET read :
                     Keeps(read, max, kept) /\ doomed' = read \ kept
                /\ pc' = to

\* The first part of clean_old_files.  A file whose time cannot be read is passed
\* over, and if the directory cannot be read there is no file at all.
List(kind, max, to, next) ==
  LET matching == {f \in files : f[1] = kind} IN
  \/ /\ max <= 0
     /\ pc' = next
     /\ UNCHANGED <<doomed, failed>>
  \/ /\ max > 0
     /\ \E read \in SUBSET matching :
          /\ failed' = (failed \/ read # matching)
          /\ \/ Cardinality(read) <= max /\ pc' = next /\ UNCHANGED doomed
             \/ /\ Cardinality(read) > max
                /\ \E kept \in SUBSET read :
                     Keeps(read, max, kept) /\ doomed' = read \ kept
                /\ pc' = to

ListLogs ==
  /\ pc = "clean logs"
  /\ List("log", MaxLogs, "delete logs", "clean dumps")
  /\ UNCHANGED <<clock, dirVars, current, assoc, gone, stranded, meddled, user>>

ListDumps ==
  /\ pc = "clean dumps"
  /\ List("dmp", MaxDumps, "delete dumps", "dump")
  /\ UNCHANGED <<clock, dirVars, current, assoc, gone, stranded, meddled, user>>

\* The next in the order of the sort.
Turn(f) == f \in doomed /\ \A g \in doomed : mtime[f] >= mtime[g]

\* Defect: files are opened so that they can be deleted while they are open.
Deletable_Always(f) == TRUE

Deletable(f) == f \notin busy

\* std::filesystem::remove: no error when the file has gone meanwhile.  (The time of
\* a file that was deleted means nothing any more.)
Delete(f) ==
  /\ f \in files => Deletable(f)
  /\ files' = files \ {f}
  /\ mtime' = [mtime EXCEPT ![f] = 0]

\* A delete throws, and ends the call.
Throws(f, next) ==
  /\ f \in files
  /\ ~Deletable(f)
  /\ doomed' = {}
  /\ assoc' = NoFile
  /\ failed' = TRUE
  /\ pc' = next
  /\ UNCHANGED <<files, mtime, gone>>

\* Defect: the minidump of the log is left where it is.
DeleteLog_Alone ==
  /\ pc = "delete logs"
  /\ \E f \in doomed :
       /\ Turn(f)
       /\ \/ Delete(f) /\ doomed' = doomed \ {f} /\ gone' = gone \cup {f}
             /\ UNCHANGED <<assoc, failed, pc>>
          \/ Throws(f, "clean dumps")
  /\ UNCHANGED <<clock, busy, current, stranded, meddled, user>>

DeleteLog ==
  /\ pc = "delete logs"
  /\ assoc = NoFile
  /\ \E f \in doomed :
       /\ Turn(f)
       /\ \/ /\ Delete(f)
             /\ doomed' = doomed \ {f}
             /\ assoc' = Dump(f[2])
             /\ gone' = gone \cup {f}
             /\ UNCHANGED <<failed, pc>>
          \/ Throws(f, "clean dumps")
  /\ UNCHANGED <<clock, busy, current, stranded, meddled, user>>

\* The minidump of a deleted log goes with it.
DeleteAssociated ==
  /\ pc = "delete logs"
  /\ assoc # NoFile
  /\ \/ /\ Delete(assoc)
        /\ assoc' = NoFile
        /\ UNCHANGED <<doomed, failed, gone, stranded, pc>>
     \/ Throws(assoc, "clean dumps") /\ stranded' = stranded \cup {assoc}
  /\ UNCHANGED <<clock, busy, current, meddled, user>>

DeleteDump ==
  /\ pc = "delete dumps"
  /\ \E f \in doomed :
       /\ Turn(f)
       /\ \/ /\ Delete(f)
             /\ doomed' = doomed \ {f}
             /\ UNCHANGED <<assoc, failed, gone, pc>>
          \/ Throws(f, "dump")
  /\ UNCHANGED <<clock, busy, current, stranded, meddled, user>>

Deleted ==
  /\ pc \in {"delete logs", "delete dumps"}
  /\ doomed = {}
  /\ assoc = NoFile
  /\ pc' = IF pc = "delete logs" THEN "clean dumps" ELSE "dump"
  /\ UNCHANGED <<clock, dirVars, current, cleanVars, meddled, user>>

\* write_minidump, which may fail.
WriteDump ==
  /\ pc = "dump"
  /\ \/ Write /\ Create(Dump(current[2]))
     \/ UNCHANGED <<files, mtime>>
  /\ pc' = "report"
  /\ UNCHANGED <<clock, busy, current, cleanVars, meddled, user>>

\* The report is written and the process ends, or it is ended at any other
\* point of the crash; its files are closed.
EndProcess ==
  /\ pc # "idle"
  /\ pc' = "idle"
  /\ busy' = busy \ {current}
  /\ doomed' = {}
  /\ assoc' = NoFile
  /\ current' = NoFile
  /\ failed' = FALSE
  /\ gone' = {}
  /\ stranded' = IF assoc = NoFile THEN stranded ELSE stranded \cup {assoc}
  /\ UNCHANGED <<clock, files, mtime, meddled, user>>

\* A line goes to the log.
Touch ==
  /\ pc # "idle"
  /\ mtime' = [mtime EXCEPT ![current] = clock]
  /\ UNCHANGED <<clock, files, busy, pc, current, cleanVars, meddled, user>>

-----------------------------------------------------------------------------
(* The user, and time                                                       *)

UserActs ==
  /\ user < MaxUser
  /\ user' = user + 1

UserOpens(f) ==
  /\ UserActs
  /\ f \in files \ busy
  /\ busy' = busy \cup {f}
  /\ UNCHANGED <<clock, files, mtime, pc, current, cleanVars, meddled>>

UserCloses(f) ==
  /\ UserActs
  /\ f \in busy \ {current}
  /\ busy' = busy \ {f}
  /\ UNCHANGED <<clock, files, mtime, pc, current, cleanVars, meddled>>

UserDeletes(f) ==
  /\ UserActs
  /\ f \in files \ busy
  /\ files' = files \ {f}
  /\ meddled' = TRUE
  /\ stranded' = IF f[1] = "log" THEN stranded \cup {Dump(f[2])} ELSE stranded
  /\ UNCHANGED <<clock, mtime, busy, pc, current, doomed, assoc, failed, gone>>

UserEdits(f) ==
  /\ UserActs
  /\ f \in files \ {current}
  /\ mtime' = [mtime EXCEPT ![f] = clock]
  /\ UNCHANGED <<clock, files, busy, pc, current, cleanVars, meddled>>

Tick ==
  /\ clock < MaxClock
  /\ clock' = clock + 1
  /\ UNCHANGED <<dirVars, pc, current, cleanVars, meddled, user>>

Next ==
  \/ StartLog
  \/ ListLogs
  \/ ListDumps
  \/ DeleteLog
  \/ DeleteAssociated
  \/ DeleteDump
  \/ Deleted
  \/ WriteDump
  \/ EndProcess
  \/ Touch
  \/ \E f \in File : UserOpens(f) \/ UserCloses(f) \/ UserDeletes(f) \/ UserEdits(f)
  \/ Tick

Spec == Init /\ [][Next]_vars
-----------------------------------------------------------------------------
(* Properties                                                               *)

Logs == {f \in files : f[1] = "log"}
Dumps == {f \in files : f[1] = "dmp"}

TypeOK ==
  /\ clock \in Names
  /\ files \subseteq File
  /\ mtime \in [File -> Names]
  /\ busy \subseteq files
  /\ pc \in {"idle", "clean logs", "delete logs", "clean dumps", "delete dumps",
             "dump", "report"}
  /\ current \in File \cup {NoFile}
  /\ (pc = "idle") <=> (current = NoFile)
  /\ doomed \subseteq File
  /\ assoc \in File \cup {NoFile}
  /\ failed \in BOOLEAN /\ meddled \in BOOLEAN
  /\ gone \subseteq File
  /\ stranded \subseteq File
  /\ user \in 0 .. MaxUser

\* The log of the crash that is being written is never deleted, although it
\* need not be among the newest: other files may have its time or a later one.
CurrentLogKept == pc # "idle" => current \in files

\* Cleaning deletes old logs only beyond the limit: as long as the user deletes
\* none himself, it never leaves fewer than MaxLogs.
CleaningKeepsLimit ==
  gone # {} /\ pc # "idle" /\ ~meddled => Cardinality(Logs) >= MaxLogs

\* "Maximum number of crash logs to keep": after a cleaning that listed every file
\* and that no open file has cut short there are no more, whatever earlier crashes
\* have left behind.
LogsBounded ==
  pc \in {"clean dumps", "delete dumps", "dump", "report"} /\ ~failed /\ MaxLogs > 0
    => Cardinality(Logs) <= MaxLogs

\* Over all crashes, a minidump is in the directory without its log only if the user
\* took the log, if a clean-up that had deleted the log could not delete the minidump,
\* or if the process ended between these two deletes; and none of these excuses lasts
\* longer than the minidump, or beyond the next log of that name.
OrphansExplained ==
  \A d \in Dumps \ {assoc} : Log(d[2]) \in files \/ d \in stranded

\* The minidumps are cleaned before one is written: after a crash there is at most
\* one more than the limit, those without a log included, unless a file was open or
\* could not be listed.
DumpsBoundedByOneMore ==
  pc = "report" /\ ~failed /\ MaxDumps > 0 => Cardinality(Dumps) <= MaxDumps + 1

\* The limits of the settings hold as far as the code keeps them.
LimitsHold == LogsBounded /\ DumpsBoundedByOneMore
=============================================================================
