----------------------------- MODULE ThreadDump -----------------------------
(***************************************************************************)
(* The hotkey monitor and the dump of all threads that it writes           *)
(* (src/Crash/ThreadDump.cpp).                                             *)
(*                                                                         *)
(* The monitor polls the hotkey.  On its rising edge it lists the threads  *)
(* of the process, visits each one to find how relevant it is, sorts them  *)
(* and visits each one again to write its section of the log.  A visit     *)
(* opens and suspends the thread, reads its registers and stack, and       *)
(* resumes it.  While the thread is suspended the monitor allocates,       *)
(* formats, and looks up symbols and objects: it takes locks of the        *)
(* process that the suspended thread may hold.                             *)
(***************************************************************************)
EXTENDS Naturals, Sequences, FiniteSets

CONSTANTS
  Threads,      \* the threads of the game
  Monitor,      \* the thread of HotkeyMonitorThreadFunction
  Locks,        \* locks the visits take: the heap, seen_objects_mutex, DIA
  None,
  MaxPresses    \* bound: times the hotkey is pressed

ASSUME DumpAssumption ==
  /\ Monitor \notin Threads
  /\ None \notin Threads \cup {Monitor} \cup Locks
  /\ IsFiniteSet(Threads)
  /\ MaxPresses \in Nat

Priorities == 0 .. 2

VARIABLES
  live,        \* threads that have not exited
  owner,       \* lock |-> the thread that holds it
  suspended,   \* thread |-> its suspend count
  keys,        \* the keys of the hotkey, as a poll reads them: all down
  wasPressed,
  mon,         \* where the monitor is
  ids,         \* threadIds, from the snapshot
  pos,         \* index into ids of the thread to visit
  collected,   \* threadDataList
  left,        \* what of it is not dumped yet
  visiting,    \* the thread opened by the visit under way
  want,        \* the lock the visit needs
  sections,    \* the sections of the log, as they are written
  presses,     \* history: times the hotkey was pressed
  dumps,       \* history: dumps begun
  skipped      \* history: threads that could not be opened or suspended

gameVars == <<live, owner>>
keyVars == <<keys, presses>>
dumpVars == <<ids, pos, collected, left, sections, skipped>>
vars == <<gameVars, suspended, keyVars, wasPressed, mon, dumpVars, visiting,
          want, dumps>>

Init ==
  /\ live = Threads
  /\ owner = [l \in Locks |-> None]
  /\ suspended = [t \in Threads |-> 0]
  /\ keys = FALSE
  /\ wasPressed = FALSE
  /\ mon = "poll"
  /\ ids = <<>>
  /\ pos = 1
  /\ collected = {}
  /\ left = {}
  /\ visiting = None
  /\ want = None
  /\ sections = <<>>
  /\ presses = 0
  /\ dumps = 0
  /\ skipped = {}

-----------------------------------------------------------------------------
(* The game and its user                                                    *)

Running(t) == t \in live /\ suspended[t] = 0

Acquire(t, l) ==
  /\ Running(t)
  /\ owner[l] = None
  /\ owner' = [owner EXCEPT ![l] = t]
  /\ UNCHANGED <<live, suspended, keyVars, wasPressed, mon, dumpVars, visiting,
                 want, dumps>>

Release(t, l) ==
  /\ Running(t)
  /\ owner[l] = t
  /\ owner' = [owner EXCEPT ![l] = None]
  /\ UNCHANGED <<live, suspended, keyVars, wasPressed, mon, dumpVars, visiting,
                 want, dumps>>

Exit(t) ==
  /\ Running(t)
  /\ \A l \in Locks : owner[l] # t
  /\ live' = live \ {t}
  /\ UNCHANGED <<owner, suspended, keyVars, wasPressed, mon, dumpVars, visiting,
                 want, dumps>>

\* The keys are read one after the other; a poll that finds each of them down when
\* it reads it is one that finds the hotkey pressed.
Press ==
  /\ ~keys
  /\ presses < MaxPresses
  /\ keys' = TRUE
  /\ presses' = presses + 1
  /\ UNCHANGED <<gameVars, suspended, wasPressed, mon, dumpVars, visiting, want,
                 dumps>>

LetGo ==
  /\ keys
  /\ keys' = FALSE
  /\ UNCHANGED <<gameVars, suspended, presses, wasPressed, mon, dumpVars,
                 visiting, want, dumps>>

-----------------------------------------------------------------------------
(* HotkeyMonitorThreadFunction                                              *)

\* Defect: the edge is not remembered.
PollPressed_Level ==
  /\ mon = "poll"
  /\ keys
  /\ mon' = "enumerate"
  /\ dumps' = dumps + 1
  /\ UNCHANGED <<gameVars, suspended, keyVars, wasPressed, dumpVars, visiting,
                 want>>

\* The rising edge: the dump is written by this thread, before the next poll.
PollPressed ==
  /\ mon = "poll"
  /\ keys
  /\ ~wasPressed
  /\ wasPressed' = TRUE
  /\ mon' = "enumerate"
  /\ dumps' = dumps + 1
  /\ UNCHANGED <<gameVars, suspended, keyVars, dumpVars, visiting, want>>

PollReleased ==
  /\ mon = "poll"
  /\ ~keys
  /\ wasPressed
  /\ wasPressed' = FALSE
  /\ UNCHANGED <<gameVars, suspended, keyVars, mon, dumpVars, visiting, want,
                 dumps>>

-----------------------------------------------------------------------------
(* WriteAllThreadsDump                                                      *)

Orders(S) == {s \in [1 .. Cardinality(S) -> S] :
                \A i, j \in DOMAIN s : s[i] = s[j] => i = j}

\* The log is created and the threads are listed, the monitor among them.
Enumerate ==
  /\ mon = "enumerate"
  /\ ids' \in Orders(live \cup {Monitor})
  /\ pos' = 1
  /\ collected' = {}
  /\ left' = {}
  /\ sections' = <<>>
  /\ skipped' = {}
  /\ mon' = "collect"
  /\ UNCHANGED <<gameVars, suspended, keyVars, wasPressed, visiting, want, dumps>>

\* The snapshot fails, or something throws between two visits.
GiveUp ==
  /\ mon \in {"enumerate", "collect", "dump"}
  /\ visiting = None
  /\ mon' = "poll"
  /\ UNCHANGED <<gameVars, suspended, keyVars, wasPressed, dumpVars, visiting,
                 want, dumps>>

\* The thread whose turn it is.  Sorting the list and walking it is to take,
\* each time, the best that is left: by priority, then by index.
Better(c, d) ==
  c.priority > d.priority \/ (c.priority = d.priority /\ c.index < d.index)

\* Defect: the ends of the order are exchanged.
NextSection_WorstFirst == CHOOSE d \in left : \A c \in left \ {d} : Better(c, d)

NextSection == CHOOSE d \in left : \A c \in left \ {d} : Better(d, c)

Target == IF mon = "collect" THEN ids[pos] ELSE NextSection.id

\* Another thread is opened and suspended.
SuspendTarget ==
  /\ \/ mon = "collect" /\ pos <= Len(ids) /\ ids[pos] # Monitor
     \/ mon = "dump" /\ left # {}
  /\ visiting = None
  /\ Target \in live
  /\ suspended' = [suspended EXCEPT ![Target] = @ + 1]
  /\ visiting' = Target
  /\ UNCHANGED <<gameVars, keyVars, wasPressed, mon, dumpVars, want, dumps>>

\* The visit comes to a lock, and waits for it
Need(l) ==
  /\ visiting # None
  /\ mon \in {"collect", "dump"}
  /\ want' = l
  /\ mon' = IF mon = "collect" THEN "collect wait" ELSE "dump wait"
  /\ UNCHANGED <<gameVars, suspended, keyVars, wasPressed, dumpVars, visiting,
                 dumps>>

\* until it has had it and given it back.
Got ==
  /\ want # None
  /\ owner[want] = None
  /\ want' = None
  /\ mon' = IF mon = "collect wait" THEN "collect end" ELSE "dump end"
  /\ UNCHANGED <<gameVars, suspended, keyVars, wasPressed, dumpVars, visiting,
                 dumps>>

InVisit == visiting # None /\ want = None

\* Defect: an exception leaves the visit without ResumeThread.
Resumed_OnSuccessOnly ==
  /\ \/ suspended' = [suspended EXCEPT ![visiting] = @ - 1]
     \/ UNCHANGED suspended
  /\ visiting' = None

\* Whatever failed inside the visit, the thread is resumed.
Resumed ==
  /\ suspended' = [suspended EXCEPT ![visiting] = @ - 1]
  /\ visiting' = None

\* The end of CollectThreadData; a thread whose stack cannot be read has
\* priority 0.
Collected ==
  /\ mon \in {"collect", "collect end"}
  /\ InVisit
  /\ Resumed
  /\ \E p \in Priorities :
       collected' = collected \cup {[id |-> ids[pos], index |-> pos, priority |-> p]}
  /\ pos' = pos + 1
  /\ mon' = "collect"
  /\ UNCHANGED <<gameVars, keyVars, wasPressed, ids, left, sections, skipped,
                 want, dumps>>

\* Defect: the monitor takes itself for a thread that cannot be suspended.
SkipTarget_CountsSelf ==
  /\ mon = "collect"
  /\ visiting = None
  /\ pos <= Len(ids)
  /\ skipped' = skipped \cup {ids[pos]}
  /\ pos' = pos + 1
  /\ UNCHANGED <<gameVars, suspended, keyVars, wasPressed, mon, ids, collected,
                 left, sections, visiting, want, dumps>>

\* Defect: a thread that cannot be opened is tried again, also when it has exited.
SkipTarget_Retries ==
  /\ mon = "collect"
  /\ visiting = None
  /\ pos <= Len(ids)
  /\ ids[pos] = Monitor
  /\ pos' = pos + 1
  /\ UNCHANGED <<gameVars, suspended, keyVars, wasPressed, mon, ids, collected,
                 left, sections, skipped, visiting, want, dumps>>

\* The monitor itself is left out, and a thread that cannot be opened or
\* suspended: it has exited, or access is denied.
SkipTarget ==
  /\ mon = "collect"
  /\ visiting = None
  /\ pos <= Len(ids)
  /\ skipped' = IF ids[pos] = Monitor THEN skipped ELSE skipped \cup {ids[pos]}
  /\ pos' = pos + 1
  /\ UNCHANGED <<gameVars, suspended, keyVars, wasPressed, mon, ids, collected,
                 left, sections, visiting, want, dumps>>

SortThreads ==
  /\ mon = "collect"
  /\ pos > Len(ids)
  /\ left' = collected
  /\ mon' = "dump"
  /\ UNCHANGED <<gameVars, suspended, keyVars, wasPressed, ids, pos, collected,
                 sections, skipped, visiting, want, dumps>>

Section(d, state) ==
  Append(sections, [id |-> d.id, index |-> d.index, priority |-> d.priority,
                    state |-> state])

\* The end of DumpSingleThread, with what it could read,
Dumped ==
  /\ mon \in {"dump", "dump end"}
  /\ InVisit
  /\ Resumed
  /\ sections' = Section(NextSection, "dumped")
  /\ left' = left \ {NextSection}
  /\ mon' = "dump"
  /\ UNCHANGED <<gameVars, keyVars, wasPressed, ids, pos, collected, skipped,
                 want, dumps>>

\* or with the line "Failed to open thread" or "Failed to suspend thread".
NotDumped ==
  /\ mon = "dump"
  /\ visiting = None
  /\ left # {}
  /\ sections' = Section(NextSection, "failed")
  /\ left' = left \ {NextSection}
  /\ UNCHANGED <<gameVars, suspended, keyVars, wasPressed, mon, ids, pos,
                 collected, skipped, visiting, want, dumps>>

\* The section of the monitor is the last; the log is flushed.  (The minidump and the
\* messages that follow keep no thread suspended and are left out.)
FinishDump ==
  /\ mon = "dump"
  /\ visiting = None
  /\ left = {}
  /\ sections' = Append(sections,
       [id |-> Monitor, index |-> CHOOSE i \in DOMAIN ids : ids[i] = Monitor,
        priority |-> 0, state |-> "current"])
  /\ mon' = "poll"
  /\ UNCHANGED <<gameVars, suspended, keyVars, wasPressed, ids, pos, collected,
                 left, skipped, visiting, want, dumps>>

MonitorStep ==
  \/ PollPressed
  \/ PollReleased
  \/ Enumerate
  \/ SuspendTarget
  \/ Got
  \/ Collected
  \/ SkipTarget
  \/ SortThreads
  \/ Dumped
  \/ NotDumped
  \/ FinishDump

Next ==
  \/ \E t \in Threads, l \in Locks : Acquire(t, l) \/ Release(t, l)
  \/ \E t \in Threads : Exit(t)
  \/ Press
  \/ LetGo
  \/ MonitorStep
  \/ \E l \in Locks : Need(l)
  \/ GiveUp

\* The monitor is scheduled, and a lock given back again and again is not always
\* lost to the others in the race for it.  Nothing is assumed of the game, which the
\* user takes for hung: a thread that holds a lock may give it back, wait for ever for
\* another one (perhaps one that the suspended thread holds), or never return.
Fairness ==
  /\ WF_vars(MonitorStep)
  /\ SF_vars(Got)

Spec == Init /\ [][Next]_vars
FairSpec == Spec /\ Fairness
-----------------------------------------------------------------------------
(* Properties                                                               *)

MonitorStates == {"poll", "enumerate", "collect", "collect wait", "collect end",
                  "dump", "dump wait", "dump end"}

ThreadData == [id : Threads, index : Nat, priority : Priorities]

TypeOK ==
  /\ live \subseteq Threads
  /\ owner \in [Locks -> Threads \cup {None}]
  /\ suspended \in [Threads -> Nat]
  /\ keys \in BOOLEAN /\ wasPressed \in BOOLEAN
  /\ mon \in MonitorStates
  /\ \A i \in DOMAIN ids : ids[i] \in Threads \cup {Monitor}
  /\ pos \in 1 .. Len(ids) + 1
  /\ collected \subseteq ThreadData
  /\ left \subseteq collected
  /\ visiting \in Threads \cup {None}
  /\ want \in Locks \cup {None}
  /\ presses \in Nat /\ dumps \in Nat
  /\ skipped \subseteq Threads

\* No thread of the game is left suspended, on any path through the visits and
\* however they fail: at most one is, and it is the one being visited.
NothingLeftSuspended ==
  \A t \in Threads : suspended[t] = IF visiting = t THEN 1 ELSE 0

\* One dump per press: a hotkey that stays down through a dump, or is pressed
\* again and again while one is written, never yields more.
OneDumpPerPress == dumps <= presses

\* The finished log has exactly one section for every thread that was listed
\* and could be opened and suspended, under its number in the list.
LogComplete ==
  mon = "dump" /\ left = {} =>
    LET reported == {i \in DOMAIN ids : ids[i] \notin skipped \cup {Monitor}} IN
    /\ Len(sections) = Cardinality(reported)
    /\ \A i \in reported : \E k \in DOMAIN sections :
         sections[k].id = ids[i] /\ sections[k].index = i

\* "Sort threads: by priority descending (2 > 1 > 0), then by index".
SectionsSorted ==
  \A j, k \in DOMAIN sections :
    j < k /\ sections[k].id # Monitor => Better(sections[j], sections[k])

\* The finished log shows the threads it should, in the order it claims.
LogRight == LogComplete /\ SectionsSorted

\* A dump ends, whatever threads exit or refuse to be opened meanwhile: all that can
\* hold it up for good is one thread that keeps a lock the monitor needs for ever,
\* the suspended one or another.
DumpEndsOrLockKept ==
  mon = "enumerate" ~>
    (mon = "poll" \/ \E l \in Locks, t \in Threads : [](want = l /\ owner[l] = t))

\* "press Ctrl+Shift+F12 while game is frozen to generate dump": a dump that
\* began ends.
DumpEnds == mon = "enumerate" ~> mon = "poll"
=============================================================================
