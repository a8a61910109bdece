-------------------------- MODULE ThreadDumpProofs --------------------------
(***************************************************************************)
(* What ThreadDump guarantees for any number of threads, locks and presses *)
(* of the hotkey, whatever fails in a dump.                                *)
(***************************************************************************)
EXTENDS ThreadDump, SequenceTheorems, FiniteSetTheorems, WellOrders

\* A visit is a visit to the thread whose turn it is.
VisitOK ==
  /\ live \subseteq Threads
  /\ ids \in Seq(Threads \cup {Monitor})
  /\ mon = "poll" => visiting = None
  /\ mon = "enumerate" => visiting = None
  /\ visiting = None => mon \notin {"collect wait", "collect end", "dump wait", "dump end"}
  /\ visiting # None /\ mon \in {"collect", "collect wait", "collect end"} =>
       pos <= Len(ids) /\ ids[pos] = visiting
  /\ want # None => mon \in {"collect wait", "dump wait"}

\* A press that the monitor has not answered yet.
PressOK ==
  /\ dumps <= presses
  /\ keys /\ ~wasPressed => dumps < presses

DumpInv == TypeOK /\ VisitOK /\ NothingLeftSuspended /\ PressOK

\* An order of a finite set is a sequence of its members.
LEMMA OrdersAreSequences ==
  ASSUME NEW S, IsFiniteSet(S), NEW s \in Orders(S)
  PROVE  s \in Seq(S) /\ Len(s) \in Nat /\ DOMAIN s = 1 .. Len(s)
<1>1. Cardinality(S) \in Nat
  BY FS_CardinalityType
<1>2. s \in [1 .. Cardinality(S) -> S]
  BY DEF Orders
<1>3. s \in Seq(S)
  BY <1>1, <1>2, SeqDef
<1>4. QED
  BY <1>3, LenProperties

LEMMA DumpInit == Init => DumpInv
<1> SUFFICES ASSUME Init PROVE DumpInv
  OBVIOUS
<1> USE DumpAssumption DEF Init
<1>1. ids \in Seq(Threads \cup {Monitor}) /\ Len(ids) = 0 /\ DOMAIN ids = {}
  BY EmptySeq, LenProperties
<1>2. keys \in BOOLEAN /\ wasPressed \in BOOLEAN
  BY Zenon
<1>3. TypeOK
  BY <1>1, <1>2 DEF TypeOK, MonitorStates
<1>4. VisitOK /\ NothingLeftSuspended /\ PressOK
  BY <1>1 DEF VisitOK, NothingLeftSuspended, PressOK
<1>5. QED
  BY <1>3, <1>4 DEF DumpInv

LEMMA DumpStep == DumpInv /\ [Next]_vars => DumpInv'
<1> SUFFICES ASSUME DumpInv, [Next]_vars PROVE DumpInv'
  OBVIOUS
<1> USE DumpAssumption DEF DumpInv, gameVars, keyVars, dumpVars
<1>0. Len(ids) \in Nat /\ DOMAIN ids = 1 .. Len(ids)
  BY LenProperties DEF VisitOK
<1>1. ASSUME NEW t \in Threads, NEW l \in Locks, Acquire(t, l) PROVE DumpInv'
  <2> USE <1>1 DEF Acquire, Running
  <2>1. TypeOK'
    BY <1>0 DEF TypeOK, VisitOK, MonitorStates, ThreadData, Priorities
  <2>2. VisitOK'
    BY <1>0 DEF TypeOK, VisitOK
  <2>3. NothingLeftSuspended'
    BY DEF TypeOK, VisitOK, NothingLeftSuspended
  <2>4. PressOK'
    BY DEF TypeOK, PressOK
  <2>5. QED
    BY <2>1, <2>2, <2>3, <2>4
<1>2. ASSUME NEW t \in Threads, NEW l \in Locks, Release(t, l) PROVE DumpInv'
  <2> USE <1>2 DEF Release, Running
  <2>1. TypeOK'
    BY <1>0 DEF TypeOK, VisitOK, MonitorStates, ThreadData, Priorities
  <2>2. VisitOK'
    BY <1>0 DEF TypeOK, VisitOK
  <2>3. NothingLeftSuspended'
    BY DEF TypeOK, VisitOK, NothingLeftSuspended
  <2>4. PressOK'
    BY DEF TypeOK, PressOK
  <2>5. QED
    BY <2>1, <2>2, <2>3, <2>4
<1>3. ASSUME NEW t \in Threads, Exit(t) PROVE DumpInv'
  <2> USE <1>3 DEF Exit, Running
  <2>1. TypeOK'
    BY <1>0 DEF TypeOK, VisitOK, MonitorStates, ThreadData, Priorities
  <2>2. VisitOK'
    BY <1>0 DEF TypeOK, VisitOK
  <2>3. NothingLeftSuspended'
    BY DEF TypeOK, VisitOK, NothingLeftSuspended
  <2>4. PressOK'
    BY DEF TypeOK, PressOK
  <2>5. QED
    BY <2>1, <2>2, <2>3, <2>4
<1>4. CASE Press
  <2> USE <1>4 DEF Press
  <2>1. keys' \in BOOLEAN /\ wasPressed' \in BOOLEAN
    BY Zenon DEF TypeOK
  <2>2. presses' \in Nat
    BY DEF TypeOK
  <2>3. UNCHANGED <<live, owner, suspended, wasPressed, mon, ids, pos, collected, left,
                    sections, skipped, visiting, want, dumps>>
    OBVIOUS
  <2>4. TypeOK'
    <3> HIDE <1>4
    <3>1. QED
      BY <2>1, <2>2, <2>3 DEF TypeOK
  <2>5. VisitOK' /\ NothingLeftSuspended'
    BY <2>3 DEF VisitOK, NothingLeftSuspended
  <2>6. PressOK'
    BY DEF TypeOK, PressOK
  <2>7. QED
    BY <2>4, <2>5, <2>6
<1>5. CASE LetGo
  <2> USE <1>5 DEF LetGo
  <2>1. TypeOK'
    BY <1>0 DEF TypeOK, VisitOK, MonitorStates, ThreadData, Priorities
  <2>2. VisitOK'
    BY <1>0 DEF TypeOK, VisitOK
  <2>3. NothingLeftSuspended'
    BY DEF TypeOK, VisitOK, NothingLeftSuspended
  <2>4. PressOK'
    BY DEF TypeOK, PressOK
  <2>5. QED
    BY <2>1, <2>2, <2>3, <2>4
<1>6. CASE PollPressed
  <2> USE <1>6 DEF PollPressed
  <2>1. TypeOK'
    BY <1>0 DEF TypeOK, VisitOK, MonitorStates, ThreadData, Priorities
  <2>2. VisitOK'
    BY <1>0 DEF TypeOK, VisitOK
  <2>3. NothingLeftSuspended'
    BY DEF TypeOK, VisitOK, NothingLeftSuspended
  <2>4. PressOK'
    BY DEF TypeOK, PressOK
  <2>5. QED
    BY <2>1, <2>2, <2>3, <2>4
<1>7. CASE PollReleased
  <2> USE <1>7 DEF PollReleased
  <2>1. TypeOK'
    BY <1>0 DEF TypeOK, VisitOK, MonitorStates, ThreadData, Priorities
  <2>2. VisitOK'
    BY <1>0 DEF TypeOK, VisitOK
  <2>3. NothingLeftSuspended'
    BY DEF TypeOK, VisitOK, NothingLeftSuspended
  <2>4. PressOK'
    BY DEF TypeOK, PressOK
  <2>5. QED
    BY <2>1, <2>2, <2>3, <2>4
<1>8. CASE Enumerate
  <2> USE <1>8 DEF Enumerate
  <2>1. IsFiniteSet(live \cup {Monitor})
    <3>1. IsFiniteSet(live)
      BY FS_Subset DEF VisitOK
    <3>2. QED
      BY <3>1, FS_AddElement
  <2>2. ids' \in Seq(live \cup {Monitor}) /\ Len(ids') \in Nat /\ DOMAIN ids' = 1 .. Len(ids')
    BY <2>1, OrdersAreSequences
  <2>3. \A i \in DOMAIN ids' : ids'[i] \in Threads \cup {Monitor}
    BY <2>2, ElementOfSeq DEF VisitOK
  <2>4. ids' \in Seq(Threads \cup {Monitor})
    <3>1. ids' \in [1 .. Len(ids') -> Threads \cup {Monitor}]
      BY <2>2, <2>3, LenProperties
    <3>2. QED
      BY <2>2, <3>1, SeqDef
  <2>5. TypeOK'
    BY <2>2, <2>3 DEF TypeOK, MonitorStates
  <2>6. VisitOK'
    BY <2>4 DEF TypeOK, VisitOK
  <2>7. NothingLeftSuspended' /\ PressOK'
    BY DEF NothingLeftSuspended, PressOK
  <2>8. QED
    BY <2>5, <2>6, <2>7
<1>9. CASE SuspendTarget
  <2> USE <1>9 DEF SuspendTarget
  <2>1. Target \in Threads /\ (mon = "collect" => pos <= Len(ids) /\ ids[pos] = Target)
    BY DEF VisitOK, Target
  <2>2. /\ suspended' \in [Threads -> Nat]
        /\ \A t \in Threads : suspended'[t] = IF t = Target THEN 1 ELSE 0
    <3>1. suspended \in [Threads -> Nat] /\ \A t \in Threads : suspended[t] = 0
      BY DEF TypeOK, NothingLeftSuspended
    <3>2. suspended' = [suspended EXCEPT ![Target] = suspended[Target] + 1]
      OBVIOUS
    <3> HIDE <1>9 DEF DumpInv
    <3>3. QED
      BY <2>1, <3>1, <3>2
  <2>3. /\ visiting' = Target
        /\ UNCHANGED <<live, owner, keys, wasPressed, mon, ids, pos, collected, left,
                       sections, want, presses, dumps, skipped>>
    OBVIOUS
  <2> HIDE <1>9
  <2>4. TypeOK'
    BY <2>1, <2>2, <2>3 DEF TypeOK
  <2>5. VisitOK'
    BY <1>9, <2>1, <2>3 DEF VisitOK
  <2>6. NothingLeftSuspended'
    BY <2>1, <2>2, <2>3 DEF NothingLeftSuspended
  <2>7. PressOK'
    BY <2>3 DEF PressOK
  <2>8. QED
    BY <2>4, <2>5, <2>6, <2>7
<1>10. CASE Got
  <2> USE <1>10 DEF Got
  <2>1. TypeOK'
    BY <1>0 DEF TypeOK, VisitOK, MonitorStates, ThreadData, Priorities
  <2>2. VisitOK'
    BY <1>0 DEF TypeOK, VisitOK
  <2>3. NothingLeftSuspended'
    BY DEF TypeOK, VisitOK, NothingLeftSuspended
  <2>4. PressOK'
    BY DEF TypeOK, PressOK
  <2>5. QED
    BY <2>1, <2>2, <2>3, <2>4
<1>11. CASE Collected
  <2> USE <1>11 DEF Collected, InVisit, Resumed
  <2>1. visiting \in Threads
    BY DEF TypeOK
  <2>2. /\ suspended' \in [Threads -> Nat] /\ visiting' = None
        /\ \A t \in Threads : suspended'[t] = 0
    <3>1. /\ suspended \in [Threads -> Nat]
          /\ \A t \in Threads : suspended[t] = IF t = visiting THEN 1 ELSE 0
      BY DEF TypeOK, NothingLeftSuspended
    <3>2. /\ suspended' = [suspended EXCEPT ![visiting] = suspended[visiting] - 1]
          /\ visiting' = None
      OBVIOUS
    <3> HIDE <1>11 DEF DumpInv
    <3>3. QED
      BY <2>1, <3>1, <3>2
  <2>3. pos \in 1 .. Len(ids) /\ ids[pos] = visiting
    <3>1. visiting # None /\ mon \in {"collect", "collect end"}
      OBVIOUS
    <3>2. VisitOK /\ pos \in 1 .. Len(ids) + 1
      BY DEF TypeOK
    <3> HIDE <1>11 DEF DumpInv
    <3>3. ids[pos] = visiting
      BY <3>1, <3>2 DEF VisitOK
    <3>4. pos <= Len(ids)
      BY <3>1, <3>2 DEF VisitOK
    <3>5. QED
      BY <1>0, <3>2, <3>3, <3>4
  <2>4. collected' \subseteq ThreadData /\ left \subseteq collected'
    <3>1. PICK p \in Priorities :
            collected' = collected \cup {[id |-> ids[pos], index |-> pos, priority |-> p]}
      OBVIOUS
    <3>2. QED
      <4> DEFINE new == [id |-> ids[pos], index |-> pos, priority |-> p]
      <4>1. new \in ThreadData
        <5> HIDE <1>11 DEF DumpInv
        <5>1. visiting \in Threads /\ pos \in Nat /\ p \in Priorities
          BY <1>0, <2>1, <2>3, <3>1
        <5>2. new = [id |-> visiting, index |-> pos, priority |-> p]
          BY <2>3
        <5> HIDE DEF new
        <5>3. QED
          BY <5>1, <5>2 DEF ThreadData
      <4>2. collected \subseteq ThreadData /\ left \subseteq collected
        BY DEF TypeOK
      <4> HIDE DEF new
      <4>3. QED
        BY <3>1, <4>1, <4>2 DEF new
  <2>5. TypeOK'
    <3> HIDE <1>11
    <3>1. UNCHANGED <<live, owner, keys, wasPressed, ids, presses, dumps, skipped, want>>
          /\ mon' \in MonitorStates
      BY <1>11 DEF MonitorStates
    <3>2. pos' = pos + 1 /\ left' = left
      BY <1>11
    <3>3. QED
      BY <2>2, <2>3, <2>4, <3>1, <3>2 DEF TypeOK
  <2>6. VisitOK'
    BY <1>0, <2>2 DEF TypeOK, VisitOK
  <2>7. NothingLeftSuspended'
    BY <2>2 DEF NothingLeftSuspended
  <2>8. PressOK'
    BY DEF PressOK
  <2>9. QED
    BY <2>5, <2>6, <2>7, <2>8
<1>12. CASE SkipTarget
  <2> USE <1>12 DEF SkipTarget
  <2>1. TypeOK'
    BY <1>0 DEF TypeOK, VisitOK, MonitorStates, ThreadData, Priorities
  <2>2. VisitOK'
    BY <1>0 DEF TypeOK, VisitOK
  <2>3. NothingLeftSuspended'
    BY DEF TypeOK, VisitOK, NothingLeftSuspended
  <2>4. PressOK'
    BY DEF TypeOK, PressOK
  <2>5. QED
    BY <2>1, <2>2, <2>3, <2>4
<1>13. CASE SortThreads
  <2> USE <1>13 DEF SortThreads
  <2>1. TypeOK'
    BY <1>0 DEF TypeOK, VisitOK, MonitorStates, ThreadData, Priorities
  <2>2. VisitOK'
    BY <1>0 DEF TypeOK, VisitOK
  <2>3. NothingLeftSuspended'
    BY DEF TypeOK, VisitOK, NothingLeftSuspended
  <2>4. PressOK'
    BY DEF TypeOK, PressOK
  <2>5. QED
    BY <2>1, <2>2, <2>3, <2>4
<1>14. CASE Dumped
  <2> USE <1>14 DEF Dumped, InVisit, Resumed
  <2>1. visiting \in Threads
    BY DEF TypeOK
  <2>2. /\ suspended' \in [Threads -> Nat] /\ visiting' = None
        /\ \A t \in Threads : suspended'[t] = 0
    <3>1. /\ suspended \in [Threads -> Nat]
          /\ \A t \in Threads : suspended[t] = IF t = visiting THEN 1 ELSE 0
      BY DEF TypeOK, NothingLeftSuspended
    <3>2. /\ suspended' = [suspended EXCEPT ![visiting] = suspended[visiting] - 1]
          /\ visiting' = None
      OBVIOUS
    <3> HIDE <1>14 DEF DumpInv
    <3>3. QED
      BY <2>1, <3>1, <3>2
  <2>3. left' \subseteq left
    OBVIOUS
  <2>4. pos \in 1 .. Len(ids) + 1
    BY DEF TypeOK
  <2>5. TypeOK'
    <3> HIDE <1>14
    <3>1. UNCHANGED <<live, owner, keys, wasPressed, ids, presses, dumps, skipped, want>>
          /\ mon' \in MonitorStates
      BY <1>14 DEF MonitorStates
    <3>2. pos' = pos /\ collected' = collected
      BY <1>14
    <3>3. QED
      BY <2>2, <2>3, <2>4, <3>1, <3>2 DEF TypeOK
  <2>6. VisitOK'
    BY <1>0, <2>2 DEF TypeOK, VisitOK
  <2>7. NothingLeftSuspended'
    BY <2>2 DEF NothingLeftSuspended
  <2>8. PressOK'
    BY DEF PressOK
  <2>9. QED
    BY <2>5, <2>6, <2>7, <2>8
<1>15. CASE NotDumped
  <2> USE <1>15 DEF NotDumped
  <2>1. TypeOK'
    BY <1>0 DEF TypeOK, VisitOK, MonitorStates, ThreadData, Priorities
  <2>2. VisitOK'
    BY <1>0 DEF TypeOK, VisitOK
  <2>3. NothingLeftSuspended'
    BY DEF TypeOK, VisitOK, NothingLeftSuspended
  <2>4. PressOK'
    BY DEF TypeOK, PressOK
  <2>5. QED
    BY <2>1, <2>2, <2>3, <2>4
<1>16. CASE FinishDump
  <2> USE <1>16 DEF FinishDump
  <2>1. TypeOK'
    BY <1>0 DEF TypeOK, VisitOK, MonitorStates, ThreadData, Priorities
  <2>2. VisitOK'
    BY <1>0 DEF TypeOK, VisitOK
  <2>3. NothingLeftSuspended'
    BY DEF TypeOK, VisitOK, NothingLeftSuspended
  <2>4. PressOK'
    BY DEF TypeOK, PressOK
  <2>5. QED
    BY <2>1, <2>2, <2>3, <2>4
<1>17. CASE GiveUp
  <2> USE <1>17 DEF GiveUp
  <2>1. TypeOK'
    BY <1>0 DEF TypeOK, VisitOK, MonitorStates, ThreadData, Priorities
  <2>2. VisitOK'
    BY <1>0 DEF TypeOK, VisitOK
  <2>3. NothingLeftSuspended'
    BY DEF TypeOK, VisitOK, NothingLeftSuspended
  <2>4. PressOK'
    BY DEF TypeOK, PressOK
  <2>5. QED
    BY <2>1, <2>2, <2>3, <2>4
<1>18. ASSUME NEW l \in Locks, Need(l) PROVE DumpInv'
  <2> USE <1>18 DEF Need
  <2>1. TypeOK'
    BY <1>0 DEF TypeOK, VisitOK, MonitorStates, ThreadData, Priorities
  <2>2. VisitOK'
    BY <1>0 DEF TypeOK, VisitOK
  <2>3. NothingLeftSuspended'
    BY DEF TypeOK, VisitOK, NothingLeftSuspended
  <2>4. PressOK'
    BY DEF TypeOK, PressOK
  <2>5. QED
    BY <2>1, <2>2, <2>3, <2>4
<1>19. CASE UNCHANGED vars
  BY <1>19 DEF vars, TypeOK, VisitOK, NothingLeftSuspended, PressOK
<1>20. QED
  BY <1>1, <1>2, <1>3, <1>4, <1>5, <1>6, <1>7, <1>8, <1>9, <1>10, <1>11, <1>12, <1>13, <1>14, <1>15, <1>16, <1>17, <1>18, <1>19 DEF Next, MonitorStep

\* Every reachable state satisfies the inductive invariant.
THEOREM DumpInvariant == Spec => []DumpInv
<1>1. QED
  BY DumpInit, DumpStep, PTL DEF Spec

\* Every variable keeps to its type, for all threads, locks and presses.
THEOREM TypeCorrect == Spec => []TypeOK
<1>1. DumpInv => TypeOK
  BY DEF DumpInv
<1>2. QED
  BY <1>1, DumpInvariant, PTL

\* Whatever fails in a dump, only the thread under visit is suspended, once.
THEOREM ThreadsAreResumed == Spec => []NothingLeftSuspended
<1>1. DumpInv => NothingLeftSuspended
  BY DEF DumpInv
<1>2. QED
  BY <1>1, DumpInvariant, PTL

\* The hotkey never yields more dumps than it was pressed.
THEOREM DumpsArePressed == Spec => []OneDumpPerPress
<1>1. DumpInv => OneDumpPerPress
  BY DEF DumpInv, PressOK, OneDumpPerPress
<1>2. QED
  BY <1>1, DumpInvariant, PTL

-----------------------------------------------------------------------------
(* The order of the sections                                                *)

Collecting == mon \in {"collect", "collect wait", "collect end"}
Dumping == mon \in {"dump", "dump wait", "dump end"}

\* The numbers of the threads in the list are different.
IndexOK ==
  \A c \in collected :
    /\ c.index < pos
    /\ \A d \in collected : d.index = c.index => d = c

\* What is left goes behind what is written.
OrderOK ==
  /\ \E S : sections \in Seq(S)
  /\ SectionsSorted
  /\ Collecting => sections = <<>> /\ left = {}
  /\ Dumping => \A j \in DOMAIN sections : \A d \in left : Better(sections[j], d)

\* The thread visited in the second round is one of those that are left.
VisitLeft == visiting # None /\ Dumping => left # {}

OrderInv == IndexOK /\ OrderOK /\ VisitLeft

\* A list of different threads has a best one.
LEMMA NextSectionIsBest ==
  ASSUME DumpInv, IndexOK, left # {}
  PROVE  NextSection \in left /\ \A c \in left \ {NextSection} : Better(NextSection, c)
<1> DEFINE Key(d) == <<2 - d.priority, d.index>>
           K == {Key(d) : d \in left}
<1>1. \A d \in left : /\ d \in collected /\ d.index \in Nat
                      /\ d.priority \in Priorities
                      /\ Key(d) \in Nat \X Nat
  BY DEF DumpInv, TypeOK, ThreadData, Priorities
<1>2. PICK k \in K : \A q \in K : k[1] < q[1] \/ (k[1] = q[1] /\ k[2] <= q[2])
  <2>1. K \in SUBSET (Nat \X Nat) /\ K # {}
    BY <1>1
  <2> HIDE DEF K
  <2> QED BY <2>1, LeastPair
<1>3. PICK d \in left : k = Key(d)
  OBVIOUS
<1>4. ASSUME NEW c \in left \ {d} PROVE Better(d, c)
  <2>1. \/ 2 - d.priority < 2 - c.priority
        \/ (2 - d.priority = 2 - c.priority /\ d.index <= c.index)
    <3>1. Key(c) \in K
      OBVIOUS
    <3>2. k[1] < Key(c)[1] \/ (k[1] = Key(c)[1] /\ k[2] <= Key(c)[2])
      BY <1>2, <3>1
    <3> QED BY <1>3, <3>2
  <2>2. d.index # c.index
    BY <1>1 DEF IndexOK
  <2>3. /\ d.index \in Nat /\ c.index \in Nat
        /\ d.priority \in 0 .. 2 /\ c.priority \in 0 .. 2
    BY <1>1 DEF Priorities
  <2> QED BY <2>1, <2>2, <2>3 DEF Better
<1> QED BY <1>4 DEF NextSection

\* Appending the section of the next thread keeps the order.
LEMMA SectionKeepsOrder ==
  ASSUME DumpInv, IndexOK, OrderOK, Dumping, left # {}, NEW state,
         sections' = Section(NextSection, state), left' = left \ {NextSection},
         mon' = "dump"
  PROVE  OrderOK'
<1> DEFINE n == NextSection
           e == [id |-> n.id, index |-> n.index, priority |-> n.priority, state |-> state]
<1>1. PICK S : sections \in Seq(S)
  BY DEF OrderOK
<1>2. sections \in Seq(S \cup {e}) /\ Len(sections) \in Nat
  <2>1. sections \in [1 .. Len(sections) -> S] /\ Len(sections) \in Nat
    BY <1>1, LenProperties
  <2>2. sections \in [1 .. Len(sections) -> S \cup {e}]
    BY <2>1
  <2> QED BY <2>1, <2>2, SeqDef
<1>3. sections' = Append(sections, e)
  BY DEF Section
<1> HIDE DEF e
<1>4. /\ sections' \in Seq(S \cup {e})
      /\ Len(sections') = Len(sections) + 1
      /\ \A i \in 1 .. Len(sections) : sections'[i] = sections[i]
      /\ sections'[Len(sections) + 1] = e
  BY <1>2, <1>3, AppendProperties
<1>5. DOMAIN sections = 1 .. Len(sections) /\ DOMAIN sections' = 1 .. Len(sections) + 1
  BY <1>2, <1>4, LenProperties
<1>6. n \in left /\ \A c \in left \ {n} : Better(n, c)
  BY NextSectionIsBest
<1>7. /\ \A j \in DOMAIN sections : Better(sections[j], e)
      /\ \A c : Better(n, c) => Better(e, c)
  BY <1>6 DEF OrderOK, Better, e
<1>8. SectionsSorted'
  <2>1. ASSUME NEW j \in DOMAIN sections', NEW k \in DOMAIN sections', j < k,
               sections'[k].id # Monitor
        PROVE Better(sections'[j], sections'[k])
    <3>1. CASE k \in DOMAIN sections
      <4>1. j \in DOMAIN sections
        BY <1>2, <1>5, <2>1, <3>1
      <4>2. sections'[j] = sections[j] /\ sections'[k] = sections[k]
        BY <1>4, <1>5, <3>1, <4>1
      <4> QED BY <2>1, <3>1, <4>1, <4>2 DEF OrderOK, SectionsSorted
    <3>2. CASE k \notin DOMAIN sections
      <4>1. k = Len(sections) + 1 /\ j \in DOMAIN sections
        BY <1>2, <1>5, <2>1, <3>2
      <4> QED BY <1>4, <1>5, <1>7, <4>1
    <3> QED BY <3>1, <3>2
  <2> QED BY <2>1 DEF SectionsSorted, Better
<1>9. ASSUME NEW j \in DOMAIN sections', NEW d \in left' PROVE Better(sections'[j], d)
  <2>1. d \in left /\ d # n
    BY <1>9
  <2>2. CASE j \in DOMAIN sections
    BY <1>4, <1>5, <2>1, <2>2 DEF OrderOK
  <2>3. CASE j \notin DOMAIN sections
    <3>1. j = Len(sections) + 1
      BY <1>2, <1>5, <2>3
    <3> QED BY <1>4, <1>6, <1>7, <2>1, <3>1
  <2> QED BY <2>2, <2>3
<1>10. ~Collecting'
  BY DEF Collecting
<1> QED BY <1>4, <1>8, <1>9, <1>10 DEF OrderOK, Better

\* Steps that leave the list and the log alone.
LEMMA OrderAlone ==
  ASSUME OrderInv, UNCHANGED <<collected, pos, sections, left>>,
         Collecting' => Collecting, Dumping' => Dumping,
         visiting' # None => visiting # None \/ left # {} \/ ~Dumping
  PROVE  OrderInv'
<1>1. IndexOK'
  BY DEF OrderInv, IndexOK
<1>2. OrderOK'
  BY DEF OrderInv, OrderOK, SectionsSorted, Better
<1>3. VisitLeft'
  BY DEF OrderInv, VisitLeft
<1> QED BY <1>1, <1>2, <1>3 DEF OrderInv

\* Nothing is written at the start.
LEMMA OrderInit == Init => OrderInv
<1> SUFFICES ASSUME Init PROVE OrderInv
  OBVIOUS
<1>1. sections \in Seq(Threads) /\ DOMAIN sections = {}
  BY EmptySeq DEF Init
<1>2. IndexOK
  BY DEF Init, IndexOK
<1>3. OrderOK
  BY <1>1 DEF Init, OrderOK, SectionsSorted, Collecting, Dumping
<1>4. VisitLeft
  BY DEF Init, VisitLeft
<1> QED BY <1>2, <1>3, <1>4 DEF OrderInv

\* Every step keeps the order.
LEMMA OrderStep == DumpInv /\ OrderInv /\ [Next]_vars => OrderInv'
<1> SUFFICES ASSUME DumpInv, OrderInv, [Next]_vars PROVE OrderInv'
  OBVIOUS
<1> USE DEF gameVars, keyVars, dumpVars
<1>1. ASSUME NEW t \in Threads, NEW l \in Locks, Acquire(t, l) \/ Release(t, l)
      PROVE OrderInv'
  BY <1>1, OrderAlone DEF Acquire, Release, Collecting, Dumping
<1>2. ASSUME NEW t \in Threads, Exit(t) PROVE OrderInv'
  BY <1>2, OrderAlone DEF Exit, Collecting, Dumping
<1>3. CASE Press \/ LetGo
  BY <1>3, OrderAlone DEF Press, LetGo, Collecting, Dumping
<1>4. CASE PollPressed \/ PollReleased
  BY <1>4, OrderAlone DEF PollPressed, PollReleased, Collecting, Dumping
<1>5. CASE Enumerate
  <2>1. sections' \in Seq(Threads) /\ DOMAIN sections' = {}
    BY <1>5, EmptySeq DEF Enumerate
  <2>2. IndexOK'
    BY <1>5 DEF Enumerate, IndexOK
  <2>3. OrderOK'
    BY <1>5, <2>1 DEF Enumerate, OrderOK, SectionsSorted, Dumping
  <2>4. VisitLeft'
    BY <1>5 DEF Enumerate, VisitLeft, Dumping
  <2> QED BY <2>2, <2>3, <2>4 DEF OrderInv
<1>6. CASE SuspendTarget
  BY <1>6, OrderAlone DEF SuspendTarget, Collecting, Dumping
<1>7. CASE Got
  <2>1. mon \in {"collect wait", "dump wait"}
    BY <1>7 DEF Got, DumpInv, VisitOK
  <2> QED BY <1>7, <2>1, OrderAlone DEF Got, Collecting, Dumping
<1>8. CASE Collected
  <2>1. PICK p \in Priorities :
          collected' = collected \cup {[id |-> ids[pos], index |-> pos, priority |-> p]}
    BY <1>8 DEF Collected
  <2> DEFINE new == [id |-> ids[pos], index |-> pos, priority |-> p]
  <2>2. /\ pos \in Nat /\ pos' = pos + 1
        /\ \A c \in collected : c.index \in Nat
    <3>1. Len(ids) \in Nat /\ pos \in 1 .. Len(ids) + 1
      BY LenProperties DEF DumpInv, VisitOK, TypeOK
    <3>2. collected \subseteq ThreadData
      BY DEF DumpInv, TypeOK
    <3>3. pos' = pos + 1
      BY <1>8 DEF Collected
    <3> QED BY <3>1, <3>2, <3>3 DEF ThreadData
  <2>3. IndexOK'
    <3>1. new.index = pos
      OBVIOUS
    <3> HIDE DEF new
    <3>2. ASSUME NEW c \in collected', NEW d \in collected', d.index = c.index PROVE d = c
      BY <2>1, <2>2, <3>1, <3>2 DEF new, OrderInv, IndexOK
    <3>3. ASSUME NEW c \in collected' PROVE c.index < pos'
      BY <2>1, <2>2, <3>1, <3>3 DEF new, OrderInv, IndexOK
    <3> QED BY <3>2, <3>3 DEF IndexOK
  <2>4. UNCHANGED <<sections, left>> /\ Collecting /\ ~Dumping'
    BY <1>8 DEF Collected, Collecting, Dumping
  <2>5. OrderOK' /\ VisitLeft'
    BY <2>4 DEF OrderInv, OrderOK, SectionsSorted, Better, VisitLeft
  <2> QED BY <2>3, <2>5 DEF OrderInv
<1>9. CASE SkipTarget
  <2>1. /\ pos \in Nat /\ pos' = pos + 1
        /\ \A c \in collected : c.index \in Nat
    <3>1. Len(ids) \in Nat /\ pos \in 1 .. Len(ids) + 1
      BY LenProperties DEF DumpInv, VisitOK, TypeOK
    <3>2. collected \subseteq ThreadData
      BY DEF DumpInv, TypeOK
    <3>3. pos' = pos + 1
      BY <1>9 DEF SkipTarget
    <3> QED BY <3>1, <3>2, <3>3 DEF ThreadData
  <2>2. IndexOK'
    BY <1>9, <2>1 DEF SkipTarget, OrderInv, IndexOK
  <2>3. OrderOK'
    BY <1>9 DEF SkipTarget, OrderInv, OrderOK, SectionsSorted, Better, Collecting, Dumping
  <2>4. VisitLeft'
    BY <1>9 DEF SkipTarget, VisitLeft
  <2> QED BY <2>2, <2>3, <2>4 DEF OrderInv
<1>10. CASE SortThreads
  <2>1. UNCHANGED <<collected, pos, sections>> /\ mon' = "dump" /\ sections = <<>>
    BY <1>10 DEF SortThreads, OrderInv, OrderOK, Collecting
  <2>2. IndexOK'
    BY <2>1 DEF OrderInv, IndexOK
  <2>3. DOMAIN sections' = {}
    BY <2>1, EmptySeq
  <2>4. OrderOK'
    BY <2>1, <2>3 DEF OrderInv, OrderOK, SectionsSorted, Collecting
  <2>5. VisitLeft'
    <3>1. pos > Len(ids) /\ visiting' = visiting /\ mon = "collect"
      BY <1>10 DEF SortThreads
    <3>2. Len(ids) \in Nat /\ pos \in 1 .. Len(ids) + 1
      BY LenProperties DEF DumpInv, VisitOK, TypeOK
    <3>3. visiting = None
      BY <3>1, <3>2 DEF DumpInv, VisitOK
    <3> QED BY <3>1, <3>3 DEF VisitLeft
  <2> QED BY <2>2, <2>4, <2>5 DEF OrderInv
<1>11. CASE Dumped \/ NotDumped
  <2>1. PICK state \in {"dumped", "failed"} : sections' = Section(NextSection, state)
    BY <1>11 DEF Dumped, NotDumped
  <2>2. /\ left' = left \ {NextSection} /\ mon' = "dump" /\ Dumping
        /\ UNCHANGED <<collected, pos>>
    BY <1>11 DEF Dumped, NotDumped, Dumping
  <2>3. CASE left # {}
    <3>1. OrderOK'
      BY <2>1, <2>2, <2>3, SectionKeepsOrder DEF OrderInv
    <3>2. IndexOK'
      BY <2>2 DEF OrderInv, IndexOK
    <3>3. VisitLeft'
      BY <1>11 DEF Dumped, NotDumped, Resumed, VisitLeft
    <3> QED BY <3>1, <3>2, <3>3 DEF OrderInv
  <2>4. left # {}
    BY <1>11, <2>2 DEF OrderInv, VisitLeft, Dumped, NotDumped, InVisit
  <2> QED BY <2>3, <2>4
<1>12. CASE FinishDump
  <2> DEFINE e == [id |-> Monitor, index |-> CHOOSE i \in DOMAIN ids : ids[i] = Monitor,
                   priority |-> 0, state |-> "current"]
  <2>1. /\ sections' = Append(sections, e) /\ mon' = "poll"
        /\ UNCHANGED <<collected, pos>> /\ e.id = Monitor
    BY <1>12 DEF FinishDump
  <2> HIDE DEF e
  <2>2. PICK S : sections \in Seq(S)
    BY DEF OrderInv, OrderOK
  <2>3. sections \in Seq(S \cup {e})
    <3>1. sections \in [1 .. Len(sections) -> S] /\ Len(sections) \in Nat
      BY <2>2, LenProperties
    <3>2. sections \in [1 .. Len(sections) -> S \cup {e}]
      BY <3>1
    <3> QED BY <3>1, <3>2, SeqDef
  <2>4. /\ sections' \in Seq(S \cup {e}) /\ Len(sections) \in Nat
        /\ DOMAIN sections = 1 .. Len(sections)
        /\ DOMAIN sections' = 1 .. Len(sections) + 1
        /\ \A i \in 1 .. Len(sections) : sections'[i] = sections[i]
        /\ sections'[Len(sections) + 1] = e
    BY <2>1, <2>3, AppendProperties, LenProperties
  <2>5. SectionsSorted'
    <3>1. ASSUME NEW j \in DOMAIN sections', NEW k \in DOMAIN sections', j < k,
                 sections'[k].id # Monitor
          PROVE Better(sections'[j], sections'[k])
      <4>1. k # Len(sections) + 1
        BY <2>1, <2>4, <3>1
      <4>2. k \in DOMAIN sections /\ j \in DOMAIN sections
        BY <2>4, <3>1, <4>1
      <4>3. sections'[j] = sections[j] /\ sections'[k] = sections[k]
        BY <2>4, <4>2
      <4> QED BY <3>1, <4>2, <4>3 DEF OrderInv, OrderOK, SectionsSorted
    <3> QED BY <3>1 DEF SectionsSorted, Better
  <2>6. OrderOK'
    BY <2>1, <2>4, <2>5 DEF OrderOK, Collecting, Dumping
  <2>7. IndexOK'
    BY <2>1 DEF OrderInv, IndexOK
  <2>8. VisitLeft'
    BY <2>1 DEF VisitLeft, Dumping
  <2> QED BY <2>6, <2>7, <2>8 DEF OrderInv
<1>13. CASE GiveUp
  BY <1>13, OrderAlone DEF GiveUp, Collecting, Dumping
<1>14. ASSUME NEW l \in Locks, Need(l) PROVE OrderInv'
  BY <1>14, OrderAlone DEF Need, Collecting, Dumping
<1>15. CASE UNCHANGED vars
  BY <1>15, OrderAlone DEF vars, Collecting, Dumping
<1> QED BY <1>1, <1>2, <1>3, <1>4, <1>5, <1>6, <1>7, <1>8, <1>9, <1>10, <1>11,
           <1>12, <1>13, <1>14, <1>15 DEF Next, MonitorStep

\* The log of a dump is sorted: by descending priority, then by number, for any threads and
\* whatever becomes of them between the two visits.
THEOREM SectionsAreSorted == Spec => []SectionsSorted
<1>1. Init => DumpInv /\ OrderInv
  BY DumpInit, OrderInit
<1>2. DumpInv /\ OrderInv /\ [Next]_vars => DumpInv' /\ OrderInv'
  BY DumpStep, OrderStep
<1>3. DumpInv /\ OrderInv => SectionsSorted
  BY DEF OrderInv, OrderOK
<1> QED BY <1>1, <1>2, <1>3, PTL DEF Spec

-----------------------------------------------------------------------------
(* The log is complete                                                      *)

\* The threads are listed once each.
ListOK == \A i, j \in DOMAIN ids : ids[i] = ids[j] => i = j

\* The first round has come to pos: each thread before it is skipped, or is in
\* the list under its number.
FirstRoundOK ==
  /\ skipped \subseteq {ids[i] : i \in 1 .. pos - 1}
  /\ \A c \in collected : /\ c.index \in 1 .. pos - 1
                          /\ ids[c.index] = c.id
                          /\ c.id \notin skipped \cup {Monitor}
  /\ \A i \in 1 .. pos - 1 :
       \/ ids[i] \in skipped \cup {Monitor}
       \/ \E c \in collected : c.index = i

\* The second round has a section for each thread that is not left.
SecondRoundOK ==
  /\ pos = Len(ids) + 1
  /\ Len(sections) = Cardinality(collected \ left)
  /\ \A c \in collected \ left : \E k \in DOMAIN sections :
       sections[k].id = c.id /\ sections[k].index = c.index

RoundsInv ==
  /\ IsFiniteSet(collected)
  /\ Collecting \/ Dumping => ListOK /\ FirstRoundOK
  /\ Dumping => SecondRoundOK

\* Steps that leave the list and the log alone.
LEMMA RoundsAlone ==
  ASSUME RoundsInv, UNCHANGED <<ids, pos, collected, left, sections, skipped>>,
         Collecting' => Collecting, Dumping' => Dumping
  PROVE  RoundsInv'
<1>1. ListOK' = ListOK
  BY DEF ListOK
<1>2. FirstRoundOK' = FirstRoundOK
  BY DEF FirstRoundOK
<1>3. SecondRoundOK' = SecondRoundOK
  BY DEF SecondRoundOK
<1> QED BY <1>1, <1>2, <1>3 DEF RoundsInv

\* The section of the next thread is the one that was missing.
LEMMA SectionOfNext ==
  ASSUME DumpInv, OrderInv, RoundsInv, Dumping, left # {}, NEW state,
         sections' = Section(NextSection, state), left' = left \ {NextSection},
         mon' = "dump", UNCHANGED <<ids, pos, collected, skipped>>
  PROVE  RoundsInv'
<1> DEFINE n == NextSection
           e == [id |-> n.id, index |-> n.index, priority |-> n.priority, state |-> state]
<1>1. n \in left /\ left \subseteq collected
  BY NextSectionIsBest DEF DumpInv, TypeOK, OrderInv
<1>2. PICK S : sections \in Seq(S)
  BY DEF OrderInv, OrderOK
<1>3. sections \in Seq(S \cup {e})
  <2>1. sections \in [1 .. Len(sections) -> S] /\ Len(sections) \in Nat
    BY <1>2, LenProperties
  <2>2. sections \in [1 .. Len(sections) -> S \cup {e}]
    BY <2>1
  <2> QED BY <2>1, <2>2, SeqDef
<1>4. sections' = Append(sections, e) /\ e.id = n.id /\ e.index = n.index
  BY DEF Section
<1> HIDE DEF e
<1>5. /\ Len(sections) \in Nat /\ Len(sections') = Len(sections) + 1
      /\ DOMAIN sections = 1 .. Len(sections)
      /\ DOMAIN sections' = 1 .. Len(sections) + 1
      /\ \A i \in 1 .. Len(sections) : sections'[i] = sections[i]
      /\ sections'[Len(sections) + 1] = e
  BY <1>3, <1>4, AppendProperties, LenProperties
<1> HIDE DEF n
<1>6. collected' \ left' = (collected \ left) \cup {n} /\ n \notin collected \ left
  BY <1>1 DEF n
<1>7. IsFiniteSet(collected \ left)
  BY FS_Subset DEF RoundsInv
<1>8. Cardinality(collected' \ left') = Cardinality(collected \ left) + 1
  BY <1>6, <1>7, FS_AddElement
<1>9. ASSUME NEW c \in collected' \ left'
      PROVE \E k \in DOMAIN sections' : sections'[k].id = c.id /\ sections'[k].index = c.index
  <2>1. CASE c = n
    BY <1>4, <1>5, <2>1
  <2>2. CASE c \in collected \ left
    <3>1. PICK k \in DOMAIN sections : sections[k].id = c.id /\ sections[k].index = c.index
      BY <2>2 DEF RoundsInv, SecondRoundOK
    <3>2. k \in DOMAIN sections' /\ sections'[k] = sections[k]
      BY <1>5
    <3> QED BY <3>1, <3>2
  <2> QED BY <1>6, <1>9, <2>1, <2>2
<1>10. SecondRoundOK'
  BY <1>5, <1>8, <1>9 DEF RoundsInv, SecondRoundOK
<1>11. ListOK' /\ FirstRoundOK'
  BY DEF RoundsInv, ListOK, FirstRoundOK
<1> QED BY <1>10, <1>11 DEF RoundsInv

\* Nothing is listed at the start.
LEMMA RoundsInit == Init => RoundsInv
BY FS_EmptySet DEF Init, RoundsInv, Collecting, Dumping

\* Every step keeps the rounds in order.
LEMMA RoundsStep == DumpInv /\ OrderInv /\ RoundsInv /\ [Next]_vars => RoundsInv'
<1> SUFFICES ASSUME DumpInv, OrderInv, RoundsInv, [Next]_vars PROVE RoundsInv'
  OBVIOUS
<1> USE DEF gameVars, keyVars, dumpVars
<1>0. /\ Len(ids) \in Nat /\ DOMAIN ids = 1 .. Len(ids)
      /\ pos \in 1 .. Len(ids) + 1
  BY LenProperties DEF DumpInv, VisitOK, TypeOK
<1>1. ASSUME NEW t \in Threads, NEW l \in Locks, Acquire(t, l) \/ Release(t, l)
      PROVE RoundsInv'
  BY <1>1, RoundsAlone DEF Acquire, Release, Collecting, Dumping
<1>2. ASSUME NEW t \in Threads, Exit(t) PROVE RoundsInv'
  BY <1>2, RoundsAlone DEF Exit, Collecting, Dumping
<1>3. CASE Press \/ LetGo
  BY <1>3, RoundsAlone DEF Press, LetGo, Collecting, Dumping
<1>4. CASE PollPressed \/ PollReleased
  BY <1>4, RoundsAlone DEF PollPressed, PollReleased, Collecting, Dumping
<1>5. CASE Enumerate
  <2> DEFINE L == live \cup {Monitor}
  <2>1. ids' \in Orders(L)
    BY <1>5 DEF Enumerate
  <2>2. ListOK'
    BY <2>1 DEF Orders, ListOK
  <2>3. FirstRoundOK'
    BY <1>5 DEF Enumerate, FirstRoundOK
  <2>4. IsFiniteSet(collected') /\ ~Dumping'
    BY <1>5, FS_EmptySet DEF Enumerate, Dumping
  <2> QED BY <2>2, <2>3, <2>4 DEF RoundsInv
<1>6. CASE SuspendTarget
  BY <1>6, RoundsAlone DEF SuspendTarget, Collecting, Dumping
<1>7. CASE Got
  <2>1. mon \in {"collect wait", "dump wait"}
    BY <1>7 DEF Got, DumpInv, VisitOK
  <2> QED BY <1>7, <2>1, RoundsAlone DEF Got, Collecting, Dumping
<1>8. CASE Collected
  <2>1. PICK p \in Priorities :
          collected' = collected \cup {[id |-> ids[pos], index |-> pos, priority |-> p]}
    BY <1>8 DEF Collected
  <2> DEFINE new == [id |-> ids[pos], index |-> pos, priority |-> p]
  <2>2. /\ Collecting /\ pos' = pos + 1 /\ mon' = "collect"
        /\ UNCHANGED <<ids, skipped>>
    BY <1>8 DEF Collected, Collecting
  <2>3. pos \in 1 .. Len(ids) /\ ids[pos] \in Threads
    <3>1. visiting # None /\ mon \in {"collect", "collect end"}
      BY <1>8 DEF Collected, InVisit
    <3>2. pos <= Len(ids) /\ ids[pos] = visiting /\ visiting \in Threads
      BY <3>1 DEF DumpInv, VisitOK, TypeOK
    <3> QED BY <1>0, <3>2
  <2>4. ids[pos] \notin skipped \cup {Monitor}
    <3>1. ids[pos] # Monitor
      BY <2>3, DumpAssumption
    <3>2. ASSUME ids[pos] \in skipped PROVE FALSE
      <4>1. PICK i \in 1 .. pos - 1 : ids[i] = ids[pos]
        BY <2>2, <3>2 DEF RoundsInv, FirstRoundOK
      <4>2. i \in DOMAIN ids /\ pos \in DOMAIN ids /\ i # pos
        BY <1>0, <2>3
      <4> QED BY <2>2, <4>1, <4>2 DEF RoundsInv, ListOK
    <3> QED BY <3>1, <3>2
  <2>5. IsFiniteSet(collected')
    BY <2>1, FS_AddElement DEF RoundsInv
  <2>6. new.index = pos /\ new.id = ids[pos] /\ collected' = collected \cup {new}
    BY <2>1
  <2> HIDE DEF new
  <2>7. FirstRoundOK'
    <3>0. FirstRoundOK /\ 1 .. pos' - 1 = 1 .. pos /\ pos \in Nat
      BY <1>0, <2>2 DEF RoundsInv
    <3>1. skipped' \subseteq {ids'[i] : i \in 1 .. pos' - 1}
      BY <1>0, <2>2, <3>0 DEF FirstRoundOK
    <3>2. ASSUME NEW c \in collected'
          PROVE /\ c.index \in 1 .. pos' - 1
                /\ ids'[c.index] = c.id
                /\ c.id \notin skipped' \cup {Monitor}
      <4>1. CASE c = new
        BY <2>2, <2>3, <2>4, <2>6, <3>0, <4>1
      <4>2. CASE c \in collected
        BY <2>2, <3>0, <4>2 DEF FirstRoundOK
      <4> QED BY <2>6, <4>1, <4>2
    <3>3. ASSUME NEW i \in 1 .. pos' - 1
          PROVE \/ ids'[i] \in skipped' \cup {Monitor}
                \/ \E c \in collected' : c.index = i
      <4>1. CASE i = pos
        BY <2>6, <4>1
      <4>2. CASE i # pos
        <5>1. i \in 1 .. pos
          BY <3>0
        <5>2. pos \in Nat
          BY <3>0
        <5>3. i \in 1 .. pos - 1
          BY <5>1, <5>2, <4>2
        <5> QED BY <2>2, <2>6, <3>0, <5>3 DEF FirstRoundOK
      <4> QED BY <4>1, <4>2
    <3> QED BY <3>1, <3>2, <3>3 DEF FirstRoundOK
  <2>8. ListOK' /\ ~Dumping'
    BY <2>2 DEF RoundsInv, ListOK, Dumping
  <2> QED BY <2>5, <2>7, <2>8 DEF RoundsInv
<1>9. CASE SkipTarget
  <2>1. /\ Collecting /\ pos' = pos + 1 /\ mon' = "collect" /\ pos <= Len(ids)
        /\ UNCHANGED <<ids, collected>>
        /\ skipped' = IF ids[pos] = Monitor THEN skipped ELSE skipped \cup {ids[pos]}
    BY <1>9 DEF SkipTarget, Collecting
  <2>2. ListOK /\ FirstRoundOK /\ 1 .. pos' - 1 = 1 .. pos /\ pos \in 1 .. Len(ids)
    BY <1>0, <2>1 DEF RoundsInv
  <2>3. FirstRoundOK'
    <3>1. skipped' \subseteq {ids'[i] : i \in 1 .. pos' - 1}
      BY <1>0, <2>1, <2>2 DEF FirstRoundOK
    <3>2. ASSUME NEW c \in collected'
          PROVE /\ c.index \in 1 .. pos' - 1
                /\ ids'[c.index] = c.id
                /\ c.id \notin skipped' \cup {Monitor}
      <4>1. /\ c.index \in 1 .. pos - 1 /\ ids[c.index] = c.id
            /\ c.id \notin skipped \cup {Monitor}
        BY <2>1, <2>2 DEF FirstRoundOK
      <4>2. c.index \in DOMAIN ids /\ pos \in DOMAIN ids /\ c.index # pos
        BY <1>0, <2>2, <4>1
      <4>3. ids[c.index] # ids[pos]
        BY <2>2, <4>2 DEF ListOK
      <4> QED BY <1>0, <2>1, <2>2, <4>1, <4>3
    <3>3. ASSUME NEW i \in 1 .. pos' - 1
          PROVE \/ ids'[i] \in skipped' \cup {Monitor}
                \/ \E c \in collected' : c.index = i
      <4>1. i \in 1 .. pos
        BY <2>2
      <4> QED BY <2>1, <2>2, <4>1 DEF FirstRoundOK
    <3> QED BY <3>1, <3>2, <3>3 DEF FirstRoundOK
  <2>4. ListOK' /\ ~Dumping' /\ IsFiniteSet(collected')
    BY <2>1 DEF RoundsInv, ListOK, Dumping
  <2> QED BY <2>3, <2>4 DEF RoundsInv
<1>10. CASE SortThreads
  <2>1. /\ UNCHANGED <<ids, pos, collected, sections, skipped>>
        /\ left' = collected /\ pos > Len(ids) /\ Collecting
    BY <1>10 DEF SortThreads, Collecting
  <2>2. sections = <<>> /\ Len(sections) = 0
    BY <2>1, EmptySeq DEF OrderInv, OrderOK
  <2>3. collected' \ left' = {}
    BY <2>1
  <2>4. SecondRoundOK'
    BY <1>0, <2>1, <2>2, <2>3, FS_EmptySet DEF SecondRoundOK
  <2>5. ListOK' /\ FirstRoundOK' /\ IsFiniteSet(collected')
    BY <2>1 DEF RoundsInv, ListOK, FirstRoundOK
  <2> QED BY <2>4, <2>5 DEF RoundsInv
<1>11. CASE Dumped \/ NotDumped
  <2>1. PICK state \in {"dumped", "failed"} : sections' = Section(NextSection, state)
    BY <1>11 DEF Dumped, NotDumped
  <2>2. /\ left' = left \ {NextSection} /\ mon' = "dump" /\ Dumping
        /\ UNCHANGED <<ids, pos, collected, skipped>>
    BY <1>11 DEF Dumped, NotDumped, Dumping
  <2>3. left # {}
    BY <1>11, <2>2 DEF OrderInv, VisitLeft, Dumped, NotDumped, InVisit
  <2> QED BY <2>1, <2>2, <2>3, SectionOfNext
<1>12. CASE FinishDump
  BY <1>12 DEF FinishDump, RoundsInv, Collecting, Dumping
<1>13. CASE GiveUp
  BY <1>13, RoundsAlone DEF GiveUp, Collecting, Dumping
<1>14. ASSUME NEW l \in Locks, Need(l) PROVE RoundsInv'
  BY <1>14, RoundsAlone DEF Need, Collecting, Dumping
<1>15. CASE UNCHANGED vars
  BY <1>15, RoundsAlone DEF vars, Collecting, Dumping
<1> QED BY <1>1, <1>2, <1>3, <1>4, <1>5, <1>6, <1>7, <1>8, <1>9, <1>10, <1>11,
           <1>12, <1>13, <1>14, <1>15 DEF Next, MonitorStep

\* At the end of the second round the sections are those of the listed threads.
LEMMA RoundsComplete ==
  ASSUME DumpInv, OrderInv, RoundsInv
  PROVE  LogComplete
<1> SUFFICES ASSUME mon = "dump", left = {}
             PROVE LET reported == {i \in DOMAIN ids : ids[i] \notin skipped \cup {Monitor}}
                   IN /\ Len(sections) = Cardinality(reported)
                      /\ \A i \in reported : \E k \in DOMAIN sections :
                           sections[k].id = ids[i] /\ sections[k].index = i
  BY DEF LogComplete
<1> DEFINE R == {i \in DOMAIN ids : ids[i] \notin skipped \cup {Monitor}}
           f == [c \in collected |-> c.index]
<1>1. ListOK /\ FirstRoundOK /\ SecondRoundOK /\ IsFiniteSet(collected)
  BY DEF RoundsInv, Dumping
<1>2. DOMAIN ids = 1 .. pos - 1
  <2>1. Len(ids) \in Nat /\ DOMAIN ids = 1 .. Len(ids) /\ pos = Len(ids) + 1
    BY <1>1, LenProperties DEF DumpInv, VisitOK, SecondRoundOK
  <2> QED BY <2>1
<1>3. \A c \in collected : c.index \in R /\ ids[c.index] = c.id
  BY <1>1, <1>2 DEF FirstRoundOK
<1>4. \A i \in R : \E c \in collected : c.index = i
  BY <1>1, <1>2 DEF FirstRoundOK
<1>5. f \in Bijection(collected, R)
  <2>1. f \in [collected -> R]
    BY <1>3
  <2>2. \A c, d \in collected : f[c] = f[d] => c = d
    BY DEF OrderInv, IndexOK
  <2>3. \A i \in R : \E c \in collected : f[c] = i
    BY <1>4
  <2> HIDE DEF f, R
  <2> QED BY <2>1, <2>2, <2>3 DEF Bijection, Injection, Surjection, IsInjective
<1>6. Cardinality(R) = Cardinality(collected)
  <2> HIDE DEF f, R
  <2>1. ExistsBijection(collected, R)
    BY <1>5 DEF ExistsBijection
  <2> QED BY <1>1, <2>1, FS_Bijection
<1>7. Len(sections) = Cardinality(collected)
  <2>1. collected \ left = collected
    OBVIOUS
  <2> QED BY <1>1, <2>1 DEF SecondRoundOK
<1>8. ASSUME NEW i \in R
      PROVE \E k \in DOMAIN sections : sections[k].id = ids[i] /\ sections[k].index = i
  <2>1. PICK c \in collected : c.index = i /\ ids[i] = c.id
    BY <1>3, <1>4
  <2> QED BY <1>1, <2>1 DEF SecondRoundOK
<1> QED BY <1>6, <1>7, <1>8

\* The log of a dump has exactly one section for every thread that was listed and
\* could be suspended, under its number, for any number of threads.
THEOREM LogIsComplete == Spec => []LogComplete
<1>1. Init => DumpInv /\ OrderInv /\ RoundsInv
  BY DumpInit, OrderInit, RoundsInit
<1>2. DumpInv /\ OrderInv /\ RoundsInv /\ [Next]_vars => DumpInv' /\ OrderInv' /\ RoundsInv'
  BY DumpStep, OrderStep, RoundsStep
<1>3. DumpInv /\ OrderInv /\ RoundsInv => LogComplete
  BY RoundsComplete
<1> QED BY <1>1, <1>2, <1>3, PTL DEF Spec

\* The log of a dump is complete and sorted, for any number of threads.
THEOREM LogIsRight == Spec => []LogRight
<1>1. LogComplete /\ SectionsSorted => LogRight
  BY DEF LogRight
<1>2. QED
  BY <1>1, LogIsComplete, SectionsAreSorted, PTL
=============================================================================
