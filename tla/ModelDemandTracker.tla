------------------------- MODULE ModelDemandTracker -------------------------
(***************************************************************************)
(* The per-thread record of model requests that the hook on                *)
(* BSModelDB::Demand() keeps, and the report the crash handler takes of it *)
(* on the faulting thread (src/Crash/ModelDemandTracker.cpp).              *)
(*                                                                         *)
(* A pool of slots is shared by all threads.  A thread claims a slot with  *)
(* one compare-and-swap and then is the only writer of its ring of the     *)
(* last Capacity requests.  Requests nest: the original Demand() may       *)
(* request further models, return, or throw.                               *)
(*                                                                         *)
(* Only the owner of a slot reads or writes its ring, so the instructions  *)
(* that fill an entry are one step, Record.  The step that can fail half   *)
(* way, copying a path from a bad pointer, is FaultInCopy.                 *)
(***************************************************************************)
EXTENDS Naturals, Sequences

CONSTANTS
  Threads,    \* ids of the live threads
  NoThread,   \* ownerThreadId 0: slot not claimed
  NumSlots,   \* kNumSlots
  Capacity,   \* Slot::kCapacity
  HeadMod,    \* 2^32: head is a uint32
  Paths,      \* model paths
  NoPath,     \* a null or empty path, and the content of a fresh entry
  Torn,       \* a path buffer that strncpy left half written
  Window,     \* kRecentWindowMs
  MaxTime,    \* bound: ticks of the clock
  Short,      \* bound: the threads whose report may run out of memory
  MaxDepth,   \* bound: thread |-> its nested requests
  MaxCalls    \* bound: thread |-> requests recorded in its slot

ASSUME TrackerAssumption ==
  /\ NoThread \notin Threads
  /\ NoPath \notin Paths
  /\ Torn \notin Paths \cup {NoPath}
  /\ NumSlots \in Nat \ {0}
  /\ Capacity \in Nat \ {0}
  /\ HeadMod \in Nat \ {0}
  /\ HeadMod % Capacity = 0
  /\ Window \in Nat
  /\ MaxTime \in Nat
  /\ Short \subseteq Threads
  /\ MaxDepth \in [Threads -> Nat]
  /\ MaxCalls \in [Threads -> Nat]

VARIABLES
  owner,      \* slot |-> thread that claimed it
  head,       \* slot |-> number of requests recorded, modulo HeadMod
  ring,       \* slot |-> index |-> entry
  pc,         \* thread |-> where it is in the hook
  call,       \* thread |-> the request it is about to record
  stack,      \* thread |-> its calls that are inside the original Demand()
  now,        \* QueryPerformanceCounter
  report,     \* thread |-> the report taken when it crashed
  recorded    \* history: slot |-> number of requests recorded, not wrapped

slotVars == <<owner, head, ring, recorded>>
vars == <<owner, head, ring, pc, call, stack, now, report, recorded>>

Slots == 1 .. NumSlots
Indices == 0 .. Capacity - 1

Entry == [path : Paths \cup {NoPath, Torn}, ticks : Nat, active : BOOLEAN]

\* slot 0 stands for the null pointer: a request that is not tracked.  seq is
\* the position of the request in the order of its slot's records.
Frame == [path : Paths \cup {NoPath}, slot : 0 .. NumSlots, index : Indices, seq : Nat]
Call == [path : Paths \cup {NoPath}, slot : 0 .. NumSlots]
Untracked(path) == [path |-> path, slot |-> 0, index |-> 0, seq |-> 0]

\* whole is history: get_report did not run out of memory.
NoReport == [inFlight |-> FALSE, requests |-> <<>>, whole |-> TRUE]

Init ==
  /\ owner = [s \in Slots |-> NoThread]
  /\ head = [s \in Slots |-> 0]
  /\ ring = [s \in Slots |-> [i \in Indices |->
                [path |-> NoPath, ticks |-> 0, active |-> FALSE]]]
  /\ pc = [t \in Threads |-> "run"]
  /\ call = [t \in Threads |-> [path |-> NoPath, slot |-> 0]]
  /\ stack = [t \in Threads |-> <<>>]
  /\ now = 0
  /\ report = [t \in Threads |-> NoReport]
  /\ recorded = [s \in Slots |-> 0]

-----------------------------------------------------------------------------
(* HookedDemand and FindOrClaimSlot                                         *)

Top(t) == stack[t][Len(stack[t])]
Pop(t) == SubSeq(stack[t], 1, Len(stack[t]) - 1)

\* A request without a path goes straight to the original.
DemandNoPath(t) ==
  /\ pc[t] = "run"
  /\ Len(stack[t]) < MaxDepth[t]
  /\ stack' = [stack EXCEPT ![t] = Append(@, Untracked(NoPath))]
  /\ UNCHANGED <<slotVars, pc, call, now, report>>

Demand(t, path) ==
  /\ pc[t] = "run"
  /\ Len(stack[t]) < MaxDepth[t]
  /\ pc' = [pc EXCEPT ![t] = "find"]
  /\ call' = [call EXCEPT ![t] = [path |-> path, slot |-> 0]]
  /\ UNCHANGED <<slotVars, stack, now, report>>

\* Defect: the first loop is left out.
FindSlot_AlwaysClaims(t) ==
  /\ pc[t] = "find"
  /\ call' = [call EXCEPT ![t].slot = 1]
  /\ pc' = [pc EXCEPT ![t] = "claim"]
  /\ UNCHANGED <<slotVars, stack, now, report>>

\* The first loop of FindOrClaimSlot: no other thread stores this id, so what
\* it sees does not depend on what the others claim meanwhile.
FindSlot(t) ==
  /\ pc[t] = "find"
  /\ \/ \E s \in Slots :
          /\ owner[s] = t
          /\ \A r \in Slots : r < s => owner[r] # t
          /\ call' = [call EXCEPT ![t].slot = s]
          /\ pc' = [pc EXCEPT ![t] = "record"]
     \/ /\ \A s \in Slots : owner[s] # t
        /\ call' = [call EXCEPT ![t].slot = 1]
        /\ pc' = [pc EXCEPT ![t] = "claim"]
  /\ UNCHANGED <<slotVars, stack, now, report>>

\* Defect: a store in place of the compare-and-swap, after a test made earlier.
ClaimSlot_Store(t) ==
  LET s == call[t].slot IN
  /\ pc[t] = "claim"
  /\ owner' = [owner EXCEPT ![s] = t]
  /\ pc' = [pc EXCEPT ![t] = "record"]
  /\ UNCHANGED <<head, ring, recorded, call, stack, now, report>>

\* The second loop: one compare-and-swap per step.
ClaimSlot(t) ==
  LET s == call[t].slot IN
  /\ pc[t] = "claim"
  /\ owner[s] = NoThread
  /\ owner' = [owner EXCEPT ![s] = t]
  /\ pc' = [pc EXCEPT ![t] = "record"]
  /\ UNCHANGED <<head, ring, recorded, call, stack, now, report>>

\* Defect: the loop runs one slot past the end of the pool.
SkipSlot_PastEnd(t) ==
  /\ pc[t] = "claim"
  /\ owner[call[t].slot] # NoThread
  /\ call[t].slot <= NumSlots
  /\ call' = [call EXCEPT ![t].slot = @ + 1]
  /\ UNCHANGED <<slotVars, pc, stack, now, report>>

SkipSlot(t) ==
  /\ pc[t] = "claim"
  /\ owner[call[t].slot] # NoThread
  /\ call[t].slot < NumSlots
  /\ call' = [call EXCEPT ![t].slot = @ + 1]
  /\ UNCHANGED <<slotVars, pc, stack, now, report>>

\* Pool exhausted: the request is dropped, and made all the same.
DropRequest(t) ==
  /\ pc[t] = "claim"
  /\ owner[call[t].slot] # NoThread
  /\ call[t].slot = NumSlots
  /\ stack' = [stack EXCEPT ![t] = Append(@, Untracked(call[t].path))]
  /\ pc' = [pc EXCEPT ![t] = "run"]
  /\ UNCHANGED <<slotVars, call, now, report>>

RecordIndex(s) == head[s] % Capacity

\* The InFlightGuard is constructed after head has moved on, on the entry
\* just filled; then the original runs.
Record(t) ==
  LET s == call[t].slot
      i == RecordIndex(s)
  IN
  /\ pc[t] = "record"
  /\ recorded[s] < MaxCalls[t]
  /\ ring' = [ring EXCEPT ![s][i] =
                [path |-> call[t].path, ticks |-> now, active |-> TRUE]]
  /\ head' = [head EXCEPT ![s] = (@ + 1) % HeadMod]
  /\ recorded' = [recorded EXCEPT ![s] = @ + 1]
  /\ stack' = [stack EXCEPT ![t] = Append(@,
                [path |-> call[t].path, slot |-> s, index |-> i,
                 seq |-> recorded[s] + 1])]
  /\ pc' = [pc EXCEPT ![t] = "run"]
  /\ UNCHANGED <<owner, call, now, report>>

\* Defect: the marker of the newest entry is cleared.
GuardReleased_Newest(t) ==
  IF Top(t).slot = 0 THEN ring
  ELSE [ring EXCEPT ![Top(t).slot][(head[Top(t).slot] - 1) % Capacity].active = FALSE]

\* The ring after the guard of the innermost call is destroyed.
GuardReleased(t) ==
  IF Top(t).slot = 0 THEN ring
  ELSE [ring EXCEPT ![Top(t).slot][Top(t).index].active = FALSE]

Return(t) ==
  /\ pc[t] = "run"
  /\ stack[t] # <<>>
  /\ ring' = GuardReleased(t)
  /\ stack' = [stack EXCEPT ![t] = Pop(t)]
  /\ UNCHANGED <<owner, head, recorded, pc, call, now, report>>

\* The original throws an exception that a frame further out will catch: the
\* calls in between are unwound one by one.  (One that nobody catches reaches
\* the crash handler with the stack still in place: that is Crash.)
Throw(t) ==
  /\ pc[t] = "run"
  /\ stack[t] # <<>>
  /\ pc' = [pc EXCEPT ![t] = "unwind"]
  /\ UNCHANGED <<slotVars, call, stack, now, report>>

\* Defect: the marker is cleared after the call, not by a destructor.
Unwind_KeepsMarker(t) ==
  /\ pc[t] = "unwind"
  /\ stack' = [stack EXCEPT ![t] = Pop(t)]
  /\ \/ pc' = [pc EXCEPT ![t] = "run"]
     \/ Len(stack[t]) > 1 /\ UNCHANGED pc
  /\ UNCHANGED <<slotVars, call, now, report>>

Unwind(t) ==
  /\ pc[t] = "unwind"
  /\ ring' = GuardReleased(t)
  /\ stack' = [stack EXCEPT ![t] = Pop(t)]
  /\ \/ pc' = [pc EXCEPT ![t] = "run"]
     \/ Len(stack[t]) > 1 /\ UNCHANGED pc
  /\ UNCHANGED <<owner, head, recorded, call, now, report>>

-----------------------------------------------------------------------------
(* get_report and select_relevant, on the thread that crashed               *)

MinOf(a, b) == IF a < b THEN a ELSE b

\* Defect: one entry short of a full ring.
EntriesOf_OneShort(s, entries) ==
  [i \in 1 .. MinOf(head[s], Capacity - 1) |-> entries[(head[s] - i) % Capacity]]

\* Entries newest first: (head - 1 - i) % kCapacity for i = 0, 1, ...
EntriesOf(s, entries) ==
  [i \in 1 .. MinOf(head[s], Capacity) |-> entries[(head[s] - i) % Capacity]]

Relevant(entry) == entry.active \/ now - entry.ticks <= Window

\* The requests a report lists, under their places among the entries: the code
\* walks the places upwards and keeps the relevant ones.
RequestsOf(entries) == [i \in {j \in DOMAIN entries : Relevant(entries[j])} |-> entries[i]]

ReportOf(s, entries) ==
  [inFlight |-> \E i \in DOMAIN EntriesOf(s, entries) : EntriesOf(s, entries)[i].active,
   requests |-> RequestsOf(EntriesOf(s, entries)),
   whole |-> TRUE]

\* The report of thread t when its slot's ring is as in newRing.
CrashReport(t, newRing) ==
  IF \E s \in Slots : owner[s] = t
    THEN LET s == CHOOSE r \in Slots :
                    owner[r] = t /\ \A q \in Slots : q < r => owner[q] # t
         IN ReportOf(s, newRing[s])
    ELSE NoReport

\* If the memory runs out there are no requests, and what is in flight was read before
\* that or not.
Told(t, newRing) ==
  LET r == CrashReport(t, newRing) IN
  {r} \cup {[inFlight |-> b, requests |-> <<>>, whole |-> FALSE] :
              b \in {c \in {FALSE, r.inFlight} : t \in Short /\ \E s \in Slots : owner[s] = t}}

\* A fault in the engine, at any depth, or while it unwinds.
Crash(t) ==
  /\ pc[t] \in {"run", "unwind"}
  /\ pc' = [pc EXCEPT ![t] = "crashed"]
  /\ \E r \in Told(t, ring) : report' = [report EXCEPT ![t] = r]
  /\ UNCHANGED <<slotVars, call, stack, now>>

\* strncpy faults on a path that runs into unreadable memory: the oldest entry
\* is left half overwritten and head has not moved.
FaultInCopy(t) ==
  LET s == call[t].slot IN
  /\ pc[t] = "record"
  /\ ring' = [ring EXCEPT ![s][RecordIndex(s)].path = Torn]
  /\ pc' = [pc EXCEPT ![t] = "crashed"]
  /\ \E r \in Told(t, ring') : report' = [report EXCEPT ![t] = r]
  /\ UNCHANGED <<owner, head, recorded, call, stack, now>>

Tick ==
  /\ now < MaxTime
  /\ now' = now + 1
  /\ UNCHANGED <<slotVars, pc, call, stack, report>>

Next ==
  \/ \E t \in Threads :
       \/ DemandNoPath(t)
       \/ \E path \in Paths : Demand(t, path)
       \/ FindSlot(t)
       \/ ClaimSlot(t)
       \/ SkipSlot(t)
       \/ DropRequest(t)
       \/ Record(t)
       \/ Return(t)
       \/ Throw(t)
       \/ Unwind(t)
       \/ Crash(t)
       \/ FaultInCopy(t)
  \/ Tick

Spec == Init /\ [][Next]_vars

-----------------------------------------------------------------------------
(* Properties                                                               *)

\* Every variable holds a value of the kind the code gives it; in particular
\* a thread that records or claims has a slot to do it in.
TypeOK ==
  /\ owner \in [Slots -> Threads \cup {NoThread}]
  /\ head \in [Slots -> 0 .. HeadMod - 1]
  /\ ring \in [Slots -> [Indices -> Entry]]
  /\ pc \in [Threads -> {"run", "find", "claim", "record", "unwind", "crashed"}]
  /\ call \in [Threads -> Call]
  /\ \A t \in Threads : pc[t] \in {"claim", "record"} => call[t].slot \in Slots
  /\ stack \in [Threads -> Seq(Frame)]
  /\ \A t \in Threads : pc[t] = "unwind" => stack[t] # <<>>
  /\ now \in Nat
  /\ recorded \in [Slots -> Nat]

Tracked(t) == {k \in DOMAIN stack[t] : stack[t][k].slot # 0}

\* No thread ever owns two slots, whatever the order in which threads race for
\* them: get_report looks at the first one only, so requests recorded in a
\* second one would be lost.
OneSlotPerThread ==
  \A r, s \in Slots : owner[r] = owner[s] /\ owner[r] # NoThread => r = s

\* Only its owner writes a slot: what a call inside Demand() will clear when
\* it leaves, and what a thread is about to fill, belongs to that thread.
WritesOwnSlotOnly ==
  \A t \in Threads :
    /\ pc[t] = "record" => owner[call[t].slot] = t
    /\ \A k \in Tracked(t) : owner[stack[t][k].slot] = t

\* A request with a path goes untracked only when every slot is taken by some
\* other thread, and then that thread never gets one ("pool exhausted: drop
\* rather than block or allocate"); a thread that is still searching has missed
\* no free slot, whatever the others took meanwhile.
DropOnlyWhenFull ==
  \A t \in Threads :
    /\ (\E k \in DOMAIN stack[t] : stack[t][k].slot = 0 /\ stack[t][k].path # NoPath)
         => \A s \in Slots : owner[s] \notin {t, NoThread}
    /\ pc[t] = "claim"
         => \A s \in Slots : owner[s] # t /\ (s < call[t].slot => owner[s] # NoThread)

\* "A handled exception leaves no false in-flight marker": an entry marked
\* active is the entry of a call that its owner is still inside.
NoFalseInFlight ==
  \A s \in Slots, i \in Indices :
    ring[s][i].active =>
      \E t \in Threads : owner[s] = t
        /\ \E k \in Tracked(t) : stack[t][k].slot = s /\ stack[t][k].index = i

\* Calls of one thread that are still within the last Capacity requests of its
\* slot are marked in flight under their own path, unless the entry is being
\* overwritten by a faulting copy.
RecentInFlightKept ==
  \A t \in Threads : \A k \in Tracked(t) :
    LET f == stack[t][k] IN
    recorded[f.slot] - f.seq < Capacity =>
      /\ ring[f.slot][f.index].active
      /\ ring[f.slot][f.index].path \in {f.path, Torn}

\* What the crash report is for: when a thread dies inside Demand(), its report
\* lists as in flight each request it is inside, as long as fewer than
\* Capacity requests followed it, head has not wrapped around and there is memory.
RecentInFlightReported ==
  \A t \in Threads : pc[t] = "crashed" /\ report[t].whole =>
    \A k \in Tracked(t) :
      LET f == stack[t][k] IN
      recorded[f.slot] - f.seq < Capacity /\ recorded[f.slot] < HeadMod =>
        /\ report[t].inFlight
        /\ \E j \in DOMAIN report[t].requests :
             report[t].requests[j].active /\ report[t].requests[j].path \in {f.path, Torn}

\* "requests; // newest first": across any number of laps of the ring, and of
\* head itself, the times in a report never increase.
ReportNewestFirst ==
  \A t \in Threads : \A j, k \in DOMAIN report[t].requests :
    j < k => report[t].requests[k].ticks <= report[t].requests[j].ticks

\* A slot once claimed keeps its owner: the other threads never see it change
\* hands, which is what lets the ring be written without a lock.
OwnershipStable ==
  [][\A s \in Slots : owner[s] # NoThread => owner'[s] = owner[s]]_vars

\* No race gives a thread two slots or another one's, and none leaves it
\* without one while any is free.
SlotsRight == OneSlotPerThread /\ WritesOwnSlotOnly /\ DropOnlyWhenFull

\* The newest requests a thread is inside are marked, and reported, and the
\* report is in the order it claims.
RecentInFlight == RecentInFlightKept /\ RecentInFlightReported /\ ReportNewestFirst

\* The requests of a thread, without the slot they are kept in.
SlotsOf(t) == {s \in Slots : owner[s] = t}
RecordedOf(t) == LET own == SlotsOf(t) IN IF own = {} THEN 0 ELSE recorded[CHOOSE s \in own : TRUE]
Remembered(t) ==
  LET slot == CHOOSE s \in SlotsOf(t) : TRUE
      n == RecordedOf(t)
  IN [i \in 1 .. MinOf(n, Capacity) |-> ring[slot][(n - i) % Capacity]]

Recent == INSTANCE RecentRequests WITH
  CountMod <- HeadMod,
  count <- [t \in Threads |-> RecordedOf(t)],
  log <- [t \in Threads |-> Remembered(t)],
  calls <- [t \in Threads |-> [k \in DOMAIN stack[t] |-> stack[t][k].seq]],
  clock <- now,
  over <- {t \in Threads : pc[t] = "crashed"},
  told <- report

\* Threads race for slots, the ring and its counter wrap, and a guard may leave
\* when its entry holds a later request: none of this shows.  Each thread sees
\* the list of its own newest requests that RecentRequests describes.
RefinesRecentRequests == Recent!Spec
=============================================================================
