--------------------------- MODULE RecentRequests ---------------------------
(***************************************************************************)
(* What ModelDemandTracker promises each thread, without slots, indices or *)
(* guards: the newest Capacity requests of the thread are remembered, a    *)
(* request is marked while it is being executed, and a thread that crashes *)
(* is told the ones that are marked or recent, the newest one first        *)
(* (src/Crash/ModelDemandTracker.h).                                       *)
(*                                                                         *)
(* A thread that gets no slot is remembered nothing of; one that crashes   *)
(* as a request is being noted may find the oldest one torn, and one whose *)
(* memory runs out as it is told loses the list.  For the first Capacity   *)
(* requests after every CountMod-th the report starts over.                *)
(***************************************************************************)
EXTENDS Naturals, Sequences

CONSTANTS Threads, Capacity, CountMod, Paths, NoPath, Torn, Window

VARIABLES
  count,  \* thread |-> how many requests of it were noted
  log,    \* thread |-> the newest of these, newest first
  calls,  \* thread |-> its requests being executed, by number; 0 is one not noted
  clock,
  over,   \* the threads that crashed
  told    \* thread |-> the report it took when it crashed

vars == <<count, log, calls, clock, over, told>>

Least(a, b) == IF a < b THEN a ELSE b
First(n, s) == SubSeq(s, 1, Least(n, Len(s)))

Init ==
  /\ count = [t \in Threads |-> 0]
  /\ log = [t \in Threads |-> <<>>]
  /\ calls = [t \in Threads |-> <<>>]
  /\ clock = 0
  /\ over = {}
  /\ told = [t \in Threads |-> [inFlight |-> FALSE, requests |-> <<>>, whole |-> TRUE]]

Note(t, path) ==
  /\ t \notin over /\ UNCHANGED <<clock, over>>
  /\ calls' = [calls EXCEPT ![t] = Append(@, count[t] + 1)]
  /\ count' = [count EXCEPT ![t] = @ + 1]
  /\ log' = [log EXCEPT ![t] =
               First(Capacity, <<[path |-> path, ticks |-> clock, active |-> TRUE]>> \o @)]
  /\ UNCHANGED told

Ignore(t) ==
  /\ t \notin over /\ UNCHANGED <<clock, over>>
  /\ calls' = [calls EXCEPT ![t] = Append(@, 0)]
  /\ UNCHANGED <<count, log, told>>

\* The innermost request returns or is unwound.  Its own marker goes and no
\* other, even when it is no longer remembered.
Leave(t) ==
  LET number == calls[t][Len(calls[t])]
      place == count[t] + 1 - number
  IN
  /\ t \notin over /\ UNCHANGED <<clock, over>>
  /\ calls[t] # <<>>
  /\ calls' = [calls EXCEPT ![t] = SubSeq(@, 1, Len(@) - 1)]
  /\ log' = IF number # 0 /\ place <= Len(log[t])
              THEN [log EXCEPT ![t][place].active = FALSE] ELSE log
  /\ UNCHANGED <<count, told>>

Relevant(entry) == entry.active \/ clock - entry.ticks <= Window

ReportOf(entries) ==
  [inFlight |-> \E i \in DOMAIN entries : entries[i].active,
   requests |-> [i \in {j \in DOMAIN entries : Relevant(entries[j])} |-> entries[i]],
   whole |-> TRUE]

\* All of a report, or only whether something is in flight, if that was read before the
\* memory ran out.
Cut(r) == {r} \cup {[inFlight |-> b, requests |-> <<>>, whole |-> FALSE] : b \in {FALSE, r.inFlight}}

Crash(t) == t \notin over /\ over' = over \cup {t} /\ UNCHANGED <<calls, clock, count>>

Report(t) ==
  /\ Crash(t)
  /\ UNCHANGED log
  /\ \E r \in Cut(ReportOf(First(count[t] % CountMod, log[t]))) : told' = [told EXCEPT ![t] = r]

ReportTorn(t) ==
  /\ Crash(t)
  /\ log' = IF Len(log[t]) = Capacity THEN [log EXCEPT ![t][Capacity].path = Torn] ELSE log
  /\ \E r \in Cut(ReportOf(First(count[t] % CountMod, log'[t]))) : told' = [told EXCEPT ![t] = r]

Tick == clock' = clock + 1 /\ UNCHANGED <<count, log, calls, over, told>>

Next ==
  \/ Tick
  \/ \E t \in Threads :
       \/ Report(t)
       \/ ReportTorn(t)
       \/ Ignore(t)
       \/ Leave(t)
       \/ \E path \in Paths : Note(t, path)

Spec == Init /\ [][Next]_vars
=============================================================================
