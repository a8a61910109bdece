-------------------------- MODULE ModelPathLookup --------------------------
(***************************************************************************)
(* ModelPathLookup.cpp: every construction of a BSResource::ID leaves its  *)
(* id and its path in a ring of records that all threads share without a   *)
(* lock, and the crash handler searches the stack of the faulting thread   *)
(* for these ids, while the other threads go on recording.                 *)
(*                                                                         *)
(* An id stands for the path it was made from.  A record holds an id and   *)
(* the two halves of a path, because the copy of a path is not atomic; the *)
(* bytes of a path and the 12 bytes of an id are not looked into.          *)
(***************************************************************************)
EXTENDS Naturals, Sequences, FiniteSets

CONSTANTS
  Recorders,    \* threads that construct ids while the report is made
  Ids,          \* resource ids, each for the path it stands for
  Capacity,     \* kCapacity
  MaxHits,      \* a_limit
  StackSize,    \* length of the stack that is scanned
  MaxClaims     \* bound of the model: records claimed in a behaviour

ASSUME CapacityAssumption == Capacity \in Nat \ {0}
ASSUME LimitsAssumption == MaxHits \in Nat /\ StackSize \in Nat /\ MaxClaims \in Nat

VARIABLES
  records,      \* g_records
  next,         \* g_next
  recorder,     \* per thread: the record it holds, the id and the step it is at
  stack,        \* per quadword: the ids that are read in place or through it
  byId,         \* byId: the record of an id
  search,       \* the steps of FindPathsOnStack
  hits,         \* hits
  touched       \* history: records written after the search had read their id,
                \* and records that two threads held at once

pathVars == <<records, next, recorder, stack, byId, search, hits, touched>>

NoId == "none"
ASSUME IdsAssumption == NoId \notin Ids

Nowhere == Capacity
Records == 0 .. Capacity - 1
Whole(id) == <<id, id>>
Record == [id : Ids \cup {NoId}, path : (Ids \cup {NoId}) \X (Ids \cup {NoId})]
Idle == [at |-> "idle", record |-> Nowhere, id |-> NoId]
Starting == [at |-> "map", i |-> 0, found |-> Nowhere, id |-> NoId, half |-> NoId]

PathInit ==
  /\ records = [r \in Records |-> [id |-> NoId, path |-> Whole(NoId)]]
  /\ next = 0
  /\ recorder = [t \in Recorders |-> Idle]
  /\ stack \in [1 .. StackSize -> [here : Ids \cup {NoId}, behind : Ids \cup {NoId}]]
  /\ byId = [id \in Ids |-> Nowhere]
  /\ search = [Starting EXCEPT !.at = "none"]
  /\ hits = <<>>
  /\ touched = {}

-----------------------------------------------------------------------------
(* HookedIdCtor, one step for every write that another thread can see.     *)

Claim(t) == \E id \in Ids :
  LET r == next % Capacity IN
  /\ recorder[t] = Idle /\ next < MaxClaims
  /\ next' = next + 1
  /\ recorder' = [recorder EXCEPT ![t] = [at |-> "clear", record |-> r, id |-> id]]
  /\ touched' = IF \E u \in Recorders : recorder[u].record = r THEN touched \cup {r} ELSE touched
  /\ UNCHANGED <<records, stack, byId, search, hits>>

Mapped(r) == search.at \in {"here", "behind"} \/ (search.at = "map" /\ r < search.i)

\* Defect: the id of the record stays while the path is copied.
Clear_Skipped(t) ==
  /\ recorder[t].at = "clear"
  /\ recorder' = [recorder EXCEPT ![t].at = "copy"]
  /\ UNCHANGED <<records, next, stack, byId, search, hits, touched>>

Clear(t) ==
  LET r == recorder[t].record IN
  /\ recorder[t].at = "clear"
  /\ records' = [records EXCEPT ![r].id = NoId]
  /\ recorder' = [recorder EXCEPT ![t].at = "copy"]
  /\ touched' = IF Mapped(r) THEN touched \cup {r} ELSE touched
  /\ UNCHANGED <<next, stack, byId, search, hits>>

CopyPath(t) == \E half \in 1 .. 2 :
  LET r == recorder[t].record IN
  /\ recorder[t].at = (IF half = 1 THEN "copy" ELSE "copied")
  /\ records' = [records EXCEPT ![r].path[half] = recorder[t].id]
  /\ recorder' = [recorder EXCEPT ![t].at = IF half = 1 THEN "copied" ELSE "store"]
  /\ UNCHANGED <<next, stack, byId, search, hits, touched>>

StoreId(t) ==
  LET r == recorder[t].record IN
  /\ recorder[t].at = "store"
  /\ records' = [records EXCEPT ![r].id = recorder[t].id]
  /\ recorder' = [recorder EXCEPT ![t] = Idle]
  /\ touched' = IF Mapped(r) THEN touched \cup {r} ELSE touched
  /\ UNCHANGED <<next, stack, byId, search, hits>>

-----------------------------------------------------------------------------
(* FindPathsOnStack on the faulting thread.                                *)

Search ==
  /\ search.at = "none"
  /\ search' = Starting
  /\ UNCHANGED <<records, next, recorder, stack, byId, hits, touched>>

\* The last record of an id in the order of the array is the one that is kept.
MapRecord ==
  /\ search.at = "map" /\ search.i < Capacity
  /\ search' = [search EXCEPT !.i = @ + 1]
  /\ byId' = IF records[search.i].id = NoId THEN byId
             ELSE [byId EXCEPT ![records[search.i].id] = search.i]
  /\ UNCHANGED <<records, next, recorder, stack, hits, touched>>

MapBuilt ==
  /\ search.at = "map" /\ search.i = Capacity
  /\ search' = [search EXCEPT !.at = "here", !.i = 1]
  /\ UNCHANGED <<records, next, recorder, stack, byId, hits, touched>>

\* What the quadword holds, or what it points to; a read that faults finds nothing.
IdAt == IF search.at = "here" THEN stack[search.i].here ELSE stack[search.i].behind

NextRead == IF search.at = "here"
            THEN [search EXCEPT !.at = "behind", !.found = Nowhere, !.id = NoId, !.half = NoId]
            ELSE [search EXCEPT !.at = "here", !.i = @ + 1, !.found = Nowhere, !.id = NoId, !.half = NoId]

Reading == search.at \in {"here", "behind"} /\ search.i <= StackSize

\* remember: nothing is recorded under this id, or there are hits enough.
PassOver ==
  /\ Reading /\ search.found = Nowhere
  /\ \/ IdAt = NoId
     \/ IdAt # NoId /\ byId[IdAt] = Nowhere
     \/ Len(hits) >= MaxHits
  /\ search' = NextRead
  /\ UNCHANGED <<records, next, recorder, stack, byId, hits, touched>>

\* The first half of the path is copied out of the record, which may have a new owner.
BeginHit ==
  /\ Reading /\ search.found = Nowhere /\ IdAt # NoId
  /\ byId[IdAt] # Nowhere /\ Len(hits) < MaxHits
  /\ search' = [search EXCEPT !.found = byId[IdAt], !.id = IdAt,
                              !.half = records[byId[IdAt]].path[1]]
  /\ UNCHANGED <<records, next, recorder, stack, byId, hits, touched>>

\* The second half, and the path is remembered unless it is known.
EndHit ==
  LET path == <<search.half, records[search.found].path[2]>>
      known == \E k \in 1 .. Len(hits) : hits[k].path = path
      hit == [path |-> path, offset |-> search.i, id |-> search.id, record |-> search.found]
  IN /\ Reading /\ search.found # Nowhere
     /\ hits' = IF known THEN hits ELSE Append(hits, hit)
     /\ search' = NextRead
     /\ UNCHANGED <<records, next, recorder, stack, byId, touched>>

SearchEnded == search.at = "here" /\ search.i = StackSize + 1

PathNext ==
  \/ \E t \in Recorders : Claim(t) \/ Clear(t) \/ CopyPath(t) \/ StoreId(t)
  \/ Search \/ MapRecord \/ MapBuilt \/ PassOver \/ BeginHit \/ EndHit

PathSpec == PathInit /\ [][PathNext]_pathVars

-----------------------------------------------------------------------------
Hit == [path : (Ids \cup {NoId}) \X (Ids \cup {NoId}), offset : 1 .. StackSize,
        id : Ids, record : Records]

PathTypeOK ==
  /\ records \in [Records -> Record] /\ next \in 0 .. MaxClaims
  /\ recorder \in [Recorders -> [at : {"idle", "clear", "copy", "copied", "store"},
                                 record : Records \cup {Nowhere}, id : Ids \cup {NoId}]]
  /\ stack \in [1 .. StackSize -> [here : Ids \cup {NoId}, behind : Ids \cup {NoId}]]
  /\ byId \in [Ids -> Records \cup {Nowhere}]
  /\ search \in [at : {"none", "map", "here", "behind"}, i : 0 .. Capacity + StackSize + 1,
                 found : Records \cup {Nowhere}, id : Ids \cup {NoId}, half : Ids \cup {NoId}]
  /\ Len(hits) <= MaxHits /\ \A k \in 1 .. Len(hits) : hits[k] \in Hit
  /\ touched \subseteq Records

\* A path in the report is the whole path of the id that was found at that place
\* of the stack, unless its record was written while the search went on or two
\* threads a lap apart held it.
HitsTrue == \A k \in 1 .. Len(hits) :
  hits[k].record \notin touched => hits[k].path = Whole(hits[k].id)

\* An id that the search has passed, and whose record was complete when the search
\* read it and was left alone since, is reported with its path, unless there are hits
\* enough; and the hits come in the order of the stack, no path twice.
RecordedFound ==
  LET Passed(i) == search.at \in {"here", "behind"} /\ i < search.i
      Settled(id) == /\ \E r \in Records \ touched : records[r].id = id
                     /\ byId[id] \notin touched
  IN /\ Len(hits) < MaxHits =>
          \A i \in 1 .. StackSize : \A id \in {stack[i].here, stack[i].behind} \ {NoId} :
            Passed(i) /\ Settled(id) => \E k \in 1 .. Len(hits) : hits[k].path = Whole(id)
     /\ \A j, k \in 1 .. Len(hits) :
          j < k => hits[j].offset <= hits[k].offset /\ hits[j].path # hits[k].path

\* The paths of the report are true, and none is missing, where no writer interfered.
PathsRight == HitsTrue /\ RecordedFound

\* ModelPathLookup.h:10 "to remember which path produced each 12-byte resource id" and
\* :19 "Finds recorded ids on the faulting thread's stack": a path in the report is that
\* of an id on the stack.
PathsOfIdsOnStack == \A k \in 1 .. Len(hits) : hits[k].path = Whole(hits[k].id)
=============================================================================
