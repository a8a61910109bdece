---------------------------- MODULE LookupProofs ----------------------------
(***************************************************************************)
(* Theorems about what a report looks up, and about what must be in place  *)
(* for it: the scripts that publish symbol files (PdbPipeline), the        *)
(* sessions that look symbols up in them (PdbSession), the search for      *)
(* model paths (ModelPathLookup) and for missing masters (MissingMasters). *)
(***************************************************************************)
EXTENDS PdbPipeline, Lookups, SequenceTheorems, FiniteSetTheorems, WellOrders

Number == 0 .. MaxEdits
Task == [key : Keys, from : 1 .. MaxEdits, status : {"running", "done", "failed"}]
Version == [content : [Keys -> Number], forced : BOOLEAN]

\* What PipelineTypeOK says, with the tasks and the versions as well.
PipelineKinds ==
  /\ modnum \in [Keys -> 1 .. MaxEdits]
  /\ pdb \in [Keys -> Number] /\ staged \in [Keys -> Number] /\ seen \in [Keys -> Number]
  /\ file \in [runtimes : [Keys -> Number], last_upload : [Keys -> Number]]
  /\ tasks \in Seq(Task)
  /\ \A i \in 1 .. Len(tasks) : tasks[i].status = "running" \/ Awaited(i)
  /\ pc \in {"idle", "ask", "decide", "poll", "stage", "gate", "create", "save"}
  /\ pc \in {"ask", "decide", "poll"} => todo # {}
  /\ opts \in Options \/ (pc = "idle" /\ opts = NoRun)
  /\ todo \in SUBSET Keys
  /\ pc = "idle" => failed = {} /\ bad = {}
  /\ pc # "idle" => opts \in Options /\ todo \subseteq opts.runtimes
  /\ pc = "stage" => todo \cap failed = {}
  /\ num \in Number
  /\ failed \in SUBSET Keys /\ bad \in SUBSET Keys
  /\ nexus \in Seq(Version)

\* The task that is polled was submitted for the key that is handled, when the
\* program was no older than what was asked for and what is on record.
Polled ==
  pc = "poll" =>
    /\ tasks # <<>>
    /\ tasks[Len(tasks)].key = Key
    /\ seen[Key] <= tasks[Len(tasks)].from
    /\ file.runtimes[Key] <= tasks[Len(tasks)].from

\* What this run asked for, and what is on record, is not newer than the program.
NumbersRight ==
  /\ \A k \in Keys : seen[k] <= modnum[k] /\ file.runtimes[k] <= modnum[k]
  /\ pc \in {"decide", "poll"} => num \in {0, seen[Key]}

\* The PDB of a runtime is as new as the program was when this run asked.
UpToNumber(k) == seen[k] <= pdb[k] \/ k \in late

\* It is so for each runtime the run is done with, and for those it will stage;
\* and no PDB is older than the number on record, which is why it may be skipped.
PdbsFresh ==
  /\ \A k \in Keys : file.runtimes[k] <= pdb[k] \/ k \in late
  /\ pc \in {"ask", "decide", "poll"} => \A k \in (opts.runtimes \ failed) \ todo : UpToNumber(k)
  /\ pc = "poll" /\ tasks[Len(tasks)].status = "done" => UpToNumber(Key)
  /\ pc = "stage" /\ opts.regenerate => \A k \in todo : UpToNumber(k)
  /\ StagedFresh

\* A runtime is staged, or bad, or still to be staged.
StagingRight ==
  /\ pc \in {"ask", "decide", "poll"} => bad = {}
  /\ pc = "stage" => todo \cap bad = {}
  /\ pc \in {"gate", "create", "save"} => todo = {}
  /\ pc \in {"stage", "gate", "create", "save"} =>
       \A k \in Keys : staged[k] # 0 <=> k \in Packed \ todo

\* A version is created, and put on record, by a run that was refused nothing.
UploadAllowed ==
  /\ pc \in {"create", "save"} => ~Refused
  /\ pc = "create" => ~UpToDate
  /\ pc = "save" => nexus # <<>> /\ nexus[Len(nexus)].content = staged

PipelineInv ==
  /\ PipelineKinds /\ Polled /\ NumbersRight /\ PdbsFresh /\ StagingRight
  /\ UploadAllowed /\ UploadsRight

-----------------------------------------------------------------------------
(* The order of the runtimes                                                *)

\* Versions number the runtimes, in the opposite order.
LEMMA VersionFacts ==
  /\ Len(Runtimes) \in Nat
  /\ DOMAIN Runtimes = 1 .. Len(Runtimes)
  /\ \A i \in 1 .. Len(Runtimes) :
       Runtimes[i] \in Keys /\ VersionOf(Runtimes[i]) = Len(Runtimes) + 1 - i
  /\ \A k \in Keys : VersionOf(k) \in 1 .. Len(Runtimes)
<1>1. Len(Runtimes) \in Nat /\ DOMAIN Runtimes = 1 .. Len(Runtimes)
  BY PipelineAssumption, LenProperties
<1>2. \A i \in 1 .. Len(Runtimes) : Runtimes[i] \in Keys
  BY <1>1 DEF Keys, Range
<1>3. ASSUME NEW i \in 1 .. Len(Runtimes)
      PROVE  VersionOf(Runtimes[i]) = Len(Runtimes) + 1 - i
  <2>1. \A j \in DOMAIN Runtimes : Runtimes[j] = Runtimes[i] => j = i
    BY <1>1, PipelineAssumption DEF IsInjective
  <2>2. (CHOOSE j \in DOMAIN Runtimes : Runtimes[j] = Runtimes[i]) = i
    BY <1>1, <2>1
  <2>3. QED
    BY <2>2 DEF VersionOf
<1>4. ASSUME NEW k \in Keys PROVE VersionOf(k) \in 1 .. Len(Runtimes)
  <2>1. PICK i \in 1 .. Len(Runtimes) : Runtimes[i] = k
    BY <1>1 DEF Keys, Range
  <2>2. VersionOf(k) = Len(Runtimes) + 1 - i
    BY <1>3, <2>1
  <2>3. QED
    BY <1>1, <2>2
<1>5. QED
  BY <1>1, <1>2, <1>3, <1>4

\* The key that is handled is one of those that are left.
LEMMA HandledKey ==
  ASSUME todo \in SUBSET Keys, todo # {}
  PROVE  Key \in todo /\ Key \in Keys
<1> DEFINE S == {Len(Runtimes) - VersionOf(k) : k \in todo}
<1>1. \A k \in todo : VersionOf(k) \in 1 .. Len(Runtimes)
  BY VersionFacts
<1>2. S \in SUBSET Nat /\ S # {}
  BY <1>1, VersionFacts
<1>3. PICK m \in S : \A n \in S : m <= n
  <2> HIDE DEF S
  <2>1. QED
    BY <1>2, LeastNatural
<1>4. PICK k \in todo : m = Len(Runtimes) - VersionOf(k)
  BY <1>3
<1>5. \A j \in todo : VersionOf(j) <= VersionOf(k)
  <2> SUFFICES ASSUME NEW j \in todo PROVE VersionOf(j) <= VersionOf(k)
    OBVIOUS
  <2>1. Len(Runtimes) - VersionOf(k) <= Len(Runtimes) - VersionOf(j)
    BY <1>3, <1>4
  <2>2. VersionOf(j) \in Int /\ VersionOf(k) \in Int /\ Len(Runtimes) \in Int
    BY <1>1, VersionFacts
  <2>3. QED
    BY <2>1, <2>2
<1>6. Key \in todo
  BY <1>5 DEF Key
<1>7. QED
  BY <1>6

\* An installer recommends the runtime that was made for the version of the
\* game, if it is there, and nothing otherwise.
LEMMA OneRecommended ==
  ASSUME Packed \subseteq Keys, NEW v \in 0 .. Len(Runtimes)
  PROVE  Recommended(v) = {k \in Packed : VersionOf(k) = v}
<1> DEFINE n == Len(Runtimes)
<1>1. n \in Nat
  BY VersionFacts
<1>2. Satisfied(v) = {i \in 1 .. n : n + 1 - i <= v}
  BY VersionFacts DEF Satisfied, Patterns
<1>3. \A i \in Satisfied(v) : i \in 1 .. n /\ n + 1 - v <= i
  BY <1>1, <1>2
<1>4. v # 0 => n + 1 - v \in Satisfied(v)
  BY <1>1, <1>2
<1>5. ASSUME NEW k \in Packed
      PROVE  (\E i \in Satisfied(v) : Patterns[i] = k /\ \A j \in Satisfied(v) : i <= j)
               <=> VersionOf(k) = v
  <2>1. ASSUME NEW i \in Satisfied(v), Patterns[i] = k, \A j \in Satisfied(v) : i <= j
        PROVE  VersionOf(k) = v
    <3>1. i \in 1 .. n /\ n + 1 - i <= v
      BY <1>2
    <3>2. VersionOf(k) = n + 1 - i
      BY <2>1, <3>1, VersionFacts DEF Patterns
    <3>3. v # 0 /\ i <= n + 1 - v
      BY <1>1, <1>4, <2>1, <3>1
    <3>4. QED
      BY <1>1, <3>1, <3>2, <3>3
  <2>2. ASSUME VersionOf(k) = v
        PROVE  \E i \in Satisfied(v) : Patterns[i] = k /\ \A j \in Satisfied(v) : i <= j
    <3>1. PICK i \in 1 .. n : Runtimes[i] = k
      BY VersionFacts DEF Keys, Range
    <3>2. VersionOf(k) = n + 1 - i
      BY <3>1, VersionFacts
    <3>3. i = n + 1 - v /\ v # 0
      BY <1>1, <2>2, <3>1, <3>2
    <3>4. i \in Satisfied(v) /\ \A j \in Satisfied(v) : i <= j
      BY <1>3, <1>4, <3>3
    <3>5. QED
      BY <3>1, <3>4 DEF Patterns
  <2>3. QED
    BY <2>1, <2>2
<1>6. QED
  BY <1>5 DEF Recommended

-----------------------------------------------------------------------------
(* The tasks in Ghidra                                                      *)

\* A task that was given up and finishes leaves the others in their order.
LEMMA RemoveFacts ==
  ASSUME NEW q \in Seq(Task), NEW i \in 1 .. Len(q)
  PROVE  /\ RemoveAt(q, i) \in Seq(Task)
         /\ Len(RemoveAt(q, i)) = Len(q) - 1
         /\ \A j \in 1 .. Len(q) - 1 : RemoveAt(q, i)[j] = IF j < i THEN q[j] ELSE q[j + 1]
<1> DEFINE a == SubSeq(q, 1, i - 1)
           b == SubSeq(q, i + 1, Len(q))
<1>1. Len(q) \in Nat /\ i \in Nat
  BY LenProperties
<1>2. \A j \in 1 .. i - 1 : q[j] \in Task
  BY <1>1, ElementOfSeq
<1>3. \A j \in i + 1 .. Len(q) : q[j] \in Task
  BY <1>1, ElementOfSeq
<1>4. /\ a \in Seq(Task)
      /\ Len(a) = IF 1 <= i - 1 THEN i - 1 - 1 + 1 ELSE 0
      /\ \A j \in 1 .. i - 1 - 1 + 1 : a[j] = q[1 + j - 1]
  BY <1>1, <1>2, SubSeqProperties
<1>5. /\ b \in Seq(Task)
      /\ Len(b) = IF i + 1 <= Len(q) THEN Len(q) - (i + 1) + 1 ELSE 0
      /\ \A j \in 1 .. Len(q) - (i + 1) + 1 : b[j] = q[i + 1 + j - 1]
  BY <1>1, <1>3, SubSeqProperties
<1> HIDE DEF a, b
<1>6. Len(a) = i - 1 /\ \A j \in 1 .. i - 1 : a[j] = q[j]
  BY <1>1, <1>4
<1>7. Len(b) = Len(q) - i /\ \A j \in 1 .. Len(q) - i : b[j] = q[i + j]
  BY <1>1, <1>5
<1>8. /\ a \o b \in Seq(Task)
      /\ Len(a \o b) = Len(a) + Len(b)
      /\ \A j \in 1 .. Len(a) + Len(b) : (a \o b)[j] = IF j <= Len(a) THEN a[j] ELSE b[j - Len(a)]
  BY <1>4, <1>5, ConcatProperties
<1>9. Len(a) + Len(b) = Len(q) - 1
  BY <1>1, <1>6, <1>7
<1>10. ASSUME NEW j \in 1 .. Len(q) - 1
       PROVE  (a \o b)[j] = IF j < i THEN q[j] ELSE q[j + 1]
  <2>1. CASE j < i
    <3>1. j <= Len(a) /\ j \in 1 .. i - 1
      BY <1>1, <1>6, <2>1
    <3>2. QED
      BY <1>6, <1>8, <1>9, <2>1, <3>1
  <2>2. CASE ~(j < i)
    <3>1. ~(j <= Len(a)) /\ j - Len(a) \in 1 .. Len(q) - i /\ i + (j - Len(a)) = j + 1
      BY <1>1, <1>6, <2>2
    <3>2. (a \o b)[j] = b[j - Len(a)]
      BY <1>8, <1>9, <3>1
    <3>3. QED
      BY <1>7, <2>2, <3>1, <3>2
  <2>3. QED
    BY <2>1, <2>2
<1>11. QED
  BY <1>8, <1>9, <1>10 DEF RemoveAt, a, b

\* When nobody polls any more, the tasks that are left are running.
LEMMA StillRunningFacts ==
  ASSUME PipelineKinds
  PROVE  /\ StillRunning \in Seq(Task)
         /\ \A i \in 1 .. Len(StillRunning) : StillRunning[i].status = "running"
<1>1. tasks \in Seq(Task) /\ Len(tasks) \in Nat
  BY LenProperties DEF PipelineKinds
<1>2. \A i \in 1 .. Len(tasks) : tasks[i].status = "running" \/ i = Len(tasks)
  BY DEF PipelineKinds, Awaited
<1>3. CASE tasks # <<>> /\ tasks[Len(tasks)].status # "running"
  <2>1. Len(tasks) \in Nat \ {0}
    BY <1>1, <1>3, EmptySeq
  <2>2. \A i \in 1 .. Len(tasks) - 1 : tasks[i] \in Task
    BY <1>1, ElementOfSeq
  <2>3. 1 \in Int /\ Len(tasks) - 1 \in Int
    BY <1>1
  <2>4. /\ Front(tasks) \in Seq(Task)
        /\ Len(Front(tasks)) = IF 1 <= Len(tasks) - 1 THEN Len(tasks) - 1 - 1 + 1 ELSE 0
        /\ \A i \in 1 .. Len(tasks) - 1 - 1 + 1 : Front(tasks)[i] = tasks[1 + i - 1]
    BY <2>2, <2>3, SubSeqProperties DEF Front
  <2>5. Len(Front(tasks)) = Len(tasks) - 1 /\ \A i \in 1 .. Len(tasks) - 1 : Front(tasks)[i] = tasks[i]
    <3>1. Len(Front(tasks)) = Len(tasks) - 1
      <4>1. PICK n \in Nat \ {0} : n = Len(tasks)
        BY <2>1
      <4>2. PICK m : m = Len(Front(tasks))
        OBVIOUS
      <4>3. m = IF 1 <= n - 1 THEN n - 1 - 1 + 1 ELSE 0
        BY <2>4, <4>1, <4>2
      <4>4. m = n - 1
        BY <4>3
      <4>5. QED
        BY <4>1, <4>2, <4>4
    <3>2. \A i \in 1 .. Len(tasks) - 1 : i \in 1 .. Len(tasks) - 1 - 1 + 1 /\ 1 + i - 1 = i
      BY <2>1
    <3>3. QED
      BY <2>4, <3>1, <3>2
  <2>6. \A i \in 1 .. Len(tasks) - 1 : tasks[i].status = "running"
    BY <1>1, <1>2
  <2>7. StillRunning = Front(tasks)
    BY <1>3 DEF StillRunning
  <2>8. QED
    BY <2>4, <2>5, <2>6, <2>7
<1>4. CASE ~(tasks # <<>> /\ tasks[Len(tasks)].status # "running")
  <2>1. StillRunning = tasks
    BY <1>4 DEF StillRunning
  <2>2. \A i \in 1 .. Len(tasks) : tasks[i].status = "running"
    <3>1. tasks # <<>> => tasks[Len(tasks)].status = "running"
      BY <1>4
    <3>2. tasks = <<>> => Len(tasks) = 0
      BY EmptySeq
    <3>3. QED
      BY <1>1, <1>2, <3>1, <3>2
  <2>3. QED
    BY <1>1, <2>1, <2>2
<1>5. QED
  BY <1>3, <1>4

\* What Finish leaves of the tasks: one that is polled is over and stays, any
\* other goes.
LEMMA FinishFacts ==
  ASSUME PipelineKinds, NEW i \in DOMAIN tasks, Finish(i)
  PROVE  /\ i \in 1 .. Len(tasks) /\ Len(tasks) \in Nat \ {0}
         /\ tasks[i] \in Task
         /\ tasks' \in Seq(Task)
         /\ Awaited(i) =>
              /\ Len(tasks') = Len(tasks)
              /\ tasks'[i].key = tasks[i].key /\ tasks'[i].from = tasks[i].from
              /\ \A j \in 1 .. Len(tasks) : j # i => tasks'[j] = tasks[j]
         /\ ~Awaited(i) =>
              /\ Len(tasks') = Len(tasks) - 1
              /\ \A j \in 1 .. Len(tasks) - 1 : tasks'[j] = IF j < i THEN tasks[j] ELSE tasks[j + 1]
              /\ pc = "poll" => tasks' # <<>> /\ tasks'[Len(tasks')] = tasks[Len(tasks)]
<1>1. tasks \in Seq(Task) /\ Len(tasks) \in Nat /\ DOMAIN tasks = 1 .. Len(tasks)
  BY LenProperties DEF PipelineKinds
<1>2. i \in 1 .. Len(tasks) /\ Len(tasks) \in Nat \ {0}
  BY <1>1
<1>3. tasks[i] \in Task
  BY <1>1, <1>2, ElementOfSeq
<1>4. PICK status \in {"done", "failed"} :
        tasks' = IF Awaited(i) THEN [tasks EXCEPT ![i].status = status] ELSE RemoveAt(tasks, i)
  BY DEF Finish
<1>5. CASE Awaited(i)
  <2>1. PICK e : e = [tasks[i] EXCEPT !.status = status]
    OBVIOUS
  <2>2. e \in Task /\ e.key = tasks[i].key /\ e.from = tasks[i].from
    BY <1>3, <2>1 DEF Task
  <2>3. tasks' = [tasks EXCEPT ![i] = e]
    BY <1>4, <1>5, <2>1
  <2>4. /\ tasks' \in Seq(Task) /\ Len(tasks') = Len(tasks)
        /\ \A j \in 1 .. Len(tasks) : tasks'[j] = IF j = i THEN e ELSE tasks[j]
    BY <1>1, <1>2, <2>2, <2>3, ExceptSeq
  <2>5. QED
    BY <1>2, <1>3, <1>5, <2>2, <2>4
<1>6. CASE ~Awaited(i)
  <2>1. /\ tasks' \in Seq(Task) /\ Len(tasks') = Len(tasks) - 1
        /\ \A j \in 1 .. Len(tasks) - 1 : tasks'[j] = IF j < i THEN tasks[j] ELSE tasks[j + 1]
    BY <1>1, <1>2, <1>4, <1>6, RemoveFacts
  <2>2. ASSUME pc = "poll" PROVE tasks' # <<>> /\ tasks'[Len(tasks')] = tasks[Len(tasks)]
    <3>1. i # Len(tasks)
      BY <1>6, <2>2 DEF Awaited
    <3>2. Len(tasks) - 1 \in 1 .. Len(tasks) - 1 /\ ~(Len(tasks) - 1 < i) /\ (Len(tasks) - 1) + 1 = Len(tasks)
      BY <1>2, <3>1
    <3>3. tasks'[Len(tasks) - 1] = tasks[Len(tasks)]
      BY <2>1, <3>2
    <3>4. tasks' # <<>>
      BY <2>1, <3>2, EmptySeq
    <3>5. QED
      BY <2>1, <3>3, <3>4
  <2>3. QED
    BY <1>2, <1>3, <1>6, <2>1, <2>2
<1>7. QED
  BY <1>5, <1>6

-----------------------------------------------------------------------------
(* Kinds                                                                    *)

LEMMA InitPipelineKinds == PipelineInit => PipelineKinds
<1> SUFFICES ASSUME PipelineInit PROVE PipelineKinds
  OBVIOUS
<1>1. MaxEdits \in Nat \ {0} /\ 0 \in Number /\ 1 \in Number
  BY PipelineAssumption DEF Number
<1>2. None \in [Keys -> Number]
  BY <1>1 DEF None
<1>3. <<>> \in Seq(Task) /\ <<>> \in Seq(Version) /\ Len(<<>>) = 0
  BY EmptySeq
<1>4. file \in [runtimes : [Keys -> Number], last_upload : [Keys -> Number]]
  BY <1>2 DEF PipelineInit, EmptyState
<1>5. modnum \in [Keys -> 1 .. MaxEdits] /\ pdb \in [Keys -> Number]
  BY <1>1 DEF PipelineInit
<1>6. QED
  BY <1>1, <1>2, <1>3, <1>4, <1>5 DEF PipelineInit, PipelineKinds

\* The tasks after a step: only one that is polled can be over.
LEMMA TasksStep ==
  ASSUME PipelineKinds, [PipelineNext]_pipelineVars
  PROVE  /\ tasks' \in Seq(Task)
         /\ \A i \in 1 .. Len(tasks') : tasks'[i].status = "running" \/ Awaited(i)'
<1>1. /\ tasks \in Seq(Task) /\ Len(tasks) \in Nat
      /\ \A i \in 1 .. Len(tasks) : tasks[i].status = "running" \/ Awaited(i)
  BY LenProperties DEF PipelineKinds
<1>2. ASSUME NEW i \in DOMAIN tasks, Finish(i)
      PROVE  /\ tasks' \in Seq(Task)
             /\ \A j \in 1 .. Len(tasks') : tasks'[j].status = "running" \/ Awaited(j)'
  <2>1. pc' = pc
    BY <1>2 DEF Finish
  <2>2. CASE Awaited(i)
    <3>1. i = Len(tasks) /\ pc = "poll"
      BY <2>2 DEF Awaited
    <3>2. /\ tasks' \in Seq(Task) /\ Len(tasks') = Len(tasks)
          /\ \A j \in 1 .. Len(tasks) : j # i => tasks'[j] = tasks[j]
      BY <1>2, <2>2, FinishFacts
    <3>3. \A j \in 1 .. Len(tasks') : tasks'[j].status = "running" \/ j = Len(tasks')
      BY <1>1, <3>1, <3>2 DEF Awaited
    <3>4. QED
      BY <2>1, <3>1, <3>2, <3>3 DEF Awaited
  <2>3. CASE ~Awaited(i)
    <3>1. /\ i \in 1 .. Len(tasks) /\ Len(tasks) \in Nat \ {0}
          /\ tasks' \in Seq(Task) /\ Len(tasks') = Len(tasks) - 1
          /\ \A j \in 1 .. Len(tasks) - 1 : tasks'[j] = IF j < i THEN tasks[j] ELSE tasks[j + 1]
      BY <1>2, <2>3, FinishFacts
    <3>2. ASSUME NEW j \in 1 .. Len(tasks') PROVE tasks'[j].status = "running" \/ Awaited(j)'
      <4>1. j \in 1 .. Len(tasks) - 1 /\ j + 1 \in 1 .. Len(tasks) /\ j \in 1 .. Len(tasks) /\ j # Len(tasks)
        BY <3>1
      <4>2. tasks[j].status = "running"
        BY <1>1, <4>1 DEF Awaited
      <4>3. tasks[j + 1].status = "running" \/ (pc = "poll" /\ j + 1 = Len(tasks))
        BY <1>1, <4>1 DEF Awaited
      <4>4. tasks'[j] = tasks[j] \/ tasks'[j] = tasks[j + 1]
        BY <3>1, <4>1
      <4>5. j + 1 = Len(tasks) => j = Len(tasks')
        BY <3>1, <4>1
      <4>6. QED
        BY <2>1, <4>2, <4>3, <4>4, <4>5 DEF Awaited
    <3>3. QED
      BY <3>1, <3>2
  <2>4. QED
    BY <2>2, <2>3
<1>3. CASE Submit
  <2>1. PICK e : e = [key |-> Key, from |-> modnum[Key], status |-> "running"]
    OBVIOUS
  <2>2. Key \in Keys
    BY <1>3, HandledKey DEF Submit, PipelineKinds
  <2>3. e \in Task
    BY <2>1, <2>2 DEF Task, PipelineKinds
  <2>4. tasks' = Append(tasks, e) /\ pc = "decide"
    BY <1>3, <2>1 DEF Submit
  <2>5. /\ tasks' \in Seq(Task) /\ Len(tasks') = Len(tasks) + 1
        /\ \A i \in 1 .. Len(tasks) : tasks'[i] = tasks[i]
        /\ tasks'[Len(tasks) + 1] = e
    BY <1>1, <2>3, <2>4, AppendProperties
  <2>6. ASSUME NEW i \in 1 .. Len(tasks') PROVE tasks'[i].status = "running"
    <3>1. CASE i = Len(tasks) + 1
      BY <2>1, <2>5, <3>1
    <3>2. CASE i # Len(tasks) + 1
      <4>1. i \in 1 .. Len(tasks)
        BY <1>1, <2>5, <3>2
      <4>2. QED
        BY <1>1, <2>4, <2>5, <4>1 DEF Awaited
    <3>3. QED
      BY <3>1, <3>2
  <2>7. QED
    BY <2>5, <2>6
<1>4. CASE PollDone \/ RegenerationFails \/ Killed
  <2>1. tasks' = StillRunning
    BY <1>4 DEF PollDone, RegenerationFails, Killed
  <2>2. QED
    BY <2>1, StillRunningFacts
<1>5. ASSUME \/ \E k \in Keys : Edit(k)
             \/ \E o \in Options : Start(o)
             \/ Ask \/ Skip \/ Stage \/ Package \/ Upload \/ CreateVersion \/ SaveUpload
             \/ UNCHANGED pipelineVars
      PROVE  /\ tasks' \in Seq(Task)
             /\ \A i \in 1 .. Len(tasks') : tasks'[i].status = "running" \/ Awaited(i)'
  <2>1. tasks' = tasks
    BY <1>5 DEF Edit, Start, Ask, Skip, Stage, Package, Upload, CreateVersion, SaveUpload,
                pipelineVars, ghidraVars
  <2>2. pc = "poll" => pc' = pc
    BY <1>5 DEF Edit, Start, Ask, Skip, Stage, Package, Upload, CreateVersion, SaveUpload, pipelineVars
  <2>3. \A i : Awaited(i) => Awaited(i)'
    BY <2>1, <2>2 DEF Awaited
  <2>4. QED
    BY <1>1, <2>1, <2>3
<1>6. QED
  BY <1>2, <1>3, <1>4, <1>5 DEF PipelineNext

\* What is left for the loops, and what failed.
LEMMA NextKeyFacts ==
  ASSUME PipelineKinds, todo # {}, pc \in {"ask", "decide", "poll"},
         NEW nowFailed \in SUBSET Keys, NextKey(nowFailed), UNCHANGED opts
  PROVE  /\ pc' \in {"ask", "stage"}
         /\ todo' \in SUBSET Keys /\ todo' \subseteq opts.runtimes
         /\ pc' = "ask" => todo' # {}
         /\ pc' = "stage" => todo' \cap failed' = {}
         /\ failed' \in SUBSET Keys
         /\ num' \in Number
         /\ staged' \in [Keys -> Number]
<1>1. Key \in todo
  BY HandledKey DEF PipelineKinds
<1>2. opts \in Options /\ opts.runtimes \subseteq Keys
  BY PipelineAssumption DEF PipelineKinds, Keys
<1>3. 0 \in Number
  BY PipelineAssumption DEF Number
<1>4. None \in [Keys -> Number]
  BY <1>3 DEF None
<1>5. CASE todo # {Key} /\ todo' = todo \ {Key} /\ pc' = "ask" /\ UNCHANGED staged
  BY <1>1, <1>2, <1>3, <1>5 DEF NextKey, PipelineKinds
<1>6. CASE todo' = opts.runtimes \ nowFailed /\ pc' = "stage" /\ staged' = None
  BY <1>2, <1>3, <1>4, <1>6 DEF NextKey
<1>7. QED
  BY <1>5, <1>6 DEF NextKey

LEMMA StepPipelineKinds == PipelineKinds /\ [PipelineNext]_pipelineVars => PipelineKinds'
<1> SUFFICES ASSUME PipelineKinds, [PipelineNext]_pipelineVars PROVE PipelineKinds'
  OBVIOUS
<1> DEFINE TasksRight == /\ tasks' \in Seq(Task)
                         /\ \A i \in 1 .. Len(tasks') : tasks'[i].status = "running" \/ Awaited(i)'
<1>0. TasksRight
  BY TasksStep
<1> HIDE DEF TasksRight
<1>1. 0 \in Number /\ None \in [Keys -> Number] /\ MaxEdits \in Nat \ {0}
  BY PipelineAssumption DEF Number, None
<1>2. EmptyState \in [runtimes : [Keys -> Number], last_upload : [Keys -> Number]]
  BY <1>1 DEF EmptyState
<1>3. \A o \in Options : o.runtimes \in SUBSET Keys /\ o.runtimes # {} /\ o.forceUpload \in BOOLEAN
  BY PipelineAssumption DEF Keys
<1>4. todo # {} => Key \in todo /\ Key \in Keys
  BY HandledKey DEF PipelineKinds
<1>5. ASSUME NEW k \in Keys, Edit(k) PROVE PipelineKinds'
  <2>1. modnum' \in [Keys -> 1 .. MaxEdits]
    BY <1>1, <1>5 DEF Edit, PipelineKinds
  <2>2. UNCHANGED <<pdb, file, pc, opts, todo, num, failed, bad, seen, staged, nexus>>
    BY <1>5 DEF Edit, runVars
  <2>3. QED
    BY <1>0, <2>1, <2>2 DEF PipelineKinds, TasksRight
<1>6. ASSUME NEW i \in DOMAIN tasks, Finish(i) PROVE PipelineKinds'
  <2>1. pdb' \in [Keys -> Number]
    <3>1. tasks[i] \in Task
      BY <1>6, FinishFacts
    <3>2. CASE UNCHANGED pdb
      BY <3>2 DEF PipelineKinds
    <3>3. CASE \E n \in tasks[i].from .. modnum[tasks[i].key] : pdb' = [pdb EXCEPT ![tasks[i].key] = n]
      <4>1. PICK n \in tasks[i].from .. modnum[tasks[i].key] : pdb' = [pdb EXCEPT ![tasks[i].key] = n]
        BY <3>3
      <4>2. tasks[i].from \in 1 .. MaxEdits /\ modnum[tasks[i].key] \in 1 .. MaxEdits
        BY <3>1 DEF Task, PipelineKinds
      <4>3. n \in Number
        BY <1>1, <4>1, <4>2 DEF Number
      <4>4. QED
        BY <4>1, <4>3 DEF PipelineKinds
    <3>4. QED
      BY <1>6, <3>2, <3>3 DEF Finish
  <2>2. UNCHANGED <<modnum, file, pc, opts, todo, num, failed, bad, seen, staged, nexus>>
    BY <1>6 DEF Finish, runVars
  <2>3. QED
    BY <1>0, <2>1, <2>2 DEF PipelineKinds, TasksRight
<1>7. ASSUME NEW o \in Options, Start(o) PROVE PipelineKinds'
  <2>1. UNCHANGED <<modnum, pdb, file, num, failed, bad, seen, nexus>>
    BY <1>7 DEF Start, ghidraVars
  <2>2. /\ opts' \in Options /\ todo' = opts'.runtimes /\ pc' \in {"ask", "stage"}
        /\ staged' \in [Keys -> Number]
    BY <1>1, <1>7 DEF Start, PipelineKinds
  <2>3. todo' \in SUBSET Keys /\ todo' # {}
    BY <1>3, <2>2
  <2>4. failed' = {}
    BY <1>7, <2>1 DEF Start, PipelineKinds
  <2>5. QED
    BY <1>0, <2>1, <2>2, <2>3, <2>4 DEF PipelineKinds, TasksRight
<1>8. CASE Ask
  <2>1. num' \in Number /\ seen' \in [Keys -> Number]
    <3>1. Key \in Keys
      BY <1>4, <1>8 DEF Ask, PipelineKinds
    <3>2. modnum[Key] \in Number
      BY <1>1, <3>1 DEF PipelineKinds, Number
    <3>3. QED
      BY <1>1, <1>8, <3>2 DEF Ask, PipelineKinds
  <2>2. /\ UNCHANGED <<modnum, pdb, file, opts, todo, failed, bad, staged, nexus>>
        /\ pc = "ask" /\ pc' = "decide"
    BY <1>8 DEF Ask, ghidraVars
  <2>3. QED
    BY <1>0, <2>1, <2>2 DEF PipelineKinds, TasksRight
<1>9. CASE Submit
  <2>1. /\ UNCHANGED <<modnum, pdb, file, opts, todo, num, failed, bad, seen, staged, nexus>>
        /\ pc = "decide" /\ pc' = "poll"
    BY <1>9 DEF Submit, runVars
  <2>2. QED
    BY <1>0, <2>1 DEF PipelineKinds, TasksRight
<1>10. CASE Skip \/ PollDone \/ RegenerationFails
  <2>1. pc \in {"ask", "decide", "poll"} /\ todo # {}
    BY <1>10 DEF Skip, PollDone, RegenerationFails, PipelineKinds
  <2>2. UNCHANGED <<modnum, pdb, opts, bad, nexus, seen>>
    BY <1>10 DEF Skip, PollDone, RegenerationFails, ghidraVars
  <2>3. PICK nowFailed \in SUBSET Keys : NextKey(nowFailed)
    BY <1>4, <1>10, <2>1 DEF Skip, PollDone, RegenerationFails, PipelineKinds
  <2>4. file' \in [runtimes : [Keys -> Number], last_upload : [Keys -> Number]]
    <3>1. file' = file \/ file' = [file EXCEPT !.runtimes = [file.runtimes EXCEPT ![Key] = num]]
      BY <1>10 DEF Skip, PollDone, RegenerationFails, SaveRegenerated
    <3>2. [file.runtimes EXCEPT ![Key] = num] \in [Keys -> Number]
      BY DEF PipelineKinds
    <3>3. QED
      BY <3>1, <3>2 DEF PipelineKinds
  <2>5. /\ pc' \in {"ask", "stage"}
        /\ todo' \in SUBSET Keys /\ todo' \subseteq opts.runtimes
        /\ pc' = "ask" => todo' # {}
        /\ pc' = "stage" => todo' \cap failed' = {}
        /\ failed' \in SUBSET Keys
        /\ num' \in Number
        /\ staged' \in [Keys -> Number]
    BY <2>1, <2>2, <2>3, NextKeyFacts
  <2>6. QED
    BY <1>0, <2>1, <2>2, <2>4, <2>5 DEF PipelineKinds, TasksRight
<1>11. CASE Stage
  <2>1. Key \in todo /\ Key \in Keys /\ pc = "stage" /\ pc' = pc
    BY <1>4, <1>11 DEF Stage
  <2>2. UNCHANGED <<modnum, pdb, file, opts, num, failed, nexus, seen>> /\ todo' = todo \ {Key}
    BY <1>11 DEF Stage, ghidraVars
  <2>3. bad' \in SUBSET Keys /\ staged' \in [Keys -> Number]
    BY <1>11, <2>1 DEF Stage, PipelineKinds
  <2>4. QED
    BY <1>0, <2>1, <2>2, <2>3 DEF PipelineKinds, TasksRight
<1>12. ASSUME \/ pc = "stage" /\ pc' = "gate"
              \/ pc = "gate" /\ pc' = "create"
              \/ pc = "create" /\ pc' = "save"
              \/ pc' = pc,
              UNCHANGED <<runVars, file, modnum, pdb, staged>>, nexus' \in Seq(Version)
       PROVE  PipelineKinds'
  BY <1>0, <1>12 DEF PipelineKinds, TasksRight, runVars
<1>13. ASSUME Exit, file' \in [runtimes : [Keys -> Number], last_upload : [Keys -> Number]],
              UNCHANGED <<modnum, pdb, staged>>, nexus' \in Seq(Version)
       PROVE  PipelineKinds'
  BY <1>0, <1>1, <1>13 DEF Exit, PipelineKinds, TasksRight
<1>14. CASE Package \/ Upload
  <2>1. UNCHANGED <<modnum, pdb, file, staged, nexus>>
    BY <1>14 DEF Package, Upload, ghidraVars
  <2>2. \/ Exit
        \/ UNCHANGED runVars /\ pc = "stage" /\ pc' = "gate"
        \/ UNCHANGED runVars /\ pc = "gate" /\ pc' = "create"
    <3>1. CASE Package
      BY <3>1, Zenon DEF Package
    <3>2. CASE Upload
      BY <3>2, Zenon DEF Upload
    <3>3. QED
      BY <1>14, <3>1, <3>2
  <2>3. nexus \in Seq(Version) /\ file \in [runtimes : [Keys -> Number], last_upload : [Keys -> Number]]
    BY DEF PipelineKinds
  <2>4. QED
    BY <1>12, <1>13, <2>1, <2>2, <2>3
<1>15. CASE CreateVersion
  <2>1. UNCHANGED <<modnum, pdb, file, staged>>
    BY <1>15 DEF CreateVersion, ghidraVars
  <2>2. Exit \/ (UNCHANGED runVars /\ pc = "create" /\ pc' = "save")
    BY <1>15 DEF CreateVersion
  <2>3. [content |-> staged, forced |-> opts.forceUpload] \in Version
    BY <1>3, <1>15 DEF CreateVersion, PipelineKinds, Version
  <2>4. nexus' \in Seq(Version)
    BY <1>15, <2>3, AppendProperties DEF CreateVersion, PipelineKinds
  <2>5. QED
    BY <1>12, <1>13, <2>1, <2>2, <2>4 DEF PipelineKinds
<1>16. CASE SaveUpload \/ Killed
  <2>1. Exit /\ UNCHANGED <<modnum, pdb, staged, nexus>>
    BY <1>16 DEF SaveUpload, Killed, ghidraVars
  <2>2. file' \in [runtimes : [Keys -> Number], last_upload : [Keys -> Number]]
    BY <1>2, <1>16 DEF SaveUpload, Killed, PipelineKinds
  <2>3. QED
    BY <1>13, <2>1, <2>2 DEF PipelineKinds
<1>17. CASE UNCHANGED pipelineVars
  <2>1. nexus' \in Seq(Version)
    BY <1>17 DEF PipelineKinds, pipelineVars
  <2>2. QED
    BY <1>12, <1>17, <2>1 DEF pipelineVars, ghidraVars
<1>18. QED
  BY <1>5, <1>6, <1>7, <1>8, <1>9, <1>10, <1>11, <1>14, <1>15, <1>16, <1>17 DEF PipelineNext

-----------------------------------------------------------------------------
(* The numbers                                                              *)

LEMMA StepPolled ==
  ASSUME PipelineKinds, Polled, NumbersRight, [PipelineNext]_pipelineVars
  PROVE  Polled'
<1>0. tasks \in Seq(Task) /\ Len(tasks) \in Nat
  BY LenProperties DEF PipelineKinds
<1>1. ASSUME UNCHANGED <<pc, tasks, todo, seen, file>> PROVE Polled'
  BY <1>1 DEF Polled, Key
<1>2. ASSUME NEW i \in DOMAIN tasks, Finish(i) PROVE Polled'
  <2>1. UNCHANGED <<pc, todo, seen, file>>
    BY <1>2 DEF Finish, runVars
  <2>2. Key' = Key
    BY <2>1 DEF Key
  <2>3. SUFFICES ASSUME pc = "poll"
                 PROVE  /\ tasks' # <<>>
                        /\ tasks'[Len(tasks')].key = tasks[Len(tasks)].key
                        /\ tasks'[Len(tasks')].from = tasks[Len(tasks)].from
    BY <2>1, <2>2 DEF Polled
  <2>4. i \in 1 .. Len(tasks) /\ Len(tasks) \in Nat \ {0} /\ tasks' \in Seq(Task)
    BY <1>2, FinishFacts
  <2>5. CASE Awaited(i)
    <3>1. /\ Len(tasks') = Len(tasks) /\ i = Len(tasks)
          /\ tasks'[i].key = tasks[i].key /\ tasks'[i].from = tasks[i].from
      BY <1>2, <2>5, FinishFacts DEF Awaited
    <3>2. tasks' # <<>>
      BY <2>4, <3>1, EmptySeq
    <3>3. QED
      BY <3>1, <3>2
  <2>6. CASE ~Awaited(i)
    BY <1>2, <2>3, <2>6, FinishFacts
  <2>7. QED
    BY <2>5, <2>6
<1>3. CASE Submit
  <2>1. UNCHANGED <<todo, seen, file>> /\ pc = "decide"
    BY <1>3 DEF Submit, runVars
  <2>2. Key \in Keys /\ Key' = Key
    BY <2>1, HandledKey DEF PipelineKinds, Key
  <2>3. PICK e : e = [key |-> Key, from |-> modnum[Key], status |-> "running"]
    OBVIOUS
  <2>4. e \in Task /\ tasks' = Append(tasks, e)
    BY <1>3, <2>2, <2>3 DEF Submit, Task, PipelineKinds
  <2>5. tasks' # <<>> /\ tasks'[Len(tasks')] = e
    BY <1>0, <2>4, AppendProperties
  <2>6. seen[Key] <= modnum[Key] /\ file.runtimes[Key] <= modnum[Key]
    BY <2>2 DEF NumbersRight
  <2>7. QED
    BY <2>1, <2>2, <2>3, <2>5, <2>6 DEF Polled
<1>4. ASSUME pc' # "poll" PROVE Polled'
  BY <1>4 DEF Polled
<1>5. \A k \in Keys : Edit(k) => UNCHANGED <<pc, tasks, todo, seen, file>>
  BY DEF Edit, runVars
<1>6. UNCHANGED pipelineVars => UNCHANGED <<pc, tasks, todo, seen, file>>
  BY DEF pipelineVars, ghidraVars, runVars
<1>7. ASSUME \/ \E o \in Options : Start(o)
             \/ Ask \/ Skip \/ PollDone \/ RegenerationFails \/ Stage \/ Package \/ Upload
             \/ CreateVersion \/ SaveUpload \/ Killed
      PROVE  pc' # "poll"
  BY <1>7 DEF Start, Ask, Skip, PollDone, RegenerationFails, NextKey, Stage, Package, Upload,
              CreateVersion, SaveUpload, Killed, Exit
<1>8. QED
  BY <1>1, <1>2, <1>3, <1>4, <1>5, <1>6, <1>7 DEF PipelineNext

\* The number that is put on record is one that was asked for.
LEMMA NumberAsked ==
  ASSUME PipelineKinds, NumbersRight, pc \in {"decide", "poll"}
  PROVE  Key \in Keys /\ num \in Number /\ num <= seen[Key] /\ num <= modnum[Key] /\ (num # 0 => num = seen[Key])
<1>1. Key \in Keys
  BY HandledKey DEF PipelineKinds
<1>2. seen[Key] \in Nat /\ modnum[Key] \in Nat
  BY <1>1, PipelineAssumption DEF PipelineKinds, Number
<1>3. QED
  BY <1>1, <1>2 DEF NumbersRight, PipelineKinds

LEMMA StepNumbers ==
  ASSUME PipelineKinds, NumbersRight, [PipelineNext]_pipelineVars
  PROVE  NumbersRight'
<1>0. /\ MaxEdits \in Nat
      /\ \A k \in Keys : /\ modnum[k] \in 1 .. MaxEdits
                         /\ seen[k] \in 0 .. MaxEdits /\ file.runtimes[k] \in 0 .. MaxEdits
      /\ DOMAIN modnum = Keys /\ DOMAIN seen = Keys
  BY PipelineAssumption DEF PipelineKinds, Number
<1>1. todo # {} => Key \in Keys
  BY HandledKey DEF PipelineKinds
<1>2. ASSUME NEW k \in Keys, Edit(k) PROVE NumbersRight'
  <2>1. modnum' = [modnum EXCEPT ![k] = modnum[k] + 1] /\ UNCHANGED <<pc, todo, num, seen, file>>
    BY <1>2 DEF Edit, runVars
  <2>2. \A j \in Keys : modnum[j] <= modnum'[j] /\ modnum'[j] \in Nat
    BY <1>0, <2>1
  <2>3. \A j \in Keys : seen[j] <= modnum'[j] /\ file.runtimes[j] <= modnum'[j]
    <3> SUFFICES ASSUME NEW j \in Keys PROVE seen[j] <= modnum'[j] /\ file.runtimes[j] <= modnum'[j]
      OBVIOUS
    <3>1. seen[j] \in Nat /\ file.runtimes[j] \in Nat /\ modnum[j] \in Nat
      BY <1>0
    <3>2. seen[j] <= modnum[j] /\ file.runtimes[j] <= modnum[j]
      BY DEF NumbersRight
    <3>3. QED
      BY <2>2, <3>1, <3>2
  <2>4. QED
    BY <2>1, <2>3 DEF NumbersRight, Key
<1>3. CASE Ask
  <2>1. /\ pc = "ask" /\ pc' = "decide" /\ UNCHANGED <<modnum, todo, file>>
        /\ num' \in {0, modnum[Key]} /\ seen' = [seen EXCEPT ![Key] = modnum[Key]]
    BY <1>3 DEF Ask, ghidraVars
  <2>2. Key \in Keys /\ Key' = Key
    BY <1>1, <2>1 DEF PipelineKinds, Key
  <2>3. seen'[Key] = modnum[Key] /\ \A k \in Keys : seen'[k] <= modnum[k]
    BY <1>0, <2>1, <2>2 DEF NumbersRight
  <2>4. QED
    BY <2>1, <2>2, <2>3 DEF NumbersRight
<1>4. ASSUME UNCHANGED <<modnum, todo, num, seen>>, pc' \in {"decide", "poll"} => pc \in {"decide", "poll"},
             file'.runtimes = file.runtimes
      PROVE  NumbersRight'
  BY <1>4 DEF NumbersRight, Key
<1>5. CASE Skip \/ PollDone \/ RegenerationFails
  <2>1. UNCHANGED <<modnum, seen>> /\ pc' \notin {"decide", "poll"}
    BY <1>5 DEF Skip, PollDone, RegenerationFails, NextKey, ghidraVars
  <2>2. \A k \in Keys : file'.runtimes[k] <= modnum[k]
    <3>1. CASE PollDone
      <4>1. file' = [file EXCEPT !.runtimes = [file.runtimes EXCEPT ![Key] = num]] /\ pc = "poll"
        BY <3>1 DEF PollDone, SaveRegenerated
      <4>2. num <= modnum[Key] /\ Key \in Keys
        BY <4>1, NumberAsked
      <4>3. file'.runtimes = [file.runtimes EXCEPT ![Key] = num]
        BY <4>1 DEF PipelineKinds
      <4>4. \A k \in Keys : file'.runtimes[k] = IF k = Key THEN num ELSE file.runtimes[k]
        BY <4>2, <4>3 DEF PipelineKinds
      <4>5. QED
        BY <4>2, <4>4 DEF NumbersRight
    <3>2. CASE file' = file
      BY <3>2 DEF NumbersRight
    <3>3. QED
      BY <1>5, <3>1, <3>2 DEF Skip, RegenerationFails
  <2>3. QED
    BY <2>1, <2>2 DEF NumbersRight
<1>6. ASSUME Exit, UNCHANGED modnum, \A k \in Keys : file'.runtimes[k] \in {0, file.runtimes[k]}
      PROVE  NumbersRight'
  <2>1. pc' = "idle" /\ \A k \in Keys : seen'[k] = 0
    BY <1>6 DEF Exit, None
  <2>2. \A k \in Keys : 0 <= modnum[k]
    BY <1>0
  <2>3. QED
    BY <1>6, <2>1, <2>2 DEF NumbersRight
<1>7. CASE Package \/ Upload \/ CreateVersion
  <2>1. UNCHANGED <<modnum, file>>
    BY <1>7 DEF Package, Upload, CreateVersion, ghidraVars
  <2>2. CASE Exit
    BY <1>6, <2>1, <2>2
  <2>3. CASE UNCHANGED runVars /\ pc' \in {"gate", "create", "save"}
    BY <1>4, <2>1, <2>3 DEF runVars
  <2>4. QED
    BY <1>7, <2>2, <2>3, Zenon DEF Package, Upload, CreateVersion
<1>8. CASE SaveUpload \/ Killed
  <2>1. Exit /\ UNCHANGED modnum
    BY <1>8 DEF SaveUpload, Killed, ghidraVars
  <2>2. \A k \in Keys : file'.runtimes[k] \in {0, file.runtimes[k]}
    <3>1. file' = file \/ file' = [file EXCEPT !.last_upload = staged] \/ file' = EmptyState
      BY <1>8 DEF SaveUpload, Killed
    <3>2. EmptyState.runtimes = None /\ \A k \in Keys : None[k] = 0
      BY DEF EmptyState, None
    <3>3. file' = EmptyState \/ file'.runtimes = file.runtimes
      BY <3>1 DEF PipelineKinds
    <3>4. QED
      BY <3>2, <3>3
  <2>3. QED
    BY <1>6, <2>1, <2>2
<1>9. ASSUME \/ \E o \in Options : Start(o)
             \/ Stage
      PROVE  NumbersRight'
  BY <1>9 DEF Start, Stage, NumbersRight, ghidraVars
<1>10. ASSUME \/ \E i \in DOMAIN tasks : Finish(i)
              \/ Submit
              \/ UNCHANGED pipelineVars
       PROVE  NumbersRight'
  <2>1. UNCHANGED <<modnum, todo, num, seen, file>> /\ (pc' \in {"decide", "poll"} => pc \in {"decide", "poll"})
    BY <1>10 DEF Finish, Submit, pipelineVars, ghidraVars, runVars
  <2>2. QED
    BY <1>4, <2>1
<1>11. QED
  BY <1>2, <1>3, <1>5, <1>7, <1>8, <1>9, <1>10 DEF PipelineNext

-----------------------------------------------------------------------------
(* The PDBs that are staged                                                 *)

\* A runtime a run is done with, or failed, leaves the others as they are.
LEMMA NextKeyFresh ==
  ASSUME PipelineKinds, todo # {}, NEW nowFailed, NextKey(nowFailed),
         UNCHANGED <<opts, pdb, seen, late>>,
         \A k \in (opts.runtimes \ nowFailed) \ (todo \ {Key}) : UpToNumber(k),
         \A k \in Keys : file'.runtimes[k] <= pdb'[k] \/ k \in late'
  PROVE  PdbsFresh'
<1>1. \A k : UpToNumber(k)' = UpToNumber(k)
  BY DEF UpToNumber
<1>2. failed' = nowFailed
  BY DEF NextKey
<1>3. CASE todo' = todo \ {Key} /\ pc' = "ask"
  BY <1>1, <1>2, <1>3 DEF PdbsFresh, StagedFresh
<1>4. CASE todo = {Key} /\ todo' = opts.runtimes \ nowFailed /\ pc' = "stage" /\ staged' = None
  <2>1. \A k \in todo' : UpToNumber(k)
    BY <1>4
  <2>2. \A k \in Keys : staged'[k] = 0
    BY <1>4 DEF None
  <2>3. QED
    BY <1>1, <1>4, <2>1, <2>2 DEF PdbsFresh, StagedFresh
<1>5. QED
  BY <1>3, <1>4 DEF NextKey

\* A task that is not awaited marks its key as late, and one that is awaited
\* started when the program was as new as was asked.
LEMMA FinishFresh ==
  ASSUME PipelineKinds, Polled, PdbsFresh, NEW i \in DOMAIN tasks, Finish(i)
  PROVE  /\ \A k \in Keys : file.runtimes[k] <= pdb'[k] \/ k \in late'
         /\ \A k \in Keys : UpToNumber(k) => UpToNumber(k)'
         /\ pc = "poll" /\ tasks'[Len(tasks')].status = "done" => UpToNumber(Key)'
         /\ \A k : k \in late => k \in late'
<1>1. UNCHANGED <<pc, todo, seen, file>>
  BY DEF Finish, runVars
<1>2. /\ i \in 1 .. Len(tasks) /\ Len(tasks) \in Nat \ {0}
      /\ tasks[i] \in Task /\ tasks' \in Seq(Task)
  BY FinishFacts
<1>3. PICK k \in Keys : k = tasks[i].key
  BY <1>2 DEF Task
<1>4. tasks[i].from \in Nat /\ \A j \in Keys : seen[j] \in Nat /\ file.runtimes[j] \in Nat
  <2>1. \A m \in Number : m \in Nat
    BY PipelineAssumption DEF Number
  <2>2. tasks[i].from \in Nat
    BY <1>2, PipelineAssumption DEF Task
  <2>3. \A j \in Keys : seen[j] \in Number /\ file.runtimes[j] \in Number
    BY DEF PipelineKinds
  <2>4. QED
    BY <2>1, <2>2, <2>3
<1> DEFINE Written == /\ \E n \in tasks[i].from .. modnum[k] : pdb' = [pdb EXCEPT ![k] = n]
                      /\ late' = IF Awaited(i) THEN late ELSE late \cup {k}
           Failed == /\ UNCHANGED <<pdb, late>>
                     /\ tasks' = IF Awaited(i) THEN [tasks EXCEPT ![i].status = "failed"] ELSE RemoveAt(tasks, i)
<1>5. Written \/ Failed
  BY <1>3 DEF Finish
\* The PDB of this key is as new as a task that was awaited; any other marks it.
<1>6. ASSUME Written
      PROVE  /\ \A j \in Keys : j # k => pdb'[j] = pdb[j]
             /\ \A j : j \in late => j \in late'
             /\ Awaited(i) => k = Key /\ seen[k] <= pdb'[k] /\ file.runtimes[k] <= pdb'[k]
             /\ ~Awaited(i) => k \in late'
  <2>1. PICK n \in tasks[i].from .. modnum[k] : pdb' = [pdb EXCEPT ![k] = n]
    BY <1>6
  <2>2. n \in Int /\ tasks[i].from <= n
    BY <1>4, <2>1 DEF PipelineKinds
  <2>3. pdb'[k] = n /\ \A j \in Keys : j # k => pdb'[j] = pdb[j]
    BY <2>1 DEF PipelineKinds
  <2>4. Awaited(i) => k = Key /\ seen[k] <= tasks[i].from /\ file.runtimes[k] <= tasks[i].from
    BY <1>3 DEF Awaited, Polled
  <2>5. Awaited(i) => k = Key /\ seen[k] <= pdb'[k] /\ file.runtimes[k] <= pdb'[k]
    BY <1>4, <2>2, <2>3, <2>4
  <2>6. QED
    BY <1>6, <2>3, <2>5
<1> HIDE DEF Written
<1>7. \A j : j \in late => j \in late'
  BY <1>5, <1>6
<1>8. ASSUME NEW j \in Keys
      PROVE  (file.runtimes[j] <= pdb'[j] \/ j \in late') /\ (UpToNumber(j) => UpToNumber(j)')
  BY <1>1, <1>5, <1>6 DEF PdbsFresh, UpToNumber
<1>9. ASSUME pc = "poll", tasks'[Len(tasks')].status = "done" PROVE UpToNumber(Key)'
  <2>1. PICK key \in Keys : key = Key
    BY <1>9, HandledKey DEF PipelineKinds
  <2>2. Key' = key
    BY <1>1, <2>1 DEF Key
  <2>3. CASE Awaited(i)
    <3>1. i = Len(tasks) /\ Len(tasks') = Len(tasks)
      BY <2>3, FinishFacts DEF Awaited
    <3>2. ~Failed
      <4>1. ASSUME Failed PROVE tasks'[i].status = "failed"
        BY <1>2, <2>3, <4>1, LenProperties DEF PipelineKinds, Task
      <4>2. QED
        BY <1>9, <3>1, <4>1
    <3>3. key = k /\ seen[key] <= pdb'[key]
      BY <1>5, <1>6, <2>1, <2>3, <3>2
    <3>4. UpToNumber(key)'
      BY <1>1, <3>3 DEF UpToNumber
    <3>5. QED
      BY <2>2, <3>4
  <2>4. CASE ~Awaited(i)
    <3>1. tasks'[Len(tasks')] = tasks[Len(tasks)]
      BY <1>9, <2>4, FinishFacts
    <3>2. UpToNumber(key)
      BY <1>9, <2>1, <3>1 DEF PdbsFresh
    <3>3. UpToNumber(key)'
      BY <1>8, <3>2
    <3>4. QED
      BY <2>2, <3>3
  <2>5. QED
    BY <2>3, <2>4
<1>10. QED
  BY <1>7, <1>8, <1>9

LEMMA StepPdbsFresh ==
  ASSUME PipelineKinds, Polled, NumbersRight, PdbsFresh, [PipelineNext]_pipelineVars
  PROVE  PdbsFresh'
<1>0. todo # {} => Key \in todo /\ Key \in Keys
  BY HandledKey DEF PipelineKinds
<1>1. ASSUME UNCHANGED <<pdb, late, file, opts, todo, failed, staged, seen>>,
             \/ pc' = pc /\ UNCHANGED tasks
             \/ pc = "decide" /\ pc' = "poll" /\ tasks'[Len(tasks')].status = "running"
             \/ pc \in {"stage", "gate", "create"} /\ pc' \in {"gate", "create", "save"}
      PROVE  PdbsFresh'
  <2>1. Key' = Key
    BY <1>1 DEF Key
  <2>2. \A k : UpToNumber(k)' = UpToNumber(k)
    BY <1>1 DEF UpToNumber
  <2>3. UpToNumber(Key)' = UpToNumber(Key)
    BY <1>1, <2>1 DEF UpToNumber
  <2>4. QED
    BY <1>1, <2>1, <2>2, <2>3 DEF PdbsFresh, StagedFresh
<1>2. ASSUME NEW i \in DOMAIN tasks, Finish(i) PROVE PdbsFresh'
  <2>1. UNCHANGED <<pc, file, opts, todo, failed, staged, seen>>
    BY <1>2 DEF Finish, runVars
  <2>2. /\ \A k \in Keys : file.runtimes[k] <= pdb'[k] \/ k \in late'
        /\ \A k \in Keys : UpToNumber(k) => UpToNumber(k)'
        /\ pc = "poll" /\ tasks'[Len(tasks')].status = "done" => UpToNumber(Key)'
        /\ \A k : k \in late => k \in late'
    BY <1>2, FinishFresh
  <2>3. todo \subseteq Keys /\ (pc # "idle" => opts.runtimes \subseteq Keys)
    BY PipelineAssumption DEF PipelineKinds, Keys
  <2>4. pc \in {"ask", "decide", "poll"} => \A k \in (opts.runtimes \ failed) \ todo : UpToNumber(k)'
    BY <2>2, <2>3 DEF PdbsFresh
  <2>5. pc = "stage" /\ opts.regenerate => \A k \in todo : UpToNumber(k)'
    BY <2>2, <2>3 DEF PdbsFresh
  <2>6. StagedFresh'
    BY <2>1, <2>2 DEF PdbsFresh, StagedFresh
  <2>7. QED
    BY <2>1, <2>2, <2>4, <2>5, <2>6 DEF PdbsFresh
<1>3. ASSUME NEW o \in Options, Start(o) PROVE PdbsFresh'
  <2>1. UNCHANGED <<pdb, late, file>>
    BY <1>3 DEF Start, ghidraVars
  <2>2. CASE pc' = "ask" /\ todo' = opts'.runtimes
    BY <2>1, <2>2 DEF PdbsFresh, StagedFresh
  <2>3. CASE pc' = "stage" /\ ~opts'.regenerate
    BY <2>1, <2>3 DEF PdbsFresh, StagedFresh
  <2>4. QED
    BY <1>3, <2>2, <2>3 DEF Start
<1>4. CASE Ask
  <2>1. /\ pc = "ask" /\ pc' = "decide" /\ UNCHANGED <<pdb, late, file, opts, todo, failed>>
        /\ seen' = [seen EXCEPT ![Key] = modnum[Key]]
    BY <1>4 DEF Ask, ghidraVars
  <2>2. Key \in todo /\ \A k : k # Key => seen'[k] = seen[k]
    BY <1>0, <2>1 DEF PipelineKinds
  <2>3. \A k \in (opts.runtimes \ failed) \ todo : UpToNumber(k)'
    BY <2>1, <2>2 DEF PdbsFresh, UpToNumber
  <2>4. QED
    BY <2>1, <2>3 DEF PdbsFresh, StagedFresh
<1>5. CASE Skip
  <2>1. /\ pc = "decide" /\ Unchanged(Key) /\ NextKey(failed) /\ todo # {}
        /\ UNCHANGED <<opts, pdb, seen, late, file>>
    BY <1>5 DEF Skip, PipelineKinds, ghidraVars
  <2>2. UpToNumber(Key)
    <3>1. num = seen[Key]
      BY <2>1, NumberAsked DEF Unchanged
    <3>2. file.runtimes[Key] = num
      BY <2>1 DEF Unchanged
    <3>3. QED
      BY <1>0, <2>1, <3>1, <3>2 DEF PdbsFresh, UpToNumber
  <2>3. \A k \in (opts.runtimes \ failed) \ (todo \ {Key}) : UpToNumber(k)
    BY <2>1, <2>2 DEF PdbsFresh
  <2>4. \A k \in Keys : file'.runtimes[k] <= pdb'[k] \/ k \in late'
    BY <2>1 DEF PdbsFresh
  <2>5. QED
    BY <2>1, <2>3, <2>4, NextKeyFresh
<1>6. CASE PollDone
  <2>1. /\ pc = "poll" /\ tasks[Len(tasks)].status = "done" /\ NextKey(failed) /\ todo # {}
        /\ file' = [file EXCEPT !.runtimes = [file.runtimes EXCEPT ![Key] = num]]
        /\ UNCHANGED <<opts, pdb, seen, late>>
    BY <1>6 DEF PollDone, SaveRegenerated, PipelineKinds
  <2>2. UpToNumber(Key)
    BY <2>1 DEF PdbsFresh
  <2>3. \A k \in (opts.runtimes \ failed) \ (todo \ {Key}) : UpToNumber(k)
    BY <2>1, <2>2 DEF PdbsFresh
  <2>4. ASSUME NEW k \in Keys PROVE file'.runtimes[k] <= pdb'[k] \/ k \in late'
    <3>1. file'.runtimes[k] = IF k = Key THEN num ELSE file.runtimes[k]
      BY <2>1 DEF PipelineKinds
    <3>2. num <= seen[Key] /\ num \in Nat /\ seen[Key] \in Nat /\ pdb[Key] \in Nat
      <4>1. \A m \in Number : m \in Nat
        BY PipelineAssumption DEF Number
      <4>2. num <= seen[Key] /\ num \in Number /\ Key \in Keys
        BY <2>1, NumberAsked
      <4>3. seen[Key] \in Number /\ pdb[Key] \in Number
        BY <4>2 DEF PipelineKinds
      <4>4. QED
        BY <4>1, <4>2, <4>3
    <3>3. num <= pdb[Key] \/ Key \in late
      BY <2>2, <3>2 DEF UpToNumber
    <3>4. QED
      BY <2>1, <3>1, <3>3 DEF PdbsFresh
  <2>5. QED
    BY <2>1, <2>3, <2>4, NextKeyFresh
<1>7. CASE RegenerationFails
  <2>1. /\ pc \in {"ask", "decide", "poll"} /\ NextKey(failed \cup {Key}) /\ todo # {}
        /\ UNCHANGED <<opts, pdb, seen, late, file>>
    BY <1>7 DEF RegenerationFails, PipelineKinds
  <2>2. \A k \in (opts.runtimes \ (failed \cup {Key})) \ (todo \ {Key}) : UpToNumber(k)
    BY <2>1 DEF PdbsFresh
  <2>3. \A k \in Keys : file'.runtimes[k] <= pdb'[k] \/ k \in late'
    BY <2>1 DEF PdbsFresh
  <2>4. QED
    BY <2>1, <2>2, <2>3, NextKeyFresh
<1>8. CASE Stage
  <2>1. pc = "stage" /\ pc' = pc /\ todo' = todo \ {Key} /\ UNCHANGED <<pdb, late, file, opts, failed, seen>>
    BY <1>8 DEF Stage, ghidraVars
  <2>2. \A k \in Keys : staged'[k] = staged[k] \/ (k = Key /\ staged'[k] = pdb[k])
    BY <1>0, <1>8 DEF Stage, PipelineKinds
  <2>3. opts.regenerate => UpToNumber(Key)
    BY <1>0, <1>8, <2>1 DEF Stage, PdbsFresh
  <2>4. \A k : UpToNumber(k)' = UpToNumber(k)
    BY <2>1 DEF UpToNumber
  <2>5. StagedFresh'
    BY <2>1, <2>2, <2>3 DEF PdbsFresh, StagedFresh, UpToNumber
  <2>6. QED
    BY <2>1, <2>4, <2>5 DEF PdbsFresh
<1>9. ASSUME Exit, UNCHANGED <<pdb, late>>,
             file'.runtimes = file.runtimes \/ file' = EmptyState
      PROVE  PdbsFresh'
  <2>1. \A k \in Keys : file'.runtimes[k] <= pdb[k] \/ k \in late
    <3>1. \A k \in Keys : 0 <= pdb[k]
      BY PipelineAssumption DEF PipelineKinds, Number
    <3>2. \A k \in Keys : EmptyState.runtimes[k] = 0
      BY DEF EmptyState, None
    <3>3. QED
      BY <1>9, <3>1, <3>2 DEF PdbsFresh
  <2>2. QED
    BY <1>9, <2>1 DEF Exit, PdbsFresh, StagedFresh
<1>10. CASE Package \/ Upload \/ CreateVersion
  <2>1. UNCHANGED <<pdb, late, file, staged>>
    BY <1>10 DEF Package, Upload, CreateVersion, ghidraVars
  <2>2. \/ Exit
        \/ UNCHANGED runVars /\ pc \in {"stage", "gate", "create"} /\ pc' \in {"gate", "create", "save"}
    BY <1>10, Zenon DEF Package, Upload, CreateVersion
  <2>3. QED
    BY <1>1, <1>9, <2>1, <2>2 DEF runVars
<1>11. CASE SaveUpload \/ Killed
  <2>1. Exit /\ UNCHANGED <<pdb, late>>
    BY <1>11 DEF SaveUpload, Killed, ghidraVars
  <2>2. file'.runtimes = file.runtimes \/ file' = EmptyState
    BY <1>11 DEF SaveUpload, Killed, PipelineKinds
  <2>3. QED
    BY <1>9, <2>1, <2>2
<1>12. CASE Submit
  <2>1. PICK e : e = [key |-> Key, from |-> modnum[Key], status |-> "running"]
    OBVIOUS
  <2>2. Key \in Keys
    BY <1>0, <1>12 DEF Submit, PipelineKinds
  <2>3. e \in Task /\ tasks' = Append(tasks, e)
    BY <1>12, <2>1, <2>2 DEF Submit, Task, PipelineKinds
  <2>4. tasks'[Len(tasks')].status = "running"
    BY <2>1, <2>3, AppendProperties DEF PipelineKinds
  <2>5. QED
    BY <1>1, <1>12, <2>4 DEF Submit, runVars
<1>13. CASE (\E k \in Keys : Edit(k)) \/ UNCHANGED pipelineVars
  <2>1. UNCHANGED <<pdb, late, file, opts, todo, failed, staged, seen, pc, tasks>>
    BY <1>13 DEF Edit, pipelineVars, ghidraVars, runVars
  <2>2. QED
    BY <1>1, <2>1
<1>14. QED
  BY <1>2, <1>3, <1>4, <1>5, <1>6, <1>7, <1>8, <1>10, <1>11, <1>12, <1>13 DEF PipelineNext

-----------------------------------------------------------------------------
(* The package and its versions                                             *)

LEMMA StepStaging ==
  ASSUME PipelineKinds, StagingRight, [PipelineNext]_pipelineVars
  PROVE  StagingRight'
<1>0. todo # {} => Key \in todo /\ Key \in Keys
  BY HandledKey DEF PipelineKinds
<1>1. ASSUME UNCHANGED <<opts, todo, failed, bad, staged>>,
             \/ pc' = pc
             \/ pc \in {"ask", "decide"} /\ pc' \in {"decide", "poll"}
             \/ pc = "stage" /\ todo = {} /\ pc' = "gate"
             \/ pc \in {"gate", "create"} /\ pc' \in {"create", "save"}
      PROVE  StagingRight'
  BY <1>1 DEF StagingRight, Packed
<1>2. ASSUME NEW o \in Options, Start(o) PROVE StagingRight'
  <2>1. /\ bad' = {} /\ failed' = {} /\ todo' = opts'.runtimes /\ pc' \in {"ask", "stage"}
        /\ pc' = "stage" => staged' = None
    BY <1>2 DEF Start, PipelineKinds
  <2>2. QED
    BY <2>1 DEF StagingRight, Packed, None
<1>3. CASE Skip \/ PollDone \/ RegenerationFails
  <2>1. pc \in {"ask", "decide", "poll"} /\ UNCHANGED <<opts, bad>> /\ bad = {}
    BY <1>3 DEF Skip, PollDone, RegenerationFails, StagingRight
  <2>2. \/ pc' = "ask"
        \/ pc' = "stage" /\ todo' = opts.runtimes \ failed' /\ staged' = None
    BY <1>3 DEF Skip, PollDone, RegenerationFails, NextKey
  <2>3. QED
    BY <2>1, <2>2 DEF StagingRight, Packed, None
<1>4. CASE Stage
  <2>1. /\ pc = "stage" /\ pc' = pc /\ todo' = todo \ {Key} /\ UNCHANGED <<opts, failed>>
        /\ Key \in todo /\ Key \in Keys
    BY <1>0, <1>4 DEF Stage
  <2>2. Key \in Packed
    BY <2>1 DEF Packed, PipelineKinds, StagingRight
  <2>3. CASE pdb[Key] # 0 /\ staged' = [staged EXCEPT ![Key] = pdb[Key]] /\ UNCHANGED bad
    <3>1. Packed' = Packed
      BY <2>1, <2>3 DEF Packed
    <3>2. \A k \in Keys : staged'[k] = IF k = Key THEN pdb[Key] ELSE staged[k]
      BY <2>3 DEF PipelineKinds
    <3>3. \A k \in Keys : staged'[k] # 0 <=> k \in Packed \ todo'
      BY <2>1, <2>2, <2>3, <3>2 DEF StagingRight
    <3>4. QED
      BY <2>1, <2>3, <3>1, <3>3 DEF StagingRight
  <2>4. CASE bad' = bad \cup {Key} /\ UNCHANGED staged
    <3>1. Packed' = Packed \ {Key}
      BY <2>1, <2>4 DEF Packed
    <3>2. QED
      BY <2>1, <2>4, <3>1 DEF StagingRight
  <2>5. QED
    BY <1>4, <2>3, <2>4 DEF Stage
<1>5. ASSUME pc' = "idle" PROVE StagingRight'
  BY <1>5 DEF StagingRight
<1>6. CASE Package \/ Upload \/ CreateVersion
  <2>1. UNCHANGED staged
    BY <1>6 DEF Package, Upload, CreateVersion
  <2>2. \/ Exit
        \/ UNCHANGED runVars /\ pc = "stage" /\ todo = {} /\ pc' = "gate"
        \/ UNCHANGED runVars /\ pc \in {"gate", "create"} /\ pc' \in {"create", "save"}
    BY <1>6, Zenon DEF Package, Upload, CreateVersion
  <2>3. QED
    BY <1>1, <1>5, <2>1, <2>2 DEF Exit, runVars
<1>7. CASE SaveUpload \/ Killed
  BY <1>5, <1>7 DEF SaveUpload, Killed, Exit
<1>8. ASSUME \/ \E k \in Keys : Edit(k)
             \/ \E i \in DOMAIN tasks : Finish(i)
             \/ Ask \/ Submit \/ UNCHANGED pipelineVars
      PROVE  StagingRight'
  <2>1. UNCHANGED <<opts, todo, failed, bad, staged>>
    BY <1>8 DEF Edit, Finish, Ask, Submit, pipelineVars, runVars
  <2>2. pc' = pc \/ (pc \in {"ask", "decide"} /\ pc' \in {"decide", "poll"})
    BY <1>8 DEF Edit, Finish, Ask, Submit, pipelineVars
  <2>3. QED
    BY <1>1, <2>1, <2>2
<1>9. QED
  BY <1>2, <1>3, <1>4, <1>6, <1>7, <1>8 DEF PipelineNext

\* A version that is created holds what is staged, for every runtime, and is not
\* the one on record.
LEMMA CreateFacts ==
  ASSUME PipelineKinds, StagingRight, UploadAllowed, UploadsRight, CreateVersion
  PROVE  /\ UploadsRight'
         /\ pc' = "save" => nexus' # <<>> /\ nexus'[Len(nexus')].content = staged
<1> DEFINE v == [content |-> staged, forced |-> opts.forceUpload]
<1>1. opts.forceUpload \in BOOLEAN /\ pc = "create"
  BY PipelineAssumption DEF CreateVersion, PipelineKinds
<1>2. v \in Version
  BY <1>1 DEF PipelineKinds, Version
<1>3. nexus \in Seq(Version) /\ Len(nexus) \in Nat /\ DOMAIN nexus = 1 .. Len(nexus)
  BY LenProperties DEF PipelineKinds
<1>4. v.content = staged /\ v.forced = opts.forceUpload
  OBVIOUS
<1> HIDE DEF v
<1>5. /\ nexus' \in Seq(Version) /\ nexus' # <<>> /\ Len(nexus') = Len(nexus) + 1
      /\ \A i \in 1 .. Len(nexus) : nexus'[i] = nexus[i]
      /\ nexus'[Len(nexus) + 1] = v
  BY <1>2, <1>3, AppendProperties DEF CreateVersion, v
<1>6. DOMAIN nexus' = 1 .. Len(nexus) + 1
  BY <1>5, LenProperties
<1>7. \A k \in Keys : staged[k] # 0
  <2>1. Packed = Keys
    BY <1>1 DEF UploadAllowed, Refused, Packed
  <2>2. QED
    BY <1>1, <2>1 DEF StagingRight
<1>8. VersionsComplete'
  <2>1. ASSUME NEW i \in DOMAIN nexus', NEW k \in Keys PROVE nexus'[i].content[k] # 0
    <3>1. CASE i = Len(nexus) + 1
      BY <1>4, <1>5, <1>7, <3>1
    <3>2. CASE i # Len(nexus) + 1
      <4>1. i \in DOMAIN nexus
        BY <1>3, <1>6, <3>2
      <4>2. QED
        BY <1>3, <1>5, <4>1 DEF UploadsRight, VersionsComplete
    <3>3. QED
      BY <3>1, <3>2
  <2>2. QED
    BY <2>1 DEF VersionsComplete
<1>9. /\ \A i : i \in interrupted => i \in interrupted'
      /\ pc' = "save" \/ Len(nexus') \in interrupted'
  BY DEF CreateVersion
<1>10. NoUploadTwice'
  <2>1. ASSUME NEW i \in 1 .. Len(nexus') - 1, nexus'[i].content = nexus'[i + 1].content
        PROVE  nexus'[i + 1].forced \/ i \in interrupted'
    <3>1. i \in 1 .. Len(nexus) /\ nexus'[i] = nexus[i]
      BY <1>3, <1>5
    <3>2. CASE i = Len(nexus)
      <4>1. nexus'[i + 1] = v /\ nexus # <<>> /\ nexus[i].content = staged
        BY <1>3, <1>4, <1>5, <2>1, <3>1, <3>2, EmptySeq
      <4>2. Len(nexus) \in interrupted \/ file.last_upload = nexus[Len(nexus)].content
        BY <1>1, <4>1 DEF UploadsRight, RecordedUploaded
      <4>3. opts.forceUpload \/ file.last_upload # staged
        BY <1>1 DEF UploadAllowed, UpToDate
      <4>4. QED
        BY <1>4, <1>9, <3>2, <4>1, <4>2, <4>3
    <3>3. CASE i # Len(nexus)
      <4>1. i \in 1 .. Len(nexus) - 1 /\ i + 1 \in 1 .. Len(nexus)
        <5>1. PICK n \in Nat : n = Len(nexus)
          BY <1>3
        <5>2. i \in 1 .. n /\ i # n
          BY <3>1, <3>3, <5>1
        <5>3. i \in 1 .. n - 1 /\ i + 1 \in 1 .. n
          BY <5>2
        <5>4. QED
          BY <5>1, <5>3
      <4>2. nexus'[i + 1] = nexus[i + 1]
        BY <1>5, <4>1
      <4>3. QED
        BY <1>9, <2>1, <3>1, <4>1, <4>2 DEF UploadsRight, NoUploadTwice
    <3>4. QED
      BY <3>2, <3>3
  <2>2. QED
    BY <2>1 DEF NoUploadTwice
<1>11. RecordedUploaded'
  BY <1>9 DEF RecordedUploaded
<1>12. nexus'[Len(nexus')].content = staged
  BY <1>4, <1>5
<1>13. QED
  BY <1>5, <1>8, <1>10, <1>11, <1>12 DEF UploadsRight

LEMMA StepUploads ==
  ASSUME PipelineKinds, StagingRight, UploadAllowed, UploadsRight, [PipelineNext]_pipelineVars
  PROVE  UploadAllowed' /\ UploadsRight'
<1>1. ASSUME UNCHANGED <<nexus, interrupted>>, file'.last_upload = file.last_upload, pc # "save", pc' # "save"
      PROVE  UploadsRight'
  BY <1>1 DEF UploadsRight, VersionsComplete, NoUploadTwice, RecordedUploaded
<1>2. ASSUME pc' \notin {"create", "save"} PROVE UploadAllowed'
  BY <1>2 DEF UploadAllowed
<1>3. CASE CreateVersion
  <2>1. UploadsRight' /\ (pc' = "save" => nexus' # <<>> /\ nexus'[Len(nexus')].content = staged)
    BY <1>3, CreateFacts
  <2>2. CASE Exit
    BY <1>2, <2>1, <2>2 DEF Exit
  <2>3. CASE pc' = "save" /\ UNCHANGED runVars
    <3>1. ~Refused /\ UNCHANGED <<opts, failed, bad, staged>>
      BY <1>3, <2>3 DEF CreateVersion, UploadAllowed, runVars
    <3>2. ~Refused'
      BY <3>1 DEF Refused
    <3>3. QED
      BY <2>1, <2>3, <3>1, <3>2 DEF UploadAllowed
  <2>4. QED
    BY <1>3, <2>2, <2>3 DEF CreateVersion
<1>4. CASE SaveUpload
  <2>1. /\ pc = "save" /\ pc' = "idle" /\ UNCHANGED <<nexus, interrupted>>
        /\ file' = [file EXCEPT !.last_upload = staged]
    BY <1>4 DEF SaveUpload, Exit
  <2>2. file'.last_upload = nexus[Len(nexus)].content /\ nexus # <<>>
    BY <2>1 DEF UploadAllowed, PipelineKinds
  <2>3. UploadsRight'
    BY <2>1, <2>2 DEF UploadsRight, VersionsComplete, NoUploadTwice, RecordedUploaded
  <2>4. QED
    BY <1>2, <2>1, <2>3
<1>5. CASE Killed
  <2>1. /\ pc' = "idle" /\ UNCHANGED nexus
        /\ interrupted' = IF pc = "save" \/ file' # file THEN interrupted \cup {Len(nexus)} ELSE interrupted
    BY <1>5 DEF Killed, Exit
  <2>2. CASE pc = "save" \/ file' # file
    <3>1. interrupted' = interrupted \cup {Len(nexus)}
      BY <2>1, <2>2
    <3>2. VersionsComplete' /\ NoUploadTwice'
      BY <2>1, <3>1 DEF UploadsRight, VersionsComplete, NoUploadTwice
    <3>3. RecordedUploaded'
      BY <2>1, <3>1 DEF RecordedUploaded
    <3>4. QED
      BY <1>2, <2>1, <3>2, <3>3 DEF UploadsRight
  <2>3. CASE pc # "save" /\ file' = file
    <3>1. interrupted' = interrupted /\ pc' # "save"
      BY <2>1, <2>3
    <3>2. QED
      BY <1>1, <1>2, <2>1, <2>3, <3>1
  <2>4. QED
    BY <1>2, <2>1, <2>2, <2>3
<1>6. CASE Upload
  <2>1. /\ pc = "gate" /\ UNCHANGED <<nexus, interrupted, file, staged>>
        /\ (pc' = "create" /\ UNCHANGED runVars /\ ~Refused /\ ~UpToDate) \/ Exit
    BY <1>6, Zenon DEF Upload
  <2>2. pc' # "save"
    BY <2>1 DEF Exit
  <2>3. UploadsRight'
    BY <1>1, <2>1, <2>2
  <2>4. CASE Exit
    BY <1>2, <2>3, <2>4 DEF Exit
  <2>5. CASE pc' = "create" /\ UNCHANGED runVars /\ ~Refused /\ ~UpToDate
    <3>1. Refused' = Refused /\ UpToDate' = UpToDate
      BY <2>1, <2>5 DEF Refused, UpToDate, runVars
    <3>2. UploadAllowed'
      BY <2>5, <3>1 DEF UploadAllowed
    <3>3. QED
      BY <2>3, <3>2
  <2>6. QED
    BY <2>1, <2>4, <2>5
<1>7. CASE Skip \/ PollDone \/ RegenerationFails
  <2>1. UNCHANGED <<nexus, interrupted>> /\ pc \in {"ask", "decide", "poll"} /\ pc' \in {"ask", "stage"}
    BY <1>7 DEF Skip, PollDone, RegenerationFails, NextKey
  <2>2. file'.last_upload = file.last_upload
    BY <1>7 DEF Skip, PollDone, RegenerationFails, SaveRegenerated, PipelineKinds
  <2>3. QED
    BY <1>1, <1>2, <2>1, <2>2
<1>8. ASSUME \/ \E o \in Options : Start(o)
             \/ Ask \/ Submit \/ Stage \/ Package
      PROVE  UploadAllowed' /\ UploadsRight'
  <2>1. UNCHANGED <<nexus, interrupted, file>> /\ pc # "save"
    BY <1>8 DEF Start, Ask, Submit, Stage, Package
  <2>2. pc' \notin {"create", "save"}
    BY <1>8 DEF Start, Ask, Submit, Stage, Package, Exit
  <2>3. QED
    BY <1>1, <1>2, <2>1, <2>2
<1>9. ASSUME \/ \E k \in Keys : Edit(k)
             \/ \E i \in DOMAIN tasks : Finish(i)
             \/ UNCHANGED pipelineVars
      PROVE  UploadAllowed' /\ UploadsRight'
  <2>1. UNCHANGED <<nexus, interrupted, file, pc, opts, failed, bad, staged>>
    BY <1>9 DEF Edit, Finish, pipelineVars, runVars
  <2>2. Refused' = Refused /\ UpToDate' = UpToDate
    BY <2>1 DEF Refused, UpToDate
  <2>3. UploadAllowed'
    BY <2>1, <2>2 DEF UploadAllowed
  <2>4. UploadsRight'
    BY <2>1 DEF UploadsRight, VersionsComplete, NoUploadTwice, RecordedUploaded
  <2>5. QED
    BY <2>3, <2>4
<1>10. QED
  BY <1>3, <1>4, <1>5, <1>6, <1>7, <1>8, <1>9 DEF PipelineNext

-----------------------------------------------------------------------------
(* Theorems                                                                 *)

LEMMA InitPipelineInv == PipelineInit => PipelineInv
<1> SUFFICES ASSUME PipelineInit PROVE PipelineInv
  OBVIOUS
<1>1. PipelineKinds
  BY InitPipelineKinds
<1>2. \A k \in Keys : seen[k] = 0 /\ file.runtimes[k] = 0 /\ modnum[k] = 1 /\ pdb[k] \in {0, 1}
  BY DEF PipelineInit, EmptyState, None
<1>3. pc = "idle" /\ nexus = <<>> /\ file.last_upload = None
  BY DEF PipelineInit, EmptyState
<1>4. Len(nexus) = 0 /\ DOMAIN nexus = {}
  BY <1>3, EmptySeq
<1>5. UploadsRight
  BY <1>3, <1>4 DEF UploadsRight, VersionsComplete, NoUploadTwice, RecordedUploaded
<1>6. Polled /\ NumbersRight /\ PdbsFresh /\ StagingRight /\ UploadAllowed
  BY <1>2, <1>3 DEF Polled, NumbersRight, PdbsFresh, StagedFresh, StagingRight, UploadAllowed
<1>7. QED
  BY <1>1, <1>5, <1>6 DEF PipelineInv

LEMMA StepPipelineInv == PipelineInv /\ [PipelineNext]_pipelineVars => PipelineInv'
BY StepPipelineKinds, StepPolled, StepNumbers, StepPdbsFresh, StepStaging, StepUploads DEF PipelineInv

LEMMA PipelineInvHolds == PipelineSpec => []PipelineInv
BY InitPipelineInv, StepPipelineInv, PTL DEF PipelineSpec

\* Every variable of the scripts' model has its kind, only the task that is
\* polled can be over and still be there, and no runtime is staged that failed
\* to regenerate (regenerate_pdbs.py, package_skyrim_pdbs.py).
THEOREM PipelineTypeCorrect == PipelineSpec => []PipelineTypeOK
<1>1. PipelineInv => PipelineTypeOK
  <2> SUFFICES ASSUME PipelineInv PROVE PipelineTypeOK
    OBVIOUS
  <2>1. PipelineKinds /\ Polled
    BY DEF PipelineInv
  <2>2. file.runtimes \in [Keys -> Number] /\ file.last_upload \in [Keys -> Number]
    BY <2>1 DEF PipelineKinds
  <2>3. DOMAIN tasks = 1 .. Len(tasks)
    BY <2>1, LenProperties DEF PipelineKinds
  <2>4. QED
    BY <2>1, <2>2, <2>3 DEF PipelineKinds, Polled, PipelineTypeOK, Number
<1>2. QED
  BY <1>1, PipelineInvHolds, PTL

\* However runs are cut short, forced or refused, a version holds every runtime,
\* none is uploaded twice in a row unless its record was lost, and what is on
\* record is the newest one (package_skyrim_pdbs.py, main and upload_to_nexus).
THEOREM UploadsAreRight == PipelineSpec => []UploadsRight
<1>1. PipelineInv => UploadsRight
  BY DEF PipelineInv
<1>2. QED
  BY <1>1, PipelineInvHolds, PTL

\* A run that regenerates stages no PDB older than the program it asked about,
\* whatever was edited, skipped, given up or killed before, but for the tasks
\* that earlier runs gave up (regenerate_pdbs.py, regenerate_one).
THEOREM StagedIsFresh == PipelineSpec => []StagedFresh
<1>1. PipelineInv => StagedFresh
  BY DEF PipelineInv, PdbsFresh
<1>2. QED
  BY <1>1, PipelineInvHolds, PTL

\* The package holds the runtimes its installer offers, and for any number of
\* runtimes the installer recommends the one that the game is of, or none
\* (package_skyrim_pdbs.py, build_root).
THEOREM InstallerIsRight == PipelineSpec => []InstallerRight
<1>1. PipelineInv => InstallerRight
  <2> SUFFICES ASSUME PipelineInv, pc \in {"gate", "create", "save"} PROVE InstallerRight
    BY DEF InstallerRight
  <2>1. PipelineKinds /\ StagingRight
    BY DEF PipelineInv
  <2>2. Packed \subseteq Keys
    BY <2>1, PipelineAssumption DEF PipelineKinds, Packed, Keys
  <2>3. {k \in Keys : staged[k] # 0} = Packed
    BY <2>1, <2>2 DEF StagingRight
  <2>4. \A v \in 0 .. Len(Runtimes) : Recommended(v) = {k \in Packed : VersionOf(k) = v}
    BY <2>2, OneRecommended
  <2>5. QED
    BY <2>3, <2>4 DEF InstallerRight
<1>2. QED
  BY <1>1, PipelineInvHolds, PTL

-----------------------------------------------------------------------------
(* Sessions that look symbols up                                            *)

Opened == [at : Steps, function : Functions, initialized : BOOLEAN,
           objects : SUBSET {"source", "session", "global"},
           paths : {<<>>, <<"cache">>, <<"plugins">>, <<"plugins", "cache">>}, cached : BOOLEAN]
Apartments == {[apartment |-> "none", count |-> 0], [apartment |-> "multi", count |-> 1],
               [apartment |-> "single", count |-> 1]}

SessionKinds ==
  /\ directory \in BOOLEAN /\ checked \in BOOLEAN /\ valid \in BOOLEAN
  /\ sync \in [Functions -> Threads \cup {Free}]
  /\ session \in [Threads -> Opened]
  /\ com \in [Threads -> [apartment : {"none", "multi", "single"}, count : Nat]]
  /\ before \in [Threads -> Apartments]
  /\ calls \in 0 .. MaxCalls

\* A session that initialised COM has its thread in a multithreaded apartment,
\* with one initialisation more than the game made.
Initialized(t) == session[t].initialized /\ session[t].at # "release"
OneRight(t) ==
  /\ session[t].at \in {"idle", "initialize"} => ~session[t].initialized
  /\ Initialized(t) =>
       /\ com[t] = [apartment |-> "multi", count |-> before[t].count + 1]
       /\ before[t].apartment # "single"
  /\ ~Initialized(t) => com[t] = before[t]
  /\ \A f \in Functions : sync[f] = t <=> session[t].at # "idle" /\ session[t].function = f
ComRight == \A t \in Threads : OneRight(t)

\* Whatever a thread has stored of the cache, or is about to store, is so.
CacheRight ==
  /\ valid => directory
  /\ checked => valid = directory
  /\ \A t \in Threads :
       /\ session[t].at = "valid" => directory
       /\ session[t].at \in {"checked", "paths"} => valid = directory
       /\ session[t].at \in {"load", "open", "query"} => session[t].cached = directory

SessionInv == SessionKinds /\ ComRight /\ CacheRight

LEMMA InitSessionInv == PdbInit => SessionInv
<1> SUFFICES ASSUME PdbInit PROVE SessionInv
  OBVIOUS
<1>1. NotOpen \in Opened
  BY DEF NotOpen, Opened, Steps, Functions
<1>2. com \in [Threads -> Apartments] /\ before = com
  BY DEF PdbInit, Apartments
<1>3. com \in [Threads -> [apartment : {"none", "multi", "single"}, count : Nat]]
  BY <1>2 DEF Apartments
<1>4. 0 \in 0 .. MaxCalls
  BY SessionAssumption
<1>5. SessionKinds
  BY <1>1, <1>2, <1>3, <1>4 DEF PdbInit, SessionKinds
<1>6. ComRight
  <2>1. \A t \in Threads : session[t] = NotOpen
    BY DEF PdbInit
  <2>2. \A t \in Threads, f \in Functions : sync[f] # t
    BY SessionAssumption DEF PdbInit
  <2>3. QED
    BY <1>2, <2>1, <2>2 DEF ComRight, OneRight, Initialized, NotOpen
<1>7. CacheRight
  BY DEF PdbInit, NotOpen, CacheRight
<1>8. QED
  BY <1>5, <1>6, <1>7 DEF SessionInv

\* A step of thread t that leaves locks and COM alone changes only its session.
LEMMA SessionMoves ==
  ASSUME SessionInv, NEW t \in Threads, NEW x \in Opened,
         session' = [session EXCEPT ![t] = x],
         x.at \notin {"idle", "initialize", "release"},
         session[t].at \notin {"idle", "release"},
         x.initialized = session[t].initialized, x.function = session[t].function,
         UNCHANGED <<directory, sync, com, before, calls>>,
         checked' \in BOOLEAN, valid' \in BOOLEAN, CacheRight'
  PROVE  SessionInv'
<1>1. session'[t] = x /\ \A u \in Threads : u # t => session'[u] = session[u]
  BY DEF SessionInv, SessionKinds
<1>2. SessionKinds'
  BY DEF SessionInv, SessionKinds
<1>3. ComRight'
  BY <1>1 DEF SessionInv, ComRight, OneRight, Initialized
<1>4. QED
  BY <1>2, <1>3 DEF SessionInv

\* A thread that no step concerns stays as it was.
LEMMA OthersRight ==
  ASSUME SessionInv, NEW u \in Threads,
         session'[u] = session[u], com'[u] = com[u], before' = before,
         \A f \in Functions : sync'[f] = u <=> sync[f] = u
  PROVE  OneRight(u)'
<1>1. OneRight(u)
  BY DEF SessionInv, ComRight
<1>2. QED
  BY <1>1 DEF OneRight, Initialized

LEMMA StepSessionInv == SessionInv /\ [PdbNext]_pdbVars => SessionInv'
<1> SUFFICES ASSUME SessionInv, [PdbNext]_pdbVars PROVE SessionInv'
  OBVIOUS
<1> USE DEF SessionInv
<1>0. \A t \in Threads : session[t] \in Opened
  BY DEF SessionKinds
<1>00. \A t \in Threads : OneRight(t)
  BY DEF ComRight
<1>1. ASSUME NEW t \in Threads, Call(t) PROVE SessionInv'
  <2>1. PICK f \in Functions :
          /\ session[t].at = "idle" /\ sync[f] = Free /\ calls < MaxCalls
          /\ sync' = [sync EXCEPT ![f] = t]
          /\ session' = [session EXCEPT ![t] = [NotOpen EXCEPT !.at = "initialize", !.function = f]]
          /\ calls' = calls + 1
          /\ UNCHANGED <<directory, checked, valid, com, before>>
    BY <1>1 DEF Call
  <2>2. PICK x : x = [NotOpen EXCEPT !.at = "initialize", !.function = f]
    OBVIOUS
  <2>3. x \in Opened /\ x.at = "initialize" /\ x.function = f /\ ~x.initialized
    BY <2>2 DEF NotOpen, Opened, Steps, Functions
  <2>4. session'[t] = x /\ \A u \in Threads : u # t => session'[u] = session[u]
    BY <2>1, <2>2 DEF SessionKinds
  <2>5. calls' \in 0 .. MaxCalls
    BY <2>1, SessionAssumption DEF SessionKinds
  <2>6. SessionKinds'
    BY <2>1, <2>2, <2>3, <2>5 DEF SessionKinds
  <2>7. ComRight'
    <3>1. \A g \in Functions : sync'[g] = IF g = f THEN t ELSE sync[g]
      BY <2>1 DEF SessionKinds
    <3>2. t # Free
      BY SessionAssumption
    <3>3. \A g \in Functions : sync'[g] = t <=> g = f
      <4>1. \A g \in Functions : sync[g] # t
        BY <2>1 DEF ComRight, OneRight
      <4>2. QED
        BY <2>1, <3>1, <4>1
    <3>4. \A u \in Threads, g \in Functions : u # t => (sync'[g] = u <=> sync[g] = u)
      BY <2>1, <3>1, SessionAssumption
    <3>5. ~Initialized(t) /\ ~Initialized(t)'
      <4>1. ~session[t].initialized
        BY <2>1 DEF ComRight, OneRight
      <4>2. QED
        BY <2>3, <2>4, <4>1 DEF Initialized
    <3>6. QED
      BY <2>1, <2>3, <2>4, <3>3, <3>4, <3>5 DEF ComRight, OneRight, Initialized
  <2>8. CacheRight'
    BY <2>1, <2>3, <2>4 DEF CacheRight
  <2>9. QED
    BY <2>6, <2>7, <2>8
<1>2. ASSUME NEW t \in Threads, Initialize(t) PROVE SessionInv'
  <2>1. /\ session[t].at = "initialize" /\ ~session[t].initialized /\ com[t] = before[t]
        /\ UNCHANGED <<directory, checked, valid, sync, before, calls>>
    BY <1>2 DEF Initialize, Keeps, ComRight, OneRight, Initialized
  <2>2. PICK x : x = [session[t] EXCEPT !.at = "create", !.initialized = (com[t].apartment # "single")]
    OBVIOUS
  <2>3. session' = [session EXCEPT ![t] = x]
    BY <1>2, <2>2 DEF Initialize, SessionKinds
  <2>4. x \in Opened /\ x.at = "create" /\ x.function = session[t].function
        /\ x.initialized = (com[t].apartment # "single")
    BY <1>0, <2>2 DEF Opened, Steps
  <2>5. session'[t] = x /\ \A u \in Threads : u # t => session'[u] = session[u]
    BY <2>3 DEF SessionKinds
  <2>6. com[t] \in Apartments
    BY <2>1 DEF SessionKinds
  <2>7. CASE com[t].apartment = "single"
    <3>1. com' = com
      BY <1>2, <2>7 DEF Initialize
    <3>2. SessionKinds'
      BY <2>1, <2>3, <2>4, <3>1 DEF SessionKinds
    <3>3. ComRight'
      <4>1. ~x.initialized
        BY <2>4, <2>7
      <4>2. OneRight(t)'
        BY <2>1, <2>4, <2>5, <3>1, <4>1 DEF ComRight, OneRight, Initialized
      <4>3. QED
        BY <2>1, <2>5, <3>1, <4>2, OthersRight DEF ComRight
    <3>4. CacheRight'
      BY <2>1, <2>4, <2>5 DEF CacheRight
    <3>5. QED
      BY <3>2, <3>3, <3>4
  <2>8. CASE com[t].apartment # "single"
    <3>1. PICK c : c = [apartment |-> "multi", count |-> com[t].count + 1]
      OBVIOUS
    <3>2. com' = [com EXCEPT ![t] = c]
      BY <1>2, <2>8, <3>1 DEF Initialize
    <3>3. com[t].count \in Nat
      BY DEF SessionKinds
    <3>4. com'[t] = c /\ \A u \in Threads : u # t => com'[u] = com[u]
      BY <3>2 DEF SessionKinds
    <3>5. SessionKinds'
      BY <2>1, <2>3, <2>4, <3>1, <3>2, <3>3 DEF SessionKinds
    <3>6. ComRight'
      <4>1. x.initialized
        BY <2>4, <2>8
      <4>2. Initialized(t)'
        BY <2>4, <2>5, <4>1 DEF Initialized
      <4>3. com'[t] = [apartment |-> "multi", count |-> before'[t].count + 1] /\ before'[t].apartment # "single"
        BY <2>1, <2>8, <3>1, <3>4
      <4>4. \A f \in Functions : sync'[f] = t <=> session'[t].at # "idle" /\ session'[t].function = f
        <5>1. \A f \in Functions : sync[f] = t <=> session[t].function = f
          BY <1>00, <2>1 DEF OneRight
        <5>2. QED
          BY <2>1, <2>4, <2>5, <5>1
      <4>5. OneRight(t)'
        BY <2>4, <2>5, <4>2, <4>3, <4>4 DEF OneRight
      <4>6. QED
        BY <2>1, <2>5, <3>4, <4>5, OthersRight DEF ComRight
    <3>7. CacheRight'
      BY <2>1, <2>4, <2>5 DEF CacheRight
    <3>8. QED
      BY <3>5, <3>6, <3>7
  <2>9. QED
    BY <2>7, <2>8
<1>3. ASSUME NEW t \in Threads, InitializeFails(t) PROVE SessionInv'
  <2>1. /\ session[t].at = "initialize" /\ UNCHANGED <<directory, checked, valid, sync, com, before, calls>>
        /\ session' = [session EXCEPT ![t] = [session[t] EXCEPT !.at = "close"]]
    BY <1>3 DEF InitializeFails, Goes, Keeps
  <2>2. PICK x : x = [session[t] EXCEPT !.at = "close"]
    OBVIOUS
  <2>3. x \in Opened /\ x.at = "close" /\ x.function = session[t].function /\ x.initialized = session[t].initialized
    BY <1>0, <2>2 DEF Opened, Steps
  <2>4. session'[t] = x /\ \A u \in Threads : u # t => session'[u] = session[u]
    BY <2>1, <2>2 DEF SessionKinds
  <2>5. CacheRight'
    BY <2>1, <2>3, <2>4 DEF CacheRight
  <2>6. QED
    BY <2>1, <2>2, <2>3, <2>5, SessionMoves DEF SessionKinds
\* The steps between: one of them in the search of the cache stores what it found.
<1>4. ASSUME NEW t \in Threads,
             \/ CreateSource(t) \/ CheckCache(t) \/ StoreValid(t) \/ StoreChecked(t)
             \/ SearchPaths(t) \/ Load(t) \/ NoPdb(t) \/ OpenSession(t) \/ DiaRefuses(t)
             \/ Throws(t) \/ QueryDetails(t) \/ QueryParameters(t)
      PROVE  SessionInv'
  <2>1. UNCHANGED <<directory, sync, com, before, calls>>
    BY <1>4 DEF CreateSource, CheckCache, StoreValid, StoreChecked, SearchPaths, Load, NoPdb,
                OpenSession, DiaRefuses, Throws, QueryDetails, QueryParameters, Keeps
  <2>2. session[t].at \notin {"idle", "initialize", "close", "release"}
    BY <1>4 DEF CreateSource, CheckCache, StoreValid, StoreChecked, SearchPaths, Load, NoPdb,
                OpenSession, DiaRefuses, Throws, QueryDetails, QueryParameters
  <2>3. checked' \in BOOLEAN /\ valid' \in BOOLEAN
    BY <1>4 DEF CreateSource, CheckCache, StoreValid, StoreChecked, SearchPaths, Load, NoPdb,
                OpenSession, DiaRefuses, Throws, QueryDetails, QueryParameters, SessionKinds
  <2> DEFINE Moved(x) == /\ x \in Opened /\ session' = [session EXCEPT ![t] = x]
                         /\ x.initialized = session[t].initialized /\ x.function = session[t].function
  <2>4. ASSUME NEW x, Moved(x), x.at \notin {"idle", "initialize", "release"},
               valid' => directory,
               checked' => valid' = directory,
               valid => valid',
               x.at = "valid" => directory,
               x.at \in {"checked", "paths"} => valid' = directory,
               x.at \in {"load", "open", "query"} => x.cached = directory
        PROVE  SessionInv'
    <3>1. session'[t] = x /\ \A u \in Threads : u # t => session'[u] = session[u]
      BY <2>4 DEF SessionKinds
    <3>2. CacheRight'
      <4>1. (valid' => directory') /\ (checked' => valid' = directory')
        BY <2>1, <2>4
      <4>2. ASSUME NEW u \in Threads
            PROVE  /\ session'[u].at = "valid" => directory'
                   /\ session'[u].at \in {"checked", "paths"} => valid' = directory'
                   /\ session'[u].at \in {"load", "open", "query"} => session'[u].cached = directory'
        <5>1. CASE u = t
          BY <2>1, <2>4, <3>1, <5>1
        <5>2. CASE u # t
          <6>1. session'[u] = session[u]
            BY <3>1, <5>2
          <6>2. valid = directory => valid' = directory
            BY <2>3, <2>4 DEF SessionKinds
          <6>3. QED
            BY <2>1, <6>1, <6>2 DEF CacheRight
        <5>3. QED
          BY <5>1, <5>2
      <4>3. QED
        BY <4>1, <4>2 DEF CacheRight
    <3>3. QED
      BY <2>1, <2>2, <2>3, <2>4, <3>2, SessionMoves
  <2>5. ASSUME NEW at \in Steps, at \notin {"idle", "initialize", "release"}, Goes(t, at),
               valid' => directory,
               checked' => valid' = directory,
               valid => valid',
               at = "valid" => directory,
               at \in {"checked", "paths"} => valid' = directory,
               at \in {"load", "open", "query"} => session[t].cached = directory
        PROVE  SessionInv'
    <3>1. PICK x : x = [session[t] EXCEPT !.at = at]
      OBVIOUS
    <3>2. x \in Opened /\ x.at = at /\ x.initialized = session[t].initialized
          /\ x.function = session[t].function /\ x.cached = session[t].cached
      BY <1>0, <3>1 DEF Opened
    <3>3. session' = [session EXCEPT ![t] = x]
      BY <2>5, <3>1 DEF Goes
    <3>4. QED
      BY <2>4, <2>5, <3>2, <3>3
  <2> HIDE DEF Moved
  <2>6. CASE \/ NoPdb(t) \/ DiaRefuses(t) \/ Throws(t) \/ QueryDetails(t) \/ QueryParameters(t)
    <3>1. Goes(t, "close") /\ UNCHANGED <<checked, valid>>
      BY <2>6 DEF NoPdb, DiaRefuses, Throws, QueryDetails, QueryParameters
    <3>2. QED
      BY <2>5, <3>1 DEF CacheRight, Steps
  <2>7. CASE CheckCache(t)
    <3>1. UNCHANGED <<checked, valid>>
      BY <2>7 DEF CheckCache
    <3>2. CASE checked
      BY <2>5, <2>7, <3>1, <3>2 DEF CheckCache, CacheRight, Steps
    <3>3. CASE ~checked /\ directory
      <4>1. Goes(t, "valid") /\ (valid => directory) /\ (checked => valid = directory)
        BY <2>7, <3>3 DEF CheckCache, CacheRight
      <4>2. QED
        BY <2>5, <3>1, <3>3, <4>1 DEF Steps
    <3>4. CASE ~checked /\ ~directory
      <4>1. valid = directory
        BY <3>4 DEF CacheRight, SessionKinds
      <4>2. QED
        BY <2>5, <2>7, <3>1, <3>4, <4>1 DEF CheckCache, CacheRight, Steps
    <3>5. QED
      BY <3>2, <3>3, <3>4
  <2>8. CASE StoreValid(t)
    <3>1. valid' = TRUE /\ directory /\ Goes(t, "checked") /\ UNCHANGED checked
      BY <2>8 DEF StoreValid, CacheRight
    <3>2. valid' = directory
      BY <3>1 DEF SessionKinds
    <3>3. QED
      BY <2>5, <3>1, <3>2 DEF Steps
  <2>9. CASE StoreChecked(t)
    <3>1. Goes(t, "paths") /\ UNCHANGED valid /\ valid = directory
      BY <2>9 DEF StoreChecked, CacheRight
    <3>2. QED
      BY <2>5, <3>1 DEF Steps, CacheRight
  <2>10. CASE CreateSource(t)
    <3>1. PICK x : x = [session[t] EXCEPT !.at = "cache", !.objects = {"source"}]
      OBVIOUS
    <3>2. x \in Opened /\ x.at = "cache" /\ x.initialized = session[t].initialized
          /\ x.function = session[t].function
      BY <1>0, <3>1 DEF Opened, Steps
    <3>3. session' = [session EXCEPT ![t] = x] /\ UNCHANGED <<checked, valid>>
      BY <2>10, <3>1 DEF CreateSource, SessionKinds
    <3>4. QED
      BY <2>4, <3>2, <3>3 DEF Moved, CacheRight
  <2>11. CASE SearchPaths(t)
    <3>1. PICK x : x = [session[t] EXCEPT !.at = "load", !.cached = valid,
                          !.paths = IF valid THEN <<"plugins", "cache">> ELSE <<"plugins">>]
      OBVIOUS
    <3>2. x \in Opened /\ x.at = "load" /\ x.initialized = session[t].initialized
          /\ x.function = session[t].function /\ x.cached = valid
      BY <1>0, <3>1 DEF Opened, Steps, SessionKinds
    <3>3. session' = [session EXCEPT ![t] = x] /\ UNCHANGED <<checked, valid>>
      BY <2>11, <3>1 DEF SearchPaths, SessionKinds
    <3>4. valid = directory
      BY <2>11 DEF SearchPaths, CacheRight
    <3>5. QED
      BY <2>4, <3>2, <3>3, <3>4 DEF Moved, CacheRight
  <2>12. CASE Load(t)
    <3>1. session[t].at = "load" /\ session[t].paths # <<>> /\ UNCHANGED <<checked, valid>>
      BY <2>12 DEF Load
    <3>2. session[t].cached = directory
      BY <3>1 DEF CacheRight
    <3>3. CASE Goes(t, "open")
      BY <2>5, <3>1, <3>2, <3>3 DEF CacheRight, Steps
    <3>4. CASE session' = [session EXCEPT ![t] = [session[t] EXCEPT !.paths = Tail(session[t].paths)]]
      <4>1. PICK x : x = [session[t] EXCEPT !.paths = Tail(session[t].paths)]
        OBVIOUS
      <4>2. Tail(session[t].paths) \in {<<>>, <<"cache">>}
        <5>1. \/ session[t].paths = <<"cache">> \/ session[t].paths = <<"plugins">>
              \/ session[t].paths = <<"plugins", "cache">>
          BY <1>0, <3>1 DEF Opened
        <5>2. Tail(<<"plugins", "cache">>) = <<"cache">>
          OBVIOUS
        <5>3. \A v : Tail(<<v>>) = <<>>
          OBVIOUS
        <5>4. QED
          BY <5>1, <5>2, <5>3
      <4>3. x \in Opened /\ x.at = "load" /\ x.initialized = session[t].initialized
            /\ x.function = session[t].function /\ x.cached = session[t].cached
        BY <1>0, <3>1, <4>1, <4>2 DEF Opened
      <4>4. QED
        BY <2>4, <3>1, <3>2, <3>4, <4>1, <4>3 DEF Moved, CacheRight
    <3>5. QED
      BY <2>12, <3>3, <3>4 DEF Load
  <2>13. CASE OpenSession(t)
    <3>1. PICK x : x = [session[t] EXCEPT !.at = "query", !.objects = @ \cup {"session", "global"}]
      OBVIOUS
    <3>2. x \in Opened /\ x.at = "query" /\ x.initialized = session[t].initialized
          /\ x.function = session[t].function /\ x.cached = session[t].cached
      BY <1>0, <3>1 DEF Opened, Steps
    <3>3. session' = [session EXCEPT ![t] = x] /\ UNCHANGED <<checked, valid>>
      BY <2>13, <3>1 DEF OpenSession, SessionKinds
    <3>4. session[t].cached = directory
      BY <2>13 DEF OpenSession, CacheRight
    <3>5. QED
      BY <2>4, <3>2, <3>3, <3>4 DEF Moved, CacheRight
  <2>14. QED
    BY <1>4, <2>6, <2>7, <2>8, <2>9, <2>10, <2>11, <2>12, <2>13
<1>5. ASSUME NEW t \in Threads, Uninitialize(t) PROVE SessionInv'
  <2>1. /\ session[t].at = "close" /\ UNCHANGED <<directory, checked, valid, sync, before, calls>>
        /\ session' = [session EXCEPT ![t] = [session[t] EXCEPT !.at = "release"]]
    BY <1>5 DEF Uninitialize, Goes, Keeps
  <2>2. PICK x : x = [session[t] EXCEPT !.at = "release"]
    OBVIOUS
  <2>3. x \in Opened /\ x.at = "release" /\ x.function = session[t].function
    BY <1>0, <2>2 DEF Opened, Steps
  <2>4. session'[t] = x /\ \A u \in Threads : u # t => session'[u] = session[u]
    BY <2>1, <2>2 DEF SessionKinds
  <2>5. CacheRight'
    BY <2>1, <2>3, <2>4 DEF CacheRight
  <2>6. com' \in [Threads -> [apartment : {"none", "multi", "single"}, count : Nat]]
        /\ com'[t] = before[t] /\ \A u \in Threads : u # t => com'[u] = com[u]
    <3>1. CASE ~session[t].initialized
      <4>1. com' = com
        BY <1>5, <3>1 DEF Uninitialize
      <4>2. QED
        BY <3>1, <4>1 DEF ComRight, OneRight, Initialized, SessionKinds
    <3>2. CASE session[t].initialized
      <4>1. com[t] = [apartment |-> "multi", count |-> before[t].count + 1] /\ before[t].apartment # "single"
        BY <2>1, <3>2 DEF ComRight, OneRight, Initialized
      <4>2. before[t] \in Apartments
        BY DEF SessionKinds
      <4>3. PICK c : c = [com[t] EXCEPT !.count = com[t].count - 1,
                                        !.apartment = IF com[t].count = 1 THEN "none" ELSE com[t].apartment]
        OBVIOUS
      <4>4. com' = [com EXCEPT ![t] = c]
        BY <1>5, <3>2, <4>3 DEF Uninitialize, SessionKinds
      <4>5. CASE before[t] = [apartment |-> "none", count |-> 0]
        <5>1. com[t] = [apartment |-> "multi", count |-> 1]
          BY <4>1, <4>5
        <5>2. c = [apartment |-> "none", count |-> 0]
          <6>1. c = [[apartment |-> "multi", count |-> 1] EXCEPT !.count = 0, !.apartment = "none"]
            BY <4>3, <5>1
          <6>2. QED
            BY <6>1
        <5>3. QED
          BY <4>4, <4>5, <5>2 DEF SessionKinds
      <4>6. CASE before[t] = [apartment |-> "multi", count |-> 1]
        <5>1. com[t] = [apartment |-> "multi", count |-> 2]
          BY <4>1, <4>6
        <5>2. c = [apartment |-> "multi", count |-> 1]
          <6>1. c = [[apartment |-> "multi", count |-> 2] EXCEPT !.count = 1, !.apartment = "multi"]
            BY <4>3, <5>1
          <6>2. QED
            BY <6>1
        <5>3. QED
          BY <4>4, <4>6, <5>2 DEF SessionKinds
      <4>7. QED
        BY <4>1, <4>2, <4>5, <4>6 DEF Apartments
    <3>3. QED
      BY <1>0, <3>1, <3>2 DEF Opened
  <2>7. SessionKinds'
    BY <2>1, <2>2, <2>3, <2>6 DEF SessionKinds
  <2>8. ComRight'
    <3>1. ~Initialized(t)'
      BY <2>3, <2>4 DEF Initialized
    <3>2. \A f \in Functions : sync'[f] = t <=> session'[t].at # "idle" /\ session'[t].function = f
      <4>1. \A f \in Functions : sync[f] = t <=> session[t].function = f
        BY <1>00, <2>1 DEF OneRight
      <4>2. QED
        BY <2>1, <2>3, <2>4, <4>1
    <3>3. OneRight(t)'
      BY <2>1, <2>3, <2>4, <2>6, <3>1, <3>2 DEF OneRight
    <3>4. QED
      BY <2>1, <2>4, <2>6, <3>3, OthersRight DEF ComRight
  <2>9. QED
    BY <2>5, <2>7, <2>8
<1>6. ASSUME NEW t \in Threads, Release(t) PROVE SessionInv'
  <2>1. /\ session[t].at = "release" /\ UNCHANGED <<directory, checked, valid, com, before, calls>>
        /\ session' = [session EXCEPT ![t] = NotOpen]
        /\ sync' = [sync EXCEPT ![session[t].function] = Free]
    BY <1>6 DEF Release, Keeps
  <2>2. NotOpen \in Opened /\ NotOpen.at = "idle" /\ ~NotOpen.initialized
    BY DEF NotOpen, Opened, Steps, Functions
  <2>3. session'[t] = NotOpen /\ \A u \in Threads : u # t => session'[u] = session[u]
    BY <2>1 DEF SessionKinds
  <2>4. session[t].function \in Functions
    BY <1>0 DEF Opened
  <2>5. \A f \in Functions : sync'[f] = IF f = session[t].function THEN Free ELSE sync[f]
    BY <2>1, <2>4 DEF SessionKinds
  <2>6. SessionKinds'
    BY <2>1, <2>2 DEF SessionKinds
  <2>7. ComRight'
    <3>1. sync[session[t].function] = t
      BY <2>1, <2>4 DEF ComRight, OneRight
    <3>2. \A u \in Threads, f \in Functions : u # t => (sync'[f] = u <=> sync[f] = u)
      BY <2>5, <3>1, SessionAssumption
    <3>3. \A f \in Functions : sync'[f] # t
      <4>1. ASSUME NEW f \in Functions, f # session[t].function PROVE sync[f] # t
        <5>1. sync[f] = t => session[t].function = f
          BY <1>00 DEF OneRight
        <5>2. QED
          BY <4>1, <5>1
      <4>2. QED
        BY <2>5, <4>1, SessionAssumption
    <3>4. ~Initialized(t) /\ ~Initialized(t)'
      BY <2>1, <2>2, <2>3 DEF Initialized
    <3>5. OneRight(t)'
      BY <2>1, <2>2, <2>3, <3>3, <3>4 DEF ComRight, OneRight
    <3>6. QED
      BY <2>1, <2>3, <3>2, <3>5, OthersRight DEF ComRight
  <2>8. CacheRight'
    BY <2>1, <2>2, <2>3 DEF CacheRight
  <2>9. QED
    BY <2>6, <2>7, <2>8
<1>7. CASE UNCHANGED pdbVars
  BY <1>7 DEF pdbVars, SessionKinds, ComRight, OneRight, CacheRight, Initialized
<1>8. QED
  BY <1>1, <1>2, <1>3, <1>4, <1>5, <1>6, <1>7 DEF PdbNext

LEMMA SessionInvHolds == PdbSpec => []SessionInv
BY InitSessionInv, StepSessionInv, PTL DEF PdbSpec

\* Every variable of the sessions has its kind: in particular the two functions
\* have one holder each at most, and no apartment is initialised more than once
\* by a session (PdbHandler.cpp, PdbSession).
THEOREM SessionTypeCorrect == PdbSpec => []PdbTypeOK
<1>1. SessionInv => PdbTypeOK
  <2> SUFFICES ASSUME SessionInv PROVE PdbTypeOK
    OBVIOUS
  <2>1. before \in [Threads -> Apartment]
    BY DEF SessionInv, SessionKinds, Apartments, Apartment
  <2>2. \A t \in Threads : com[t] \in Apartment
    <3>1. \A t \in Threads : before[t] \in Apartments
      BY DEF SessionInv, SessionKinds
    <3>2. ASSUME NEW t \in Threads PROVE com[t] \in Apartment
      <4>1. CASE Initialized(t)
        <5>1. com[t] = [apartment |-> "multi", count |-> before[t].count + 1]
          BY <4>1 DEF SessionInv, ComRight, OneRight
        <5>2. before[t].count + 1 \in 0 .. 2
          BY <3>1 DEF Apartments
        <5>3. QED
          BY <5>1, <5>2 DEF Apartment
      <4>2. CASE ~Initialized(t)
        BY <2>1, <4>2 DEF SessionInv, ComRight, OneRight
      <4>3. QED
        BY <4>1, <4>2
    <3>3. QED
      BY <3>2
  <2>3. com \in [Threads -> Apartment]
    BY <2>2 DEF SessionInv, SessionKinds
  <2>4. ASSUME NEW t \in Threads
        PROVE  /\ session[t].at \in Steps /\ session[t].function \in Functions
               /\ session[t].initialized \in BOOLEAN /\ session[t].cached \in BOOLEAN
               /\ session[t].objects \subseteq {"source", "session", "global"}
               /\ Len(session[t].paths) <= 2
    <3>1. session[t] \in Opened
      BY DEF SessionInv, SessionKinds
    <3>2. \A q \in {<<>>, <<"cache">>, <<"plugins">>, <<"plugins", "cache">>} : Len(q) <= 2
      <4>1. Len(<<>>) = 0 /\ (\A v : Len(<<v>>) = 1) /\ (\A v, w : Len(<<v, w>>) = 2)
        OBVIOUS
      <4>2. ASSUME NEW q, q = <<>> \/ q = <<"cache">> \/ q = <<"plugins">> \/ q = <<"plugins", "cache">>
            PROVE  Len(q) <= 2
        <5>1. CASE q = <<>>
          BY <4>1, <5>1
        <5>2. CASE q = <<"cache">>
          BY <4>1, <5>2
        <5>3. CASE q = <<"plugins">>
          BY <4>1, <5>3
        <5>4. CASE q = <<"plugins", "cache">>
          BY <4>1, <5>4
        <5>5. QED
          BY <4>2, <5>1, <5>2, <5>3, <5>4
      <4>3. QED
        BY <4>2
    <3>3. QED
      BY <3>1, <3>2 DEF Opened
  <2>5. QED
    BY <2>1, <2>3, <2>4 DEF PdbTypeOK, SessionInv, SessionKinds
<1>2. QED
  BY <1>1, SessionInvHolds, PTL

\* However DIA refuses or faults, a session leaves the apartment of its thread as
\* it was, and frees the function it was called through (PdbSession::~PdbSession).
THEOREM ComIsBalanced == PdbSpec => []ComBalanced
<1>1. SessionInv => ComBalanced
  <2> SUFFICES ASSUME SessionInv, NEW t \in Threads
               PROVE  LET mine == session[t].initialized /\ session[t].at # "release" IN
                      /\ com[t].count = before[t].count + (IF mine THEN 1 ELSE 0)
                      /\ ~mine => com[t] = before[t]
                      /\ \A f \in Functions : sync[f] = t <=> session[t].at # "idle" /\ session[t].function = f
    BY DEF ComBalanced
  <2>1. before[t].count \in Nat
    BY DEF SessionInv, SessionKinds, Apartments
  <2>2. OneRight(t)
    BY DEF SessionInv, ComRight
  <2>3. CASE Initialized(t)
    BY <2>1, <2>2, <2>3 DEF OneRight, Initialized
  <2>4. CASE ~Initialized(t)
    BY <2>1, <2>2, <2>4 DEF OneRight, Initialized
  <2>5. QED
    BY <2>3, <2>4
<1>2. QED
  BY <1>1, SessionInvHolds, PTL

\* Any number of threads that race to find out whether there is a symbol cache
\* search it exactly if there is one (PdbSession::open, symcacheChecked).
THEOREM SymcacheIsRight == PdbSpec => []SymcacheRight
<1>1. SessionInv => SymcacheRight
  BY DEF SessionInv, CacheRight, SymcacheRight
<1>2. QED
  BY <1>1, SessionInvHolds, PTL

-----------------------------------------------------------------------------
(* The search for model paths                                               *)

MaybeId == Ids \cup {NoId}
PathSteps == {"idle", "clear", "copy", "copied", "store"}
Owned == [at : PathSteps, record : Records \cup {Nowhere}, id : MaybeId]
Searching == [at : {"none", "map", "here", "behind"}, i : 0 .. Capacity + StackSize + 1,
              found : Records \cup {Nowhere}, id : MaybeId, half : MaybeId]
Quadword == [here : MaybeId, behind : MaybeId]

PathKinds ==
  /\ records \in [Records -> Record] /\ next \in 0 .. MaxClaims
  /\ recorder \in [Recorders -> Owned]
  /\ stack \in [1 .. StackSize -> Quadword]
  /\ byId \in [Ids -> Records \cup {Nowhere}]
  /\ search \in Searching
  /\ hits \in Seq(Hit) /\ Len(hits) <= MaxHits
  /\ touched \subseteq Records

\* A record that no two threads held and no thread wrote after the search had read it
\* has no id while its path is being copied, and the path of its id otherwise.
OwnerRight(t) ==
  LET own == recorder[t] IN
  /\ own.at = "idle" => own = Idle
  /\ own.at # "idle" => own.record \in Records /\ own.id \in Ids
  /\ own.at # "idle" /\ own.record \notin touched =>
       /\ own.at \in {"copy", "copied", "store"} => records[own.record].id = NoId
       /\ own.at = "copied" => records[own.record].path[1] = own.id
       /\ own.at = "store" => records[own.record].path = Whole(own.id)
OwnersRight == \A t \in Recorders : OwnerRight(t)
OwnersApart == \A t, u \in Recorders :
  t # u /\ recorder[t].record = recorder[u].record /\ recorder[t].record # Nowhere
    => recorder[t].record \in touched
RecordsWhole == \A r \in Records :
  r \notin touched => records[r].id = NoId \/ records[r].path = Whole(records[r].id)

\* The map has the records that were read, each under the id that it had.
MapRight ==
  /\ search.at = "none" => \A id \in Ids : byId[id] = Nowhere
  /\ \A id \in Ids : byId[id] # Nowhere =>
       /\ Mapped(byId[id])
       /\ byId[id] \notin touched => records[byId[id]].id = id
  /\ \A r \in Records : r \notin touched /\ Mapped(r) /\ records[r].id # NoId =>
       byId[records[r].id] # Nowhere

PlaceRight ==
  /\ search.at = "map" => search.i \in 0 .. Capacity
  /\ search.at \in {"here", "behind"} => search.i \in 1 .. StackSize + 1
  /\ search.at = "behind" => search.i <= StackSize
  /\ search.at \in {"none", "map"} => hits = <<>> /\ search.found = Nowhere
  /\ search.found # Nowhere =>
       /\ Reading /\ Len(hits) < MaxHits
       /\ search.id \in Ids /\ search.id = IdAt /\ byId[search.id] = search.found
       /\ search.found \notin touched => search.half = search.id

\* The search has read this id at this place.
Seen(i, id) ==
  /\ search.at \in {"here", "behind"} /\ id # NoId
  /\ \/ i < search.i /\ id \in {stack[i].here, stack[i].behind}
     \/ i = search.i /\ search.at = "behind" /\ id = stack[i].here
HitsInOrder ==
  /\ \A k \in 1 .. Len(hits) : hits[k].offset <= search.i
  /\ \A j, k \in 1 .. Len(hits) :
       j < k => hits[j].offset <= hits[k].offset /\ hits[j].path # hits[k].path
SeenFound ==
  Len(hits) < MaxHits => \A i \in 1 .. StackSize, id \in Ids :
    Seen(i, id) /\ byId[id] # Nowhere /\ byId[id] \notin touched =>
      \E k \in 1 .. Len(hits) : hits[k].path = Whole(id)

PathInv == /\ PathKinds /\ OwnersRight /\ OwnersApart /\ RecordsWhole
           /\ MapRight /\ PlaceRight /\ HitsTrue /\ HitsInOrder /\ SeenFound

LEMMA RecordFacts ==
  /\ Nowhere \notin Records /\ Capacity \in Nat \ {0} /\ NoId \notin Ids
  /\ \A n \in Nat : n % Capacity \in Records
  /\ \A r \in Records : r \in Nat /\ r < Capacity
BY CapacityAssumption, IdsAssumption DEF Nowhere, Records

LEMMA InitPathInv == PathInit => PathInv
<1> SUFFICES ASSUME PathInit PROVE PathInv
  OBVIOUS
<1> USE DEF PathInit
<1>1. \A r \in Records : records[r] = [id |-> NoId, path |-> Whole(NoId)]
  OBVIOUS
<1>2. \A t \in Recorders : recorder[t] = Idle
  OBVIOUS
<1>3. search.at = "none" /\ search.i = 0 /\ search.found = Nowhere /\ search \in Searching
  BY LimitsAssumption, CapacityAssumption DEF Starting, Searching, MaybeId
<1>4. PathKinds
  BY <1>3, LimitsAssumption DEF PathKinds, Record, Whole, Idle, Owned, MaybeId, PathSteps, Quadword
<1>5. OwnersRight /\ OwnersApart /\ RecordsWhole
  BY <1>1, <1>2 DEF OwnersRight, OwnerRight, OwnersApart, RecordsWhole, Idle
<1>6. MapRight
  BY <1>1, <1>3 DEF MapRight, Mapped
<1>7. PlaceRight /\ SeenFound
  BY <1>3 DEF PlaceRight, SeenFound, Seen
<1>8. HitsTrue /\ HitsInOrder
  BY DEF HitsTrue, HitsInOrder
<1>9. QED
  BY <1>4, <1>5, <1>6, <1>7, <1>8 DEF PathInv

\* What a thread that records does changes nothing of the search, and the records
\* it spoils for the search are touched.
LEMMA WritersKeep ==
  ASSUME PathInv, UNCHANGED <<stack, byId, search, hits>>, touched \subseteq touched',
         \A r \in Records : r \notin touched' /\ Mapped(r) => records'[r].id = records[r].id
  PROVE  MapRight' /\ PlaceRight' /\ HitsTrue' /\ HitsInOrder' /\ SeenFound'
<1> USE DEF PathInv
<1>1. MapRight'
  <2>1. \A r : Mapped(r)' <=> Mapped(r)
    BY DEF Mapped
  <2>2. \A id \in Ids : byId[id] \in Records \cup {Nowhere}
    BY DEF PathKinds
  <2>3. QED
    BY <2>1, <2>2 DEF MapRight
<1>2. PlaceRight'
  BY DEF PlaceRight, Reading, IdAt
<1>3. HitsTrue' /\ HitsInOrder'
  BY DEF HitsTrue, HitsInOrder
<1>4. SeenFound'
  BY DEF SeenFound, Seen
<1>5. QED
  BY <1>1, <1>2, <1>3, <1>4

\* A thread that recorded nothing meanwhile.
LEMMA OthersOwn ==
  ASSUME PathInv, NEW t \in Recorders, NEW u \in Recorders, u # t, recorder'[u] = recorder[u],
         touched \subseteq touched',
         \A r \in Records : r \notin touched' /\ r = recorder[u].record => records'[r] = records[r]
  PROVE  OwnerRight(u)'
BY DEF PathInv, OwnersRight, OwnerRight

LEMMA ClaimInv == ASSUME PathInv, NEW t \in Recorders, Claim(t) PROVE PathInv'
<1> USE DEF PathInv
<1>1. PICK id \in Ids :
        LET r == next % Capacity IN
        /\ recorder[t] = Idle /\ next < MaxClaims
        /\ next' = next + 1
        /\ recorder' = [recorder EXCEPT ![t] = [at |-> "clear", record |-> r, id |-> id]]
        /\ touched' = IF \E u \in Recorders : recorder[u].record = r THEN touched \cup {r} ELSE touched
        /\ UNCHANGED <<records, stack, byId, search, hits>>
  BY DEF Claim
<1>2. next \in Nat /\ next \in 0 .. MaxClaims
  BY LimitsAssumption DEF PathKinds
<1>3. PICK r \in Records : r = next % Capacity
  BY <1>2, RecordFacts
<1>4. PICK own \in Owned : own = [at |-> "clear", record |-> r, id |-> id]
  BY DEF Owned, MaybeId, PathSteps
<1>5. own.at = "clear" /\ own.record = r /\ own.id = id
  BY <1>4
<1>6. recorder' = [recorder EXCEPT ![t] = own]
  BY <1>1, <1>3, <1>4
<1>7. recorder'[t] = own /\ \A u \in Recorders : u # t => recorder'[u] = recorder[u]
  BY <1>6 DEF PathKinds
<1>8. touched \subseteq touched' /\ touched' \subseteq Records
      /\ \A u \in Recorders : recorder[u].record = r => r \in touched'
  BY <1>1, <1>3 DEF PathKinds
<1>9. UNCHANGED <<records, stack, byId, search, hits>>
  BY <1>1
<1>10. PathKinds'
  <2>1. next' \in 0 .. MaxClaims
    BY <1>1, <1>2, LimitsAssumption
  <2>2. QED
    BY <1>6, <1>8, <1>9, <2>1 DEF PathKinds
<1>11. OwnersRight'
  <2>1. OwnerRight(t)'
    BY <1>5, <1>7 DEF OwnerRight
  <2>2. \A u \in Recorders : u # t => OwnerRight(u)'
    BY <1>7, <1>8, <1>9, OthersOwn
  <2>3. QED
    BY <2>1, <2>2 DEF OwnersRight
<1>12. OwnersApart'
  BY <1>5, <1>7, <1>8 DEF OwnersApart
<1>13. RecordsWhole'
  BY <1>8, <1>9 DEF RecordsWhole
<1>14. QED
  BY <1>8, <1>9, <1>10, <1>11, <1>12, <1>13, WritersKeep

\* The writes of a thread, all of one record that it holds.
LEMMA WriteInv ==
  ASSUME PathInv, NEW t \in Recorders, NEW r, r = recorder[t].record,
         recorder[t].at # "idle",
         NEW x \in Record, records' = [records EXCEPT ![r] = x],
         NEW own \in Owned, recorder' = [recorder EXCEPT ![t] = own],
         own = Idle \/ (own.at # "idle" /\ own.record = r /\ own.id = recorder[t].id),
         UNCHANGED <<next, stack, byId, search, hits>>,
         touched \subseteq touched', touched' \subseteq touched \cup {r},
         r \notin touched' /\ Mapped(r) => x.id = records[r].id,
         r \notin touched' =>
           /\ x.id = NoId \/ x.path = Whole(x.id)
           /\ own.at \in {"copy", "copied", "store"} => x.id = NoId
           /\ own.at = "copied" => x.path[1] = own.id
           /\ own.at = "store" => x.path = Whole(own.id)
  PROVE  PathInv'
<1> USE DEF PathInv
<1>1. r \in Records /\ recorder[t].id \in Ids
  BY DEF OwnersRight, OwnerRight
<1>2. recorder'[t] = own /\ \A u \in Recorders : u # t => recorder'[u] = recorder[u]
  BY DEF PathKinds
<1>3. records'[r] = x /\ \A q \in Records : q # r => records'[q] = records[q]
  BY <1>1 DEF PathKinds
<1>4. PathKinds'
  BY <1>1 DEF PathKinds
<1>5. OwnersRight'
  <2>1. OwnerRight(t)'
    BY <1>1, <1>2, <1>3 DEF OwnerRight, Idle
  <2>2. ASSUME NEW u \in Recorders, u # t PROVE OwnerRight(u)'
    <3>1. recorder[u].record = r => r \in touched
      BY <1>1, <2>2, RecordFacts DEF OwnersApart
    <3>2. QED
      BY <1>2, <1>3, <2>2, <3>1, OthersOwn
  <2>3. QED
    BY <2>1, <2>2 DEF OwnersRight
<1>6. OwnersApart'
  <2>1. own.record = r \/ own.record = Nowhere
    BY DEF Idle
  <2>2. \A u \in Recorders : u # t /\ recorder[u].record = r => r \in touched
    BY <1>1, RecordFacts DEF OwnersApart
  <2>3. QED
    BY <1>2, <2>1, <2>2 DEF OwnersApart
<1>7. RecordsWhole'
  BY <1>3 DEF RecordsWhole
<1>8. QED
  BY <1>3, <1>4, <1>5, <1>6, <1>7, WritersKeep

LEMMA ClearInv == ASSUME PathInv, NEW t \in Recorders, Clear(t) PROVE PathInv'
<1>1. PICK r : r = recorder[t].record
  OBVIOUS
<1>2. /\ recorder[t].at = "clear" /\ recorder[t] \in Owned /\ r \in Records
      /\ records[r] \in Record
  BY <1>1 DEF Clear, PathInv, PathKinds, OwnersRight, OwnerRight
<1>3. PICK x : x = [records[r] EXCEPT !.id = NoId]
  OBVIOUS
<1>4. x \in Record /\ x.id = NoId
  BY <1>2, <1>3 DEF Record
<1>5. PICK own : own = [recorder[t] EXCEPT !.at = "copy"]
  OBVIOUS
<1>6. own \in Owned /\ own.at = "copy" /\ own.record = r /\ own.id = recorder[t].id
  BY <1>1, <1>2, <1>5 DEF Owned, PathSteps
<1>7. /\ records' = [records EXCEPT ![r] = x] /\ recorder' = [recorder EXCEPT ![t] = own]
      /\ touched' = (IF Mapped(r) THEN touched \cup {r} ELSE touched)
      /\ UNCHANGED <<next, stack, byId, search, hits>>
  BY <1>1, <1>2, <1>3, <1>5 DEF Clear, PathInv, PathKinds
<1>8. QED
  BY <1>1, <1>2, <1>4, <1>6, <1>7, WriteInv

LEMMA TwoHalves ==
  ASSUME NEW S, NEW p \in S \X S, NEW v \in S
  PROVE  /\ [p EXCEPT ![1] = v] = <<v, p[2]>>
         /\ [p EXCEPT ![2] = v] = <<p[1], v>>
OBVIOUS

LEMMA CopyPathInv == ASSUME PathInv, NEW t \in Recorders, CopyPath(t) PROVE PathInv'
<1>1. PICK half \in 1 .. 2 :
        LET r == recorder[t].record IN
        /\ recorder[t].at = (IF half = 1 THEN "copy" ELSE "copied")
        /\ records' = [records EXCEPT ![r].path[half] = recorder[t].id]
        /\ recorder' = [recorder EXCEPT ![t].at = IF half = 1 THEN "copied" ELSE "store"]
        /\ UNCHANGED <<next, stack, byId, search, hits, touched>>
  BY DEF CopyPath
<1>2. PICK r : r = recorder[t].record
  OBVIOUS
<1>3. /\ recorder[t].at # "idle" /\ recorder[t] \in Owned /\ r \in Records
      /\ records[r] \in Record /\ recorder[t].id \in MaybeId
  BY <1>1, <1>2 DEF PathInv, PathKinds, OwnersRight, OwnerRight, MaybeId
<1>4. PICK q : q = [records[r].path EXCEPT ![half] = recorder[t].id]
  OBVIOUS
<1>5. PICK x : x = [records[r] EXCEPT !.path = q]
  OBVIOUS
<1>6. PICK own : own = [recorder[t] EXCEPT !.at = IF half = 1 THEN "copied" ELSE "store"]
  OBVIOUS
<1>7. records[r].path \in MaybeId \X MaybeId
  BY <1>3 DEF Record, MaybeId
<1>8. /\ half = 1 => q = <<recorder[t].id, records[r].path[2]>>
      /\ half = 2 => q = <<records[r].path[1], recorder[t].id>>
  BY <1>3, <1>4, <1>7, TwoHalves
<1>9. q \in MaybeId \X MaybeId
  BY <1>1, <1>3, <1>7, <1>8
<1>10. x \in Record /\ x.id = records[r].id /\ x.path = q
  BY <1>3, <1>5, <1>9 DEF Record, MaybeId
<1>11. own \in Owned /\ own.record = r /\ own.id = recorder[t].id
       /\ own.at = IF half = 1 THEN "copied" ELSE "store"
  BY <1>2, <1>3, <1>6 DEF Owned, PathSteps
<1>12. /\ records' = [records EXCEPT ![r] = x] /\ recorder' = [recorder EXCEPT ![t] = own]
       /\ UNCHANGED <<next, stack, byId, search, hits, touched>>
  BY <1>1, <1>2, <1>3, <1>4, <1>5, <1>6 DEF PathInv, PathKinds
<1>13. r \notin touched =>
         /\ records[r].id = NoId
         /\ recorder[t].at = "copied" => records[r].path[1] = recorder[t].id
  BY <1>1, <1>2, <1>3 DEF PathInv, OwnersRight, OwnerRight
<1>14. r \notin touched =>
         /\ own.at = "copied" => q[1] = own.id
         /\ own.at = "store" => q = Whole(own.id)
  <2>1. CASE half = 1
    BY <1>8, <1>11, <2>1
  <2>2. CASE half = 2
    BY <1>1, <1>8, <1>11, <1>13, <2>2 DEF Whole
  <2>3. QED
    BY <1>1, <2>1, <2>2
<1>15. own.at # "idle"
  BY <1>11
<1>16. QED
  BY <1>2, <1>3, <1>10, <1>11, <1>12, <1>13, <1>14, <1>15, WriteInv

LEMMA StoreIdInv == ASSUME PathInv, NEW t \in Recorders, StoreId(t) PROVE PathInv'
<1>1. PICK r : r = recorder[t].record
  OBVIOUS
<1>2. /\ recorder[t].at = "store" /\ recorder[t] \in Owned /\ r \in Records
      /\ records[r] \in Record /\ recorder[t].id \in Ids
      /\ r \notin touched => records[r].path = Whole(recorder[t].id)
  BY <1>1 DEF StoreId, PathInv, PathKinds, OwnersRight, OwnerRight
<1>3. PICK x : x = [records[r] EXCEPT !.id = recorder[t].id]
  OBVIOUS
<1>4. x \in Record /\ x.id = recorder[t].id /\ x.path = records[r].path
  BY <1>2, <1>3 DEF Record
<1>5. Idle \in Owned /\ Idle.at = "idle"
  BY DEF Idle, Owned, PathSteps, MaybeId
<1>6. /\ records' = [records EXCEPT ![r] = x] /\ recorder' = [recorder EXCEPT ![t] = Idle]
      /\ touched' = (IF Mapped(r) THEN touched \cup {r} ELSE touched)
      /\ UNCHANGED <<next, stack, byId, search, hits>>
  BY <1>1, <1>2, <1>3 DEF StoreId, PathInv, PathKinds
<1>7. touched \subseteq touched'
  BY <1>6
<1>8. QED
  BY <1>1, <1>2, <1>4, <1>5, <1>6, <1>7, WriteInv

\* The search changes no record: what remains to be shown is about what it knows.
LEMMA SearchKeeps ==
  ASSUME PathInv, UNCHANGED <<records, next, recorder, stack, touched>>,
         byId' \in [Ids -> Records \cup {Nowhere}], search' \in Searching,
         hits' \in Seq(Hit), Len(hits') <= MaxHits,
         MapRight', PlaceRight', HitsTrue', HitsInOrder', SeenFound'
  PROVE  PathInv'
BY DEF PathInv, PathKinds, OwnersRight, OwnerRight, OwnersApart, RecordsWhole

\* Every id that is passed has a hit, if one is recorded under it.
LEMMA NextReadInv ==
  ASSUME PathInv, Reading, search' = NextRead, UNCHANGED <<records, next, recorder, stack, byId, touched>>,
         hits' \in Seq(Hit), Len(hits') <= MaxHits, Len(hits) <= Len(hits'),
         \A k \in 1 .. Len(hits) : hits'[k] = hits[k],
         \A k \in 1 .. Len(hits') : hits'[k].record \notin touched => hits'[k].path = Whole(hits'[k].id),
         \A k \in 1 .. Len(hits') : hits'[k].offset <= search.i,
         \A j, k \in 1 .. Len(hits') :
           j < k => hits'[j].offset <= hits'[k].offset /\ hits'[j].path # hits'[k].path,
         Len(hits') < MaxHits /\ IdAt # NoId /\ byId[IdAt] # Nowhere /\ byId[IdAt] \notin touched
           => \E k \in 1 .. Len(hits') : hits'[k].path = Whole(IdAt)
  PROVE  PathInv'
<1> USE DEF PathInv
<1>1. search \in Searching /\ search.i \in 1 .. StackSize /\ StackSize \in Nat /\ Capacity \in Nat
  BY LimitsAssumption, CapacityAssumption DEF PathKinds, PlaceRight, Reading, Searching
<1>2. /\ search' \in Searching /\ search'.found = Nowhere
      /\ search.at = "here" => search'.at = "behind" /\ search'.i = search.i
      /\ search.at = "behind" => search'.at = "here" /\ search'.i = search.i + 1
  <2>1. CASE search.at = "here"
    BY <1>1, <2>1 DEF NextRead, Searching, MaybeId
  <2>2. CASE search.at = "behind"
    <3>1. search.i + 1 \in 0 .. Capacity + StackSize + 1
      BY <1>1
    <3>2. search' = [search EXCEPT !.at = "here", !.i = search.i + 1, !.found = Nowhere,
                                   !.id = NoId, !.half = NoId]
      BY <2>2 DEF NextRead
    <3>3. QED
      BY <1>1, <2>2, <3>1, <3>2 DEF Searching, MaybeId
  <2>3. QED
    BY <2>1, <2>2 DEF Reading
<1>3. search.at \in {"here", "behind"}
  BY DEF Reading
<1>4. MapRight'
  <2>1. \A r : Mapped(r) <=> Mapped(r)'
    BY <1>2, <1>3 DEF Mapped
  <2>2. QED
    BY <1>2, <1>3, <2>1 DEF MapRight
<1>5. PlaceRight'
  BY <1>1, <1>2, <1>3 DEF PlaceRight
<1>6. HitsTrue'
  BY DEF HitsTrue
<1>7. HitsInOrder'
  <2>1. \A k \in 1 .. Len(hits') : hits'[k].offset <= search'.i
    <3>1. ASSUME NEW k \in 1 .. Len(hits') PROVE hits'[k].offset <= search'.i
      <4>1. hits'[k] \in Hit
        OBVIOUS
      <4>2. hits'[k].offset \in Nat /\ hits'[k].offset <= search.i
        BY <4>1, LimitsAssumption DEF Hit
      <4>3. QED
        BY <1>1, <1>2, <1>3, <4>2
    <3>2. QED
      BY <3>1
  <2>2. QED
    BY <2>1 DEF HitsInOrder
<1>8. SeenFound'
  <2>1. SUFFICES ASSUME Len(hits') < MaxHits, NEW i \in 1 .. StackSize, NEW id \in Ids,
                        Seen(i, id)', byId[id] # Nowhere, byId[id] \notin touched
                 PROVE  \E k \in 1 .. Len(hits') : hits'[k].path = Whole(id)
    BY DEF SeenFound
  <2>2. Seen(i, id) \/ (i = search.i /\ id = IdAt)
    BY <1>1, <1>2, <1>3, <2>1 DEF Seen, IdAt
  <2>3. CASE Seen(i, id)
    <3>1. Len(hits) < MaxHits
      BY <2>1, LimitsAssumption DEF PathKinds
    <3>2. PICK k \in 1 .. Len(hits) : hits[k].path = Whole(id)
      BY <2>1, <2>3, <3>1 DEF SeenFound
    <3>3. k \in 1 .. Len(hits') /\ hits'[k] = hits[k]
      BY DEF PathKinds
    <3>4. QED
      BY <3>2, <3>3
  <2>4. CASE i = search.i /\ id = IdAt
    BY <2>1, <2>4, RecordFacts
  <2>5. QED
    BY <2>2, <2>3, <2>4
<1>9. QED
  BY <1>2, <1>4, <1>5, <1>6, <1>7, <1>8, SearchKeeps DEF PathKinds

LEMMA SearchInv == PathInv /\ Search => PathInv'
<1> SUFFICES ASSUME PathInv, Search PROVE PathInv'
  OBVIOUS
<1> USE DEF PathInv
<1>1. /\ search.at = "none" /\ search' = Starting
      /\ UNCHANGED <<records, next, recorder, stack, byId, hits, touched>>
  BY DEF Search
<1>2. Starting \in Searching /\ Starting.at = "map" /\ Starting.i = 0 /\ Starting.found = Nowhere
  BY CapacityAssumption, LimitsAssumption DEF Starting, Searching, MaybeId
<1>3. hits = <<>> /\ \A id \in Ids : byId[id] = Nowhere
  BY <1>1 DEF PlaceRight, MapRight
<1>4. \A r \in Records : ~Mapped(r)'
  BY <1>1, <1>2, RecordFacts DEF Mapped
<1>5. MapRight'
  BY <1>1, <1>2, <1>3, <1>4 DEF MapRight
<1>6. PlaceRight' /\ SeenFound'
  BY <1>1, <1>2, <1>3, CapacityAssumption DEF PlaceRight, SeenFound, Seen
<1>7. HitsTrue' /\ HitsInOrder'
  BY <1>1, <1>3 DEF HitsTrue, HitsInOrder
<1>8. QED
  BY <1>1, <1>2, <1>5, <1>6, <1>7, SearchKeeps DEF PathKinds

LEMMA MapRecordInv == PathInv /\ MapRecord => PathInv'
<1> SUFFICES ASSUME PathInv, MapRecord PROVE PathInv'
  OBVIOUS
<1> USE DEF PathInv
<1>1. /\ search.at = "map" /\ search.i < Capacity
      /\ search' = [search EXCEPT !.i = @ + 1]
      /\ UNCHANGED <<records, next, recorder, stack, hits, touched>>
  BY DEF MapRecord
<1>2. PICK r \in Records : r = search.i
  BY <1>1, CapacityAssumption DEF PlaceRight, Records
<1>3. PICK id : id = records[r].id
  OBVIOUS
<1>4. id \in MaybeId
  BY <1>3 DEF PathKinds, Record, MaybeId
<1>5. byId' = IF id = NoId THEN byId ELSE [byId EXCEPT ![id] = r]
  BY <1>2, <1>3 DEF MapRecord
<1>6. /\ search' \in Searching /\ search'.at = "map" /\ search'.i = r + 1
      /\ search'.found = search.found
  <2>1. r + 1 \in 0 .. Capacity + StackSize + 1
    BY CapacityAssumption, LimitsAssumption DEF Records
  <2>2. search' = [search EXCEPT !.i = r + 1]
    BY <1>1, <1>2
  <2>3. QED
    BY <1>1, <2>1, <2>2 DEF PathKinds, Searching
<1>7. \A q \in Records : Mapped(q)' <=> (Mapped(q) \/ q = r)
  BY <1>1, <1>2, <1>6, RecordFacts DEF Mapped
<1>8. /\ id # NoId => byId'[id] = r
      /\ \A j \in Ids : j # id => byId'[j] = byId[j]
      /\ byId' \in [Ids -> Records \cup {Nowhere}]
  BY <1>4, <1>5, IdsAssumption DEF PathKinds, MaybeId
<1>9. hits = <<>>
  BY <1>1 DEF PlaceRight
<1>10. MapRight'
  <2>1. ASSUME NEW j \in Ids, byId'[j] # Nowhere
        PROVE  Mapped(byId[j])' /\ (byId'[j] \notin touched' => records'[byId'[j]].id = j)
    <3>1. CASE j = id
      <4>1. byId'[j] = r
        BY <1>8, <3>1, IdsAssumption
      <4>2. Mapped(r)'
        BY <1>7
      <4>3. Mapped(byId[j])'
        BY <4>1, <4>2 DEF Mapped
      <4>4. QED
        BY <1>1, <1>3, <3>1, <4>1, <4>3
    <3>2. CASE j # id
      <4>1. byId'[j] = byId[j] /\ byId[j] \in Records
        BY <1>8, <2>1, <3>2 DEF PathKinds
      <4>2. Mapped(byId[j]) /\ (byId[j] \notin touched => records[byId[j]].id = j)
        BY <2>1, <4>1 DEF MapRight
      <4>3. PICK q \in Records : q = byId[j]
        BY <4>1
      <4>4. Mapped(q)'
        BY <1>7, <4>2, <4>3
      <4>5. Mapped(byId[j])'
        BY <4>1, <4>3, <4>4 DEF Mapped
      <4>6. QED
        BY <1>1, <4>1, <4>2, <4>5
    <3>3. QED
      BY <3>1, <3>2
  <2>2. ASSUME NEW q \in Records, q \notin touched', Mapped(q)', records'[q].id # NoId
        PROVE  byId'[records'[q].id] # Nowhere
    <3>1. records'[q].id \in Ids
      BY <1>1, <2>2 DEF PathKinds, Record
    <3>2. CASE q = r
      BY <1>1, <1>3, <1>8, <2>2, <3>2, RecordFacts
    <3>3. CASE q # r
      <4>1. byId[records[q].id] # Nowhere
        BY <1>1, <1>7, <2>2, <3>3 DEF MapRight
      <4>2. QED
        BY <1>1, <1>8, <3>1, <4>1, RecordFacts
    <3>4. QED
      BY <3>2, <3>3
  <2>3. QED
    BY <1>6, <2>1, <2>2 DEF MapRight
<1>11. PlaceRight'
  BY <1>1, <1>2, <1>6, <1>9, CapacityAssumption DEF PlaceRight, Records
<1>12. HitsTrue' /\ HitsInOrder' /\ SeenFound'
  BY <1>1, <1>6, <1>9 DEF HitsTrue, HitsInOrder, SeenFound, Seen
<1>13. QED
  BY <1>1, <1>6, <1>8, <1>10, <1>11, <1>12, SearchKeeps DEF PathKinds

LEMMA MapBuiltInv == PathInv /\ MapBuilt => PathInv'
<1> SUFFICES ASSUME PathInv, MapBuilt PROVE PathInv'
  OBVIOUS
<1> USE DEF PathInv
<1>1. /\ search.at = "map" /\ search.i = Capacity
      /\ search' = [search EXCEPT !.at = "here", !.i = 1]
      /\ UNCHANGED <<records, next, recorder, stack, byId, hits, touched>>
  BY DEF MapBuilt
<1>2. /\ search' \in Searching /\ search'.at = "here" /\ search'.i = 1
      /\ search'.found = search.found
  <2>1. 1 \in 0 .. Capacity + StackSize + 1
    BY CapacityAssumption, LimitsAssumption
  <2>2. QED
    BY <1>1, <2>1 DEF PathKinds, Searching
<1>3. \A r \in Records : Mapped(r) /\ Mapped(r)'
  BY <1>1, <1>2, RecordFacts DEF Mapped
<1>4. hits = <<>> /\ search.found = Nowhere
  BY <1>1 DEF PlaceRight
<1>5. MapRight'
  <2>1. \A id \in Ids : byId[id] # Nowhere => byId[id] \in Records
    BY DEF PathKinds
  <2>2. \A r : Mapped(r)'
    BY <1>1, <1>2 DEF Mapped
  <2>3. QED
    BY <1>1, <1>2, <1>3, <2>1, <2>2 DEF MapRight
<1>6. PlaceRight'
  BY <1>1, <1>2, <1>4, LimitsAssumption DEF PlaceRight
<1>7. SeenFound'
  BY <1>1, <1>2, LimitsAssumption DEF SeenFound, Seen
<1>8. HitsTrue' /\ HitsInOrder'
  BY <1>1, <1>4 DEF HitsTrue, HitsInOrder
<1>9. QED
  BY <1>1, <1>2, <1>5, <1>6, <1>7, <1>8, SearchKeeps DEF PathKinds

LEMMA PassOverInv == PathInv /\ PassOver => PathInv'
<1> SUFFICES ASSUME PathInv, PassOver PROVE PathInv'
  OBVIOUS
<1> USE DEF PathInv
<1>1. /\ Reading /\ search' = NextRead
      /\ UNCHANGED <<records, next, recorder, stack, byId, hits, touched>>
      /\ IdAt = NoId \/ byId[IdAt] = Nowhere \/ Len(hits) >= MaxHits
  BY DEF PassOver
<1>2. hits \in Seq(Hit) /\ Len(hits) <= MaxHits /\ MaxHits \in Nat
  BY LimitsAssumption DEF PathKinds
<1>3. ~(Len(hits) < MaxHits /\ IdAt # NoId /\ byId[IdAt] # Nowhere)
  BY <1>1, <1>2
<1>4. QED
  BY <1>1, <1>2, <1>3, NextReadInv DEF HitsTrue, HitsInOrder

LEMMA BeginHitInv == PathInv /\ BeginHit => PathInv'
<1> SUFFICES ASSUME PathInv, BeginHit PROVE PathInv'
  OBVIOUS
<1> USE DEF PathInv
<1>1. PICK r, id : r = byId[IdAt] /\ id = IdAt
  OBVIOUS
<1>2. /\ Reading /\ search.found = Nowhere /\ id # NoId /\ r # Nowhere /\ Len(hits) < MaxHits
      /\ search' = [search EXCEPT !.found = r, !.id = id, !.half = records[r].path[1]]
      /\ UNCHANGED <<records, next, recorder, stack, byId, hits, touched>>
  BY <1>1 DEF BeginHit
<1>3. search.i \in 1 .. StackSize
  BY <1>2 DEF PlaceRight, Reading
<1>4. id \in Ids
  BY <1>1, <1>2, <1>3 DEF IdAt, PathKinds, Quadword, MaybeId
<1>5. r \in Records /\ byId[id] = r
  BY <1>1, <1>2, <1>4 DEF PathKinds
<1>6. records[r].path[1] \in MaybeId
  BY <1>5 DEF PathKinds, Record, MaybeId
<1>7. /\ search' \in Searching /\ search'.found = r /\ search'.id = id
      /\ search'.half = records[r].path[1] /\ search'.at = search.at /\ search'.i = search.i
  BY <1>2, <1>4, <1>5, <1>6 DEF PathKinds, Searching, MaybeId
<1>8. r \notin touched => records[r].path[1] = id
  <2>1. r \notin touched => records[r].id = id
    BY <1>2, <1>4, <1>5 DEF MapRight
  <2>2. QED
    BY <1>2, <1>5, <2>1 DEF RecordsWhole, Whole
<1>9. MapRight'
  <2>1. \A q : Mapped(q)' <=> Mapped(q)
    BY <1>2, <1>7 DEF Mapped
  <2>2. QED
    BY <1>2, <1>7, <2>1 DEF MapRight
<1>10. PlaceRight'
  <2>1. Reading' /\ IdAt' = id
    <3>1. UNCHANGED stack /\ search'.at = search.at /\ search'.i = search.i
      BY <1>2, <1>7
    <3>2. Reading'
      BY <1>2, <3>1 DEF Reading
    <3>3. IdAt' = IdAt
      BY <3>1 DEF IdAt
    <3>4. QED
      BY <1>1, <3>2, <3>3
  <2>2. QED
    BY <1>2, <1>3, <1>4, <1>5, <1>7, <1>8, <2>1 DEF PlaceRight, Reading
<1>11. HitsTrue' /\ HitsInOrder' /\ SeenFound'
  BY <1>2, <1>7 DEF HitsTrue, HitsInOrder, SeenFound, Seen
<1>12. QED
  BY <1>2, <1>7, <1>9, <1>10, <1>11, SearchKeeps DEF PathKinds

LEMMA EndHitInv == PathInv /\ EndHit => PathInv'
<1> SUFFICES ASSUME PathInv, EndHit PROVE PathInv'
  OBVIOUS
<1> USE DEF PathInv
<1>1. PICK r, id, text : r = search.found /\ id = search.id
                         /\ text = <<search.half, records[search.found].path[2]>>
  OBVIOUS
<1>2. PICK hit : hit = [path |-> text, offset |-> search.i, id |-> id, record |-> r]
  OBVIOUS
<1>3. /\ Reading /\ r # Nowhere /\ search' = NextRead
      /\ hits' = IF \E k \in 1 .. Len(hits) : hits[k].path = text THEN hits ELSE Append(hits, hit)
      /\ UNCHANGED <<records, next, recorder, stack, byId, touched>>
  BY <1>1, <1>2 DEF EndHit
<1>4. /\ Len(hits) < MaxHits /\ id \in Ids /\ id = IdAt /\ byId[id] = r
      /\ r \notin touched => search.half = id
  BY <1>1, <1>3 DEF PlaceRight
<1>5. r \in Records /\ search.i \in 1 .. StackSize /\ search.half \in MaybeId
  BY <1>1, <1>3 DEF PathKinds, Searching, PlaceRight, Reading
<1>6. records[r].path \in MaybeId \X MaybeId
  BY <1>5 DEF PathKinds, Record, MaybeId
<1>7. hit \in Hit /\ hit.path = text /\ hit.offset = search.i /\ hit.id = id /\ hit.record = r
  BY <1>1, <1>2, <1>4, <1>5, <1>6 DEF Hit, MaybeId
<1>8. r \notin touched => text = Whole(id)
  <2>1. r \notin touched => records[r].id = id
    BY <1>3, <1>4 DEF MapRight
  <2>2. id # NoId
    BY <1>4, IdsAssumption
  <2>3. QED
    BY <1>1, <1>4, <1>5, <2>1, <2>2 DEF RecordsWhole, Whole
<1>9. /\ \A k \in 1 .. Len(hits) : hits[k].offset <= search.i
      /\ \A j, k \in 1 .. Len(hits) :
           j < k => hits[j].offset <= hits[k].offset /\ hits[j].path # hits[k].path
      /\ \A k \in 1 .. Len(hits) : hits[k].record \notin touched => hits[k].path = Whole(hits[k].id)
  BY DEF HitsTrue, HitsInOrder
<1>10. PICK n \in Nat : n = Len(hits)
  BY DEF PathKinds
<1>11. hits \in Seq(Hit) /\ MaxHits \in Nat
  BY LimitsAssumption DEF PathKinds
<1>12. CASE \E k \in 1 .. Len(hits) : hits[k].path = text
  <2>1. hits' = hits
    BY <1>3, <1>12
  <2>2. byId[IdAt] \notin touched => \E k \in 1 .. Len(hits) : hits[k].path = Whole(IdAt)
    BY <1>4, <1>8, <1>12
  <2>3. Len(hits) <= MaxHits
    BY <1>4, <1>10, <1>11
  <2>4. QED
    BY <1>3, <1>9, <1>10, <1>11, <2>1, <2>2, <2>3, NextReadInv
<1>13. CASE ~\E k \in 1 .. Len(hits) : hits[k].path = text
  <2>1. hits' = Append(hits, hit)
    BY <1>3, <1>13
  <2>2. /\ hits' \in Seq(Hit) /\ Len(hits') = n + 1 /\ hits'[n + 1] = hit
        /\ \A k \in 1 .. n : hits'[k] = hits[k]
    BY <1>7, <1>10, <1>11, <2>1
  <2>3. \A k \in 1 .. n + 1 : k \in 1 .. n \/ k = n + 1
    OBVIOUS
  <2>4. /\ \A k \in 1 .. n + 1 : hits'[k].offset <= search.i
        /\ \A k \in 1 .. n + 1 : hits'[k].record \notin touched => hits'[k].path = Whole(hits'[k].id)
    BY <1>5, <1>7, <1>8, <1>9, <1>10, <2>2, <2>3
  <2>5. ASSUME NEW j \in 1 .. n + 1, NEW k \in 1 .. n + 1, j < k
        PROVE  hits'[j].offset <= hits'[k].offset /\ hits'[j].path # hits'[k].path
    <3>1. j \in 1 .. n
      BY <2>5
    <3>2. CASE k \in 1 .. n
      BY <1>9, <1>10, <2>2, <2>5, <3>1, <3>2
    <3>3. CASE k = n + 1
      BY <1>7, <1>9, <1>10, <1>13, <2>2, <3>1, <3>3
    <3>4. QED
      BY <2>3, <3>2, <3>3
  <2>6. byId[IdAt] \notin touched => \E k \in 1 .. n + 1 : hits'[k].path = Whole(IdAt)
    BY <1>4, <1>7, <1>8, <2>2
  <2>7. Len(hits') <= MaxHits /\ Len(hits) <= Len(hits')
    BY <1>4, <1>10, <1>11, <2>2
  <2>8. QED
    BY <1>3, <1>10, <2>2, <2>4, <2>5, <2>6, <2>7, NextReadInv
<1>14. QED
  BY <1>12, <1>13

LEMMA StepPathInv == PathInv /\ [PathNext]_pathVars => PathInv'
<1> SUFFICES ASSUME PathInv, [PathNext]_pathVars PROVE PathInv'
  OBVIOUS
<1>1. CASE UNCHANGED pathVars
  <2>1. /\ MapRight' /\ PlaceRight' /\ HitsTrue' /\ HitsInOrder' /\ SeenFound'
    BY <1>1, WritersKeep DEF pathVars
  <2>2. QED
    BY <1>1, <2>1, SearchKeeps DEF pathVars, PathInv, PathKinds
<1>2. QED
  BY <1>1, ClaimInv, ClearInv, CopyPathInv, StoreIdInv, SearchInv, MapRecordInv, MapBuiltInv,
     PassOverInv, BeginHitInv, EndHitInv DEF PathNext

LEMMA PathInvHolds == PathSpec => []PathInv
BY InitPathInv, StepPathInv, PTL DEF PathSpec

\* Every variable of the search for model paths has its kind, and the search never
\* leaves the stack (ModelPathLookup.cpp).
THEOREM PathTypeCorrect == PathSpec => []PathTypeOK
<1>1. PathInv => PathTypeOK
  BY DEF PathInv, PathKinds, PathTypeOK, Owned, Searching, Quadword, MaybeId, PathSteps
<1>2. QED
  BY <1>1, PathInvHolds, PTL

\* However many threads record while the stack is searched, a path in the report is the
\* one of the id found there, and none is missing, unless a writer reached its record
\* meanwhile (FindPathsOnStack against HookedIdCtor).
THEOREM PathsAreRight == PathSpec => []PathsRight
<1>1. PathInv => RecordedFound
  <2> SUFFICES ASSUME PathInv PROVE RecordedFound
    OBVIOUS
  <2> USE DEF PathInv
  <2>1. ASSUME Len(hits) < MaxHits, NEW i \in 1 .. StackSize,
               NEW id \in {stack[i].here, stack[i].behind} \ {NoId},
               search.at \in {"here", "behind"}, i < search.i,
               NEW r \in Records, r \notin touched, records[r].id = id, byId[id] \notin touched
        PROVE  \E k \in 1 .. Len(hits) : hits[k].path = Whole(id)
    <3>1. id \in Ids /\ id # NoId
      BY <2>1 DEF PathKinds, Quadword, MaybeId
    <3>2. Mapped(r)
      BY <2>1 DEF Mapped
    <3>3. byId[id] # Nowhere
      BY <2>1, <3>1, <3>2 DEF MapRight
    <3>4. Seen(i, id)
      BY <2>1, <3>1 DEF Seen
    <3>5. QED
      BY <2>1, <3>1, <3>3, <3>4 DEF SeenFound
  <2>2. QED
    BY <2>1 DEF RecordedFound, HitsInOrder
<1>2. PathInv => PathsRight
  BY <1>1 DEF PathInv, PathsRight
<1>3. QED
  BY <1>2, PathInvHolds, PTL

-----------------------------------------------------------------------------
(* The diagnosis of missing masters                                         *)

Visiting == [plugin : Plugins, rest : SUBSET Files, bad : BOOLEAN]
OnPathSet == {path[i].plugin : i \in 1 .. Len(path)}
Looked(i) == masters[path[i].plugin] \ path[i].rest

MastersKinds ==
  /\ masters \in [Plugins -> SUBSET Files] /\ enabled \subseteq Plugins /\ readable \in BOOLEAN
  /\ starts \subseteq Plugins /\ path \in Seq(Visiting)
  /\ done \subseteq Plugins /\ affected \subseteq done /\ missing \subseteq Absent
  /\ cut \in BOOLEAN
  /\ report \in [made : BOOLEAN, missing : SUBSET Absent, disable : SUBSET Plugins,
                 intermediate : SUBSET Plugins, skipped : SUBSET Plugins]

\* The path is a chain of masters, each looked at by the one before it, none twice.
WalkRight ==
  /\ \A i \in 1 .. Len(path) : path[i].rest \subseteq masters[path[i].plugin] /\ path[i].plugin \notin done
  /\ \A i, j \in 1 .. Len(path) : i # j => path[i].plugin # path[j].plugin
  /\ \A i, j \in 1 .. Len(path) : j = i + 1 => path[j].plugin \in Looked(i)

BlameRight ==
  /\ \A p \in affected : LeadsToMissing(p)
  /\ \A i \in 1 .. Len(path) : path[i].bad => LeadsToMissing(path[i].plugin)

\* Without cycles a plugin that is not affected has only masters like itself, and a
\* visit that has found nothing yet has looked only at such, or is at the next.
ClearedRight == Acyclic /\ ~cut =>
  /\ \A p \in done \ affected : masters[p] \subseteq done \ affected
  /\ \A i \in 1 .. Len(path) : ~path[i].bad => \A m \in Looked(i) :
       m \in done \ affected \/ \E j \in 1 .. Len(path) : j = i + 1 /\ m = path[j].plugin

FoundRight ==
  /\ \A m \in Absent : m \in missing <=> \/ \E p \in done : m \in masters[p]
                                         \/ \E i \in 1 .. Len(path) : m \in Looked(i)
  /\ chains = {} => missing = {}

VisitedRight ==
  /\ ~cut => /\ \A p \in done : masters[p] \cap Plugins \subseteq done \cup OnPathSet
             /\ \A i \in 1 .. Len(path) : Looked(i) \cap Plugins \subseteq done \cup OnPathSet
  /\ \A p \in Plugins : Checked(p) => p \in starts \cup done \cup OnPathSet

ChainRight(c) == /\ c[Len(c)] \in Absent
                 /\ \A i \in 1 .. Len(c) - 1 : c[i + 1] \in masters[c[i]]
ChainsRight == \A c \in chains : ChainRight(c)

ReportMade ==
  /\ ~report.made => report = NoLines
  /\ report.made => /\ path = <<>> /\ starts = {} /\ report.missing = missing
                    /\ chains # {} => report.disable = {p \in affected : Actionable(p)}

MastersInv == /\ MastersKinds /\ WalkRight /\ BlameRight /\ ClearedRight /\ FoundRight
              /\ VisitedRight /\ ChainsRight /\ ReportMade

LEMMA InitMastersInv == MastersInit => MastersInv
<1> SUFFICES ASSUME MastersInit PROVE MastersInv
  OBVIOUS
<1> USE DEF MastersInit
<1>1. Len(path) = 0 /\ path = <<>> /\ path \in Seq(Visiting)
  OBVIOUS
<1>2. NoLines \in [made : BOOLEAN, missing : SUBSET Absent, disable : SUBSET Plugins,
                   intermediate : SUBSET Plugins, skipped : SUBSET Plugins] /\ ~NoLines.made
  BY DEF NoLines
<1>3. enabled \subseteq Plugins
  OBVIOUS
<1>4. MastersKinds
  BY <1>1, <1>2, <1>3 DEF MastersKinds
<1>5. WalkRight /\ BlameRight /\ ClearedRight
  BY <1>1 DEF WalkRight, BlameRight, ClearedRight
<1>6. FoundRight /\ VisitedRight /\ ChainsRight /\ ReportMade
  BY <1>1, <1>2 DEF FoundRight, VisitedRight, ChainsRight, ReportMade
<1>7. QED
  BY <1>4, <1>5, <1>6 DEF MastersInv

\* What leads to a missing file.
LEMMA MissingLeads ==
  ASSUME NEW p \in Plugins, NEW m \in Absent, m \in masters[p]
  PROVE  LeadsToMissing(p)
BY DEF LeadsToMissing, Closed, HasAbsentMaster

LEMMA DependentLeads ==
  ASSUME NEW p \in Plugins, NEW q \in Plugins, q \in masters[p], LeadsToMissing(q)
  PROVE  LeadsToMissing(p)
BY DEF LeadsToMissing, Closed

LEMMA ClosedDoesNotLead ==
  ASSUME NEW S \in SUBSET Plugins, NEW p \in Plugins, p \in S,
         \A q \in S : masters[q] \subseteq S
  PROVE  ~LeadsToMissing(p)
<1>1. Closed(Plugins \ S)
  BY FilesAssumption DEF Closed, HasAbsentMaster
<1>2. QED
  BY <1>1 DEF LeadsToMissing

\* The properties are about masters alone, which no step changes.
LEMMA LeadsKept ==
  ASSUME masters' = masters
  PROVE  /\ \A p : LeadsToMissing(p)' <=> LeadsToMissing(p)
         /\ Acyclic' <=> Acyclic
BY DEF LeadsToMissing, Closed, HasAbsentMaster, Acyclic

\* A plugin on the path that is a master of the last one closes a cycle.
LEMMA NoCycle ==
  ASSUME MastersInv, Acyclic, NEW n \in Nat, n = Len(path), n > 0,
         NEW k \in 1 .. n, path[k].plugin \in masters[path[n].plugin]
  PROVE  FALSE
<1> USE DEF MastersInv
<1>1. PICK S : S = {path[i].plugin : i \in k .. n}
  OBVIOUS
<1>2. \A i \in 1 .. n : path[i] \in Visiting
  BY DEF MastersKinds
<1>3. S \in SUBSET Plugins /\ S # {}
  <2>1. k .. n \subseteq 1 .. n /\ k \in k .. n
    OBVIOUS
  <2>2. QED
    BY <1>1, <1>2, <2>1 DEF Visiting
<1>4. ASSUME NEW p \in S PROVE masters[p] \cap S # {}
  <2>1. PICK i \in k .. n : p = path[i].plugin
    BY <1>1
  <2>2. CASE i = n
    <3>1. path[k].plugin \in S
      BY <1>1
    <3>2. QED
      BY <2>1, <2>2, <3>1
  <2>3. CASE i # n
    <3>1. i + 1 \in k .. n /\ i \in 1 .. n /\ i + 1 \in 1 .. n
      BY <2>3
    <3>2. path[i + 1].plugin \in Looked(i) /\ path[i + 1].plugin \in S
      BY <1>1, <3>1 DEF WalkRight
    <3>3. QED
      BY <2>1, <3>2 DEF Looked
  <2>4. QED
    BY <2>2, <2>3
<1>5. QED
  BY <1>3, <1>4 DEF Acyclic

\* Some plugin of a set without cycles has no dependent in it.
LEMMA LastDependent ==
  ASSUME Acyclic, NEW S \in SUBSET Plugins, S # {}
  PROVE  \E p \in S : \A q \in S : p \notin masters[q]
<1>1. SUFFICES ASSUME \A p \in S : \E q \in S : p \in masters[q] PROVE FALSE
  OBVIOUS
<1> DEFINE Depending == {T \in SUBSET Plugins : T # {} /\ \A p \in T : \E q \in T : p \in masters[q]}
           Sizes == {Cardinality(T) : T \in Depending}
<1>2. S \in Depending
  BY <1>1
<1>3. \A T \in Depending : IsFiniteSet(T) /\ Cardinality(T) \in Nat
  BY FilesAssumption, FS_Subset, FS_CardinalityType
<1>4. Sizes \in SUBSET Nat /\ Sizes # {}
  BY <1>2, <1>3
<1>5. PICK T \in Depending : \A U \in Depending : Cardinality(T) <= Cardinality(U)
  <2> HIDE DEF Depending
  <2>1. PICK s \in Sizes : \A r \in Sizes : s <= r
    <3> HIDE DEF Sizes
    <3>1. QED
      BY <1>4, LeastNatural
  <2>2. QED
    BY <2>1
<1>6. PICK p \in T : masters[p] \cap T = {}
  BY <1>5 DEF Acyclic
<1>7. T \ {p} \in Depending
  <2>1. \A q \in T \ {p} : \E d \in T \ {p} : q \in masters[d]
    BY <1>5, <1>6
  <2>2. PICK d \in T : p \in masters[d]
    BY <1>5
  <2>3. d # p
    BY <1>6, <2>2
  <2>4. QED
    BY <1>5, <2>1, <2>3
<1>8. Cardinality(T \ {p}) = Cardinality(T) - 1
  <2> HIDE DEF Depending
  <2>1. IsFiniteSet(T)
    BY <1>3, <1>5
  <2>2. QED
    BY <2>1, FS_RemoveElement
<1>9. QED
  <2> HIDE DEF Depending
  <2>1. Cardinality(T) <= Cardinality(T \ {p}) /\ Cardinality(T) \in Nat
    BY <1>3, <1>5, <1>7
  <2>2. QED
    BY <1>8, <2>1

LEMMA StartWalkInv == MastersInv /\ StartWalk => MastersInv'
<1> SUFFICES ASSUME MastersInv, StartWalk PROVE MastersInv'
  OBVIOUS
<1> USE DEF MastersInv
<1>1. PICK p \in starts :
        /\ path = <<>> /\ starts' = starts \ {p}
        /\ path' = (IF p \in done THEN <<>> ELSE <<Visit(p)>>)
        /\ UNCHANGED <<masters, enabled, readable, done, affected, missing, chains, cut, report>>
  BY DEF StartWalk
<1>2. ~report.made /\ report = NoLines
  BY <1>1 DEF ReportMade
<1>3. p \in Plugins /\ Visit(p) \in Visiting /\ Visit(p).plugin = p /\ Visit(p).rest = masters[p]
      /\ ~Visit(p).bad
  BY <1>1 DEF MastersKinds, Visit, Visiting
<1>4. PICK v \in Visiting : v = Visit(p)
  BY <1>3
<1>5. v.plugin = p /\ v.rest = masters[p] /\ ~v.bad
  BY <1>3, <1>4
<1>6. Len(path) = 0
  BY <1>1
<1>7. \A q \in Plugins : Checked(q)' <=> Checked(q)
  BY <1>1 DEF Checked, HasAbsentMaster
<1>8. ChainsRight' /\ ReportMade'
  BY <1>1, <1>2 DEF ChainsRight, ChainRight, ReportMade
<1>9. CASE p \in done
  <2>1. path' = <<>> /\ Len(path') = 0
    BY <1>1, <1>9
  <2>2. MastersKinds'
    BY <1>1, <2>1 DEF MastersKinds
  <2>3. WalkRight' /\ FoundRight'
    BY <1>1, <1>6, <2>1 DEF WalkRight, FoundRight
  <2>4. BlameRight' /\ ClearedRight'
    BY <1>1, <1>6, <2>1, LeadsKept DEF BlameRight, ClearedRight
  <2>5. OnPathSet = {} /\ OnPathSet' = {}
    BY <1>6, <2>1 DEF OnPathSet
  <2>6. VisitedRight'
    BY <1>1, <1>6, <1>7, <1>9, <2>1, <2>5 DEF VisitedRight
  <2>7. QED
    BY <1>8, <2>2, <2>3, <2>4, <2>6
<1>10. CASE p \notin done
  <2>1. path' = <<v>> /\ Len(path') = 1 /\ path'[1] = v /\ path' \in Seq(Visiting)
    BY <1>1, <1>4, <1>10
  <2>2. MastersKinds'
    BY <1>1, <2>1 DEF MastersKinds
  <2>3. \A i \in 1 .. Len(path') : i = 1 /\ Looked(i)' = {} /\ path'[i] = v
    BY <1>1, <1>5, <2>1 DEF Looked
  <2>4. WalkRight'
    BY <1>1, <1>5, <1>10, <2>3 DEF WalkRight
  <2>5. FoundRight'
    BY <1>1, <1>6, <2>3 DEF FoundRight
  <2>6. BlameRight' /\ ClearedRight'
    BY <1>1, <1>5, <1>6, <2>3, LeadsKept DEF BlameRight, ClearedRight
  <2>7. OnPathSet = {} /\ OnPathSet' = {p}
    BY <1>5, <1>6, <2>1 DEF OnPathSet
  <2>8. VisitedRight'
    BY <1>1, <1>6, <1>7, <2>3, <2>7 DEF VisitedRight
  <2>9. QED
    BY <1>8, <2>2, <2>4, <2>5, <2>6, <2>8
<1>11. QED
  BY <1>9, <1>10

\* What the last visit is when it has looked at one more master.
LEMMA TopLooked ==
  ASSUME MastersInv, path # <<>>, NEW n \in Nat, n = Len(path), NEW m
  PROVE  /\ n \in 1 .. n /\ n > 0 /\ Top = path[n] /\ path[n] \in Visiting
         /\ \A b \in BOOLEAN :
              \E x \in Visiting : /\ x.plugin = path[n].plugin /\ x.rest = path[n].rest \ {m}
                                  /\ x.bad <=> (path[n].bad \/ b)
                                  /\ Without(Bad(b), m) = [path EXCEPT ![n] = x]
<1>1. path \in Seq(Visiting) /\ n \in 1 .. n /\ n > 0 /\ path[n] \in Visiting
  BY DEF MastersInv, MastersKinds
<1>2. ASSUME NEW b \in BOOLEAN
      PROVE  \E x \in Visiting : /\ x.plugin = path[n].plugin /\ x.rest = path[n].rest \ {m}
                                 /\ x.bad <=> (path[n].bad \/ b)
                                 /\ Without(Bad(b), m) = [path EXCEPT ![n] = x]
  <2>1. PICK y : y = [path[n] EXCEPT !.bad = path[n].bad \/ b]
    OBVIOUS
  <2>2. y \in Visiting /\ y.plugin = path[n].plugin /\ y.rest = path[n].rest
        /\ (y.bad <=> (path[n].bad \/ b))
    BY <1>1, <2>1 DEF Visiting
  <2>3. Bad(b) = [path EXCEPT ![n] = y]
    BY <1>1, <2>1 DEF Bad
  <2>4. /\ Bad(b) \in Seq(Visiting) /\ Len(Bad(b)) = n /\ Bad(b)[n] = y
        /\ \A z : [Bad(b) EXCEPT ![n] = z] = [path EXCEPT ![n] = z]
    BY <1>1, <2>2, <2>3
  <2>5. PICK x : x = [y EXCEPT !.rest = y.rest \ {m}]
    OBVIOUS
  <2>6. x \in Visiting /\ x.plugin = y.plugin /\ x.rest = y.rest \ {m} /\ x.bad = y.bad
    BY <2>2, <2>5 DEF Visiting
  <2>7. Without(Bad(b), m) = [path EXCEPT ![n] = x]
    BY <2>4, <2>5 DEF Without
  <2>8. QED
    BY <2>2, <2>6, <2>7
<1>3. QED
  BY <1>1, <1>2 DEF Top

\* The last visit has looked at master m, which is no reason to go there: it is missing,
\* visited before or on the path, or too deep.
LEMMA LookInv ==
  ASSUME MastersInv, NEW n \in Nat, n = Len(path), n > 0, NEW m \in path[n].rest,
         NEW x \in Visiting, NEW b \in BOOLEAN,
         x.plugin = path[n].plugin, x.rest = path[n].rest \ {m}, x.bad <=> (path[n].bad \/ b),
         path' = [path EXCEPT ![n] = x],
         UNCHANGED <<masters, enabled, readable, starts, done, affected, report>>,
         b => LeadsToMissing(path[n].plugin),
         cut' \in BOOLEAN, cut => cut',
         ~cut' => m \in Absent \/ m \in done \/ OnPath(m),
         Acyclic /\ ~cut' /\ ~b => m \in done \ affected,
         missing' \subseteq Absent, chains' = {} => missing' = {},
         \A q \in Absent : q \in missing' <=> (q \in missing \/ q = m),
         ChainsRight'
  PROVE  MastersInv'
<1> USE DEF MastersInv
<1>1. /\ path' \in Seq(Visiting) /\ Len(path') = n /\ path'[n] = x /\ n \in 1 .. n
      /\ \A i \in 1 .. n : i # n => path'[i] = path[i]
      /\ path \in Seq(Visiting)
  BY DEF MastersKinds
<1>2. m \in masters[path[n].plugin] /\ m \in Files
  <2>1. path[n].rest \subseteq masters[path[n].plugin]
    BY <1>1 DEF WalkRight
  <2>2. path[n].rest \subseteq Files
    <3>1. path[n] \in Visiting
      BY <1>1
    <3>2. QED
      BY <3>1 DEF Visiting
  <2>3. QED
    BY <2>1, <2>2
<1>3. /\ \A i \in 1 .. n : path'[i].plugin = path[i].plugin
      /\ \A i \in 1 .. n : i # n => Looked(i)' = Looked(i)
      /\ Looked(n)' = Looked(n) \cup {m}
  BY <1>1, <1>2 DEF Looked
<1>4. OnPathSet' = OnPathSet
  BY <1>1, <1>3 DEF OnPathSet
<1>5. ~report.made /\ report = NoLines
  <2>1. path # <<>>
    OBVIOUS
  <2>2. QED
    BY <2>1 DEF ReportMade
<1>6. MastersKinds'
  BY <1>1 DEF MastersKinds
<1>7. WalkRight'
  BY <1>1, <1>3 DEF WalkRight
<1>8. BlameRight'
  <2>1. ASSUME NEW i \in 1 .. n, path'[i].bad PROVE LeadsToMissing(path[i].plugin)
    <3>1. CASE i = n
      BY <1>1, <2>1, <3>1 DEF BlameRight
    <3>2. CASE i # n
      BY <1>1, <2>1, <3>2 DEF BlameRight
    <3>3. QED
      BY <3>1, <3>2
  <2>2. \A p \in affected : LeadsToMissing(p)
    BY DEF BlameRight
  <2>3. QED
    BY <1>1, <1>3, <2>1, <2>2, LeadsKept DEF BlameRight
<1>9. ClearedRight'
  <2>1. SUFFICES ASSUME Acyclic, ~cut' PROVE
          /\ \A p \in done \ affected : masters[p] \subseteq done \ affected
          /\ \A i \in 1 .. n : ~path'[i].bad => \A q \in Looked(i)' :
               q \in done \ affected \/ \E j \in 1 .. n : j = i + 1 /\ q = path'[j].plugin
    BY <1>1, LeadsKept DEF ClearedRight
  <2>2. ~cut
    BY <2>1
  <2>3. /\ \A p \in done \ affected : masters[p] \subseteq done \ affected
        /\ \A i \in 1 .. n : ~path[i].bad => \A q \in Looked(i) :
             q \in done \ affected \/ \E j \in 1 .. n : j = i + 1 /\ q = path[j].plugin
    BY <2>1, <2>2 DEF ClearedRight
  <2>4. ASSUME NEW i \in 1 .. n, ~path'[i].bad, NEW q \in Looked(i)'
        PROVE  q \in done \ affected \/ \E j \in 1 .. n : j = i + 1 /\ q = path'[j].plugin
    <3>1. CASE i = n
      <4>1. ~path[n].bad /\ ~b
        BY <1>1, <2>4, <3>1
      <4>2. q \in Looked(n) \/ q = m
        BY <1>3, <2>4, <3>1
      <4>3. CASE q = m
        BY <2>1, <4>1, <4>3
      <4>4. CASE q \in Looked(n)
        BY <1>1, <1>3, <2>3, <3>1, <4>1, <4>4
      <4>5. QED
        BY <4>2, <4>3, <4>4
    <3>2. CASE i # n
      BY <1>1, <1>3, <2>3, <2>4, <3>2
    <3>3. QED
      BY <3>1, <3>2
  <2>5. QED
    BY <2>3, <2>4
<1>10. FoundRight'
  <2>1. \A q : (\E i \in 1 .. n : q \in Looked(i)') <=> ((\E i \in 1 .. n : q \in Looked(i)) \/ q = m)
    BY <1>1, <1>3
  <2>2. QED
    BY <1>1, <2>1 DEF FoundRight
<1>11. VisitedRight'
  <2>1. \A p \in Plugins : Checked(p)' <=> Checked(p)
    BY DEF Checked, HasAbsentMaster
  <2>2. ~cut' /\ m \in Plugins => m \in done \cup OnPathSet
    BY FilesAssumption DEF OnPath, OnPathSet
  <2>3. \A i \in 1 .. n : ~cut' => Looked(i)' \cap Plugins \subseteq done \cup OnPathSet
    BY <1>3, <2>2 DEF VisitedRight
  <2>4. QED
    BY <1>1, <1>4, <2>1, <2>3 DEF VisitedRight
<1>12. ReportMade'
  BY <1>5 DEF ReportMade
<1>13. QED
  BY <1>6, <1>7, <1>8, <1>9, <1>10, <1>11, <1>12

LEMMA AbsentMasterInv == MastersInv /\ AbsentMaster => MastersInv'
<1> SUFFICES ASSUME MastersInv, AbsentMaster PROVE MastersInv'
  OBVIOUS
<1>1. PICK m \in Absent :
        /\ path # <<>> /\ m \in Top.rest /\ path' = Without(Bad(TRUE), m)
        /\ missing' = missing \cup {m}
        /\ chains' = (IF Cardinality(chains) < MaxChains THEN chains \cup {Append(Names, m)} ELSE chains)
        /\ UNCHANGED <<masters, enabled, readable, starts, done, affected, cut, report>>
  BY DEF AbsentMaster
<1>2. PICK n \in Nat : n = Len(path)
  BY DEF MastersInv, MastersKinds
<1>3. n \in 1 .. n /\ n > 0 /\ Top = path[n] /\ path[n] \in Visiting
  BY <1>1, <1>2, TopLooked
<1>4. PICK x \in Visiting : /\ x.plugin = path[n].plugin /\ x.rest = path[n].rest \ {m}
                            /\ x.bad <=> (path[n].bad \/ TRUE)
                            /\ Without(Bad(TRUE), m) = [path EXCEPT ![n] = x]
  BY <1>1, <1>2, TopLooked
<1>5. m \in masters[path[n].plugin] /\ path[n].plugin \in Plugins
  BY <1>1, <1>2, <1>3 DEF MastersInv, WalkRight, Visiting
<1>6. LeadsToMissing(path[n].plugin)
  BY <1>5, MissingLeads
<1>7. chains' # {}
  <2>1. CASE chains = {}
    <3>1. Cardinality(chains) < MaxChains
      BY <2>1, FS_EmptySet, DepthAssumption
    <3>2. QED
      BY <1>1, <3>1
  <2>2. CASE chains # {}
    BY <1>1, <2>2
  <2>3. QED
    BY <2>1, <2>2
<1>8. ChainsRight'
  <2>1. PICK c : c = Append(Names, m)
    OBVIOUS
  <2>2. Names \in Seq(Plugins) /\ Len(Names) = n /\ \A i \in 1 .. n : Names[i] = path[i].plugin
    <3>1. \A i \in 1 .. n : path[i].plugin \in Plugins
      <4>1. \A i \in 1 .. n : path[i] \in Visiting
        BY <1>2 DEF MastersInv, MastersKinds
      <4>2. QED
        BY <4>1 DEF Visiting
    <3>2. Names = [i \in 1 .. n |-> path[i].plugin]
      BY <1>2 DEF Names
    <3>3. QED
      BY <3>1, <3>2
  <2>3. Len(c) = n + 1 /\ c[n + 1] = m /\ \A i \in 1 .. n : c[i] = path[i].plugin
    BY <2>1, <2>2
  <2>4. ASSUME NEW i \in 1 .. n PROVE c[i + 1] \in masters[c[i]]
    <3>1. CASE i = n
      BY <1>5, <2>3, <3>1
    <3>2. CASE i # n
      <4>1. i + 1 \in 1 .. n
        BY <3>2
      <4>2. path[i + 1].plugin \in Looked(i)
        BY <1>2, <4>1 DEF MastersInv, WalkRight
      <4>3. QED
        BY <2>3, <4>1, <4>2 DEF Looked
    <3>3. QED
      BY <3>1, <3>2
  <2>5. ChainRight(c)
    BY <2>3, <2>4 DEF ChainRight
  <2>6. ChainRight(c)'
    BY <1>1, <2>5 DEF ChainRight
  <2>7. \A d \in chains : ChainRight(d)'
    BY <1>1 DEF MastersInv, ChainsRight, ChainRight
  <2>8. QED
    BY <1>1, <2>1, <2>6, <2>7 DEF ChainsRight
<1>9. missing \subseteq Absent /\ cut \in BOOLEAN
  BY DEF MastersInv, MastersKinds
<1>10. /\ path' = [path EXCEPT ![n] = x] /\ m \in path[n].rest
       /\ UNCHANGED <<masters, enabled, readable, starts, done, affected, cut, report>>
       /\ missing' \subseteq Absent /\ \A q \in Absent : q \in missing' <=> (q \in missing \/ q = m)
  BY <1>1, <1>3, <1>4, <1>9
<1>11. x.bad
  BY <1>4
<1>12. QED
  BY <1>2, <1>3, <1>4, <1>6, <1>7, <1>8, <1>9, <1>10, <1>11, LookInv

LEMMA KnownMasterInv == MastersInv /\ KnownMaster => MastersInv'
<1> SUFFICES ASSUME MastersInv, KnownMaster PROVE MastersInv'
  OBVIOUS
<1>1. PICK m \in Plugins :
        LET deep == Len(path) > MaxDepth IN
        /\ path # <<>> /\ m \in Top.rest
        /\ deep \/ m \in done \/ OnPath(m)
        /\ path' = Without(Bad(~deep /\ m \in done /\ m \in affected), m)
        /\ cut' = (cut \/ deep)
        /\ UNCHANGED <<masters, enabled, readable, starts, done, affected, missing, chains, report>>
  BY DEF KnownMaster
<1>2. PICK n \in Nat : n = Len(path)
  BY DEF MastersInv, MastersKinds
<1>3. PICK b \in BOOLEAN : b = (~(Len(path) > MaxDepth) /\ m \in done /\ m \in affected)
  OBVIOUS
<1>0. path # <<>>
  BY <1>1
<1>4. n \in 1 .. n /\ n > 0 /\ Top = path[n] /\ path[n] \in Visiting
  BY <1>0, <1>2, TopLooked
<1>5. PICK x \in Visiting : /\ x.plugin = path[n].plugin /\ x.rest = path[n].rest \ {m}
                            /\ x.bad <=> (path[n].bad \/ b)
                            /\ Without(Bad(b), m) = [path EXCEPT ![n] = x]
  <2>1. \A c \in BOOLEAN :
          \E x \in Visiting : /\ x.plugin = path[n].plugin /\ x.rest = path[n].rest \ {m}
                              /\ x.bad <=> (path[n].bad \/ c)
                              /\ Without(Bad(c), m) = [path EXCEPT ![n] = x]
    BY <1>0, <1>2, TopLooked
  <2>2. QED
    BY <2>1, Zenon
<1>6. path' = [path EXCEPT ![n] = x]
  BY <1>1, <1>3, <1>5
<1>7. m \in masters[path[n].plugin] /\ path[n].plugin \in Plugins
  BY <1>1, <1>2, <1>4 DEF MastersInv, WalkRight, Visiting
<1>8. b => LeadsToMissing(path[n].plugin)
  BY <1>3, <1>7, DependentLeads DEF MastersInv, BlameRight
<1>9. cut' \in BOOLEAN /\ (cut => cut') /\ (~cut' => ~(Len(path) > MaxDepth))
  BY <1>1
<1>10. Acyclic /\ ~cut' /\ ~b => m \in done \ affected
  <2>1. ASSUME Acyclic, ~cut', ~b PROVE m \in done \ affected
    <3>1. CASE m \in done
      BY <1>3, <1>9, <2>1, <3>1
    <3>2. CASE m \notin done
      <4>1. OnPath(m)
        BY <1>1, <1>9, <2>1, <3>2
      <4>2. PICK k \in 1 .. n : path[k].plugin = m
        BY <1>2, <4>1 DEF OnPath
      <4>3. QED
        BY <1>2, <1>4, <1>7, <2>1, <4>2, NoCycle
    <3>3. QED
      BY <3>1, <3>2
  <2>2. QED
    BY <2>1
<1>11. ChainsRight'
  BY <1>1 DEF MastersInv, ChainsRight, ChainRight
<1>12. /\ missing' \subseteq Absent /\ (chains' = {} => missing' = {})
       /\ \A q \in Absent : q \in missing' <=> (q \in missing \/ q = m)
  BY <1>1, FilesAssumption DEF MastersInv, MastersKinds, FoundRight
<1>13. ~cut' => m \in Absent \/ m \in done \/ OnPath(m)
  BY <1>1, <1>9
<1>14. m \in path[n].rest
  BY <1>1, <1>4
<1>15. UNCHANGED <<masters, enabled, readable, starts, done, affected, report>>
  BY <1>1
<1>16. QED
  BY <1>2, <1>4, <1>5, <1>6, <1>8, <1>9, <1>10, <1>11, <1>12, <1>13, <1>14, <1>15, LookInv

LEMMA DescendInv == MastersInv /\ Descend => MastersInv'
<1> SUFFICES ASSUME MastersInv, Descend PROVE MastersInv'
  OBVIOUS
<1> USE DEF MastersInv
<1>1. PICK m \in Plugins :
        /\ path # <<>> /\ m \in Top.rest
        /\ Len(path) <= MaxDepth /\ m \notin done /\ ~OnPath(m)
        /\ path' = Append(Without(path, m), Visit(m))
        /\ UNCHANGED <<masters, enabled, readable, starts, done, affected, missing, chains, cut, report>>
  BY DEF Descend
<1>2. PICK n \in Nat : n = Len(path)
  BY DEF MastersKinds
<1>3. path \in Seq(Visiting) /\ n \in 1 .. n /\ path[n] \in Visiting /\ Top = path[n]
  BY <1>1, <1>2 DEF MastersKinds, Top
<1>4. PICK x : x = [path[n] EXCEPT !.rest = path[n].rest \ {m}]
  OBVIOUS
<1>5. x \in Visiting /\ x.plugin = path[n].plugin /\ x.rest = path[n].rest \ {m} /\ x.bad = path[n].bad
  BY <1>3, <1>4 DEF Visiting
<1>6. PICK v : v = Visit(m)
  OBVIOUS
<1>7. v \in Visiting /\ v.plugin = m /\ v.rest = masters[m] /\ ~v.bad
  BY <1>6 DEF MastersKinds, Visit, Visiting
<1>8. Without(path, m) = [path EXCEPT ![n] = x]
  BY <1>2, <1>3, <1>4 DEF Without
<1>9. /\ path' \in Seq(Visiting) /\ Len(path') = n + 1 /\ path'[n] = x /\ path'[n + 1] = v
      /\ \A i \in 1 .. n : i # n => path'[i] = path[i]
  <2>1. PICK q : q = [path EXCEPT ![n] = x]
    OBVIOUS
  <2>2. q \in Seq(Visiting) /\ Len(q) = n /\ q[n] = x /\ \A i \in 1 .. n : i # n => q[i] = path[i]
    BY <1>2, <1>3, <1>5, <2>1
  <2>3. path' = Append(q, v)
    BY <1>1, <1>6, <1>8, <2>1
  <2>4. QED
    BY <1>3, <1>7, <2>2, <2>3
<1>10. \A i \in 1 .. n + 1 : i \in 1 .. n \/ i = n + 1
  OBVIOUS
<1>11. m \in masters[path[n].plugin] /\ m \in path[n].rest
  BY <1>1, <1>2, <1>3 DEF WalkRight
<1>12. \A i \in 1 .. n : path'[i].plugin = path[i].plugin /\ (path'[i].bad <=> path[i].bad)
  BY <1>5, <1>9
<1>13. /\ \A i \in 1 .. n : i # n => Looked(i)' = Looked(i)
       /\ Looked(n)' = Looked(n) \cup {m} /\ Looked(n + 1)' = {}
  BY <1>1, <1>5, <1>7, <1>9, <1>11 DEF Looked
<1>14. OnPathSet' = OnPathSet \cup {m}
  BY <1>2, <1>7, <1>9, <1>10, <1>12 DEF OnPathSet
<1>15. m \notin OnPathSet
  BY <1>1 DEF OnPath, OnPathSet
<1>16. ~report.made /\ report = NoLines
  BY <1>1 DEF ReportMade
<1>17. MastersKinds'
  BY <1>1, <1>9 DEF MastersKinds
<1>18. WalkRight'
  <2>1. ASSUME NEW i \in 1 .. n + 1
        PROVE  path'[i].rest \subseteq masters[path'[i].plugin] /\ path'[i].plugin \notin done
    <3>1. CASE i = n + 1
      BY <1>1, <1>7, <1>9, <3>1
    <3>2. CASE i = n
      BY <1>2, <1>3, <1>5, <1>9, <3>2 DEF WalkRight
    <3>3. CASE i \in 1 .. n /\ i # n
      BY <1>2, <1>9, <3>3 DEF WalkRight
    <3>4. QED
      BY <1>10, <3>1, <3>2, <3>3
  <2>2. ASSUME NEW i \in 1 .. n + 1, NEW j \in 1 .. n + 1, i # j
        PROVE  path'[i].plugin # path'[j].plugin
    <3>1. \A k \in 1 .. n : path[k].plugin # m
      BY <1>2, <1>15 DEF OnPathSet
    <3>2. CASE i \in 1 .. n /\ j \in 1 .. n
      BY <1>2, <1>12, <2>2, <3>2 DEF WalkRight
    <3>3. CASE i = n + 1 \/ j = n + 1
      <4>1. (i \in 1 .. n /\ j = n + 1) \/ (j \in 1 .. n /\ i = n + 1)
        BY <1>10, <2>2, <3>3
      <4>2. QED
        BY <1>7, <1>9, <1>12, <3>1, <4>1
    <3>4. QED
      BY <1>10, <3>2, <3>3
  <2>3. ASSUME NEW i \in 1 .. n + 1, NEW j \in 1 .. n + 1, j = i + 1
        PROVE  path'[j].plugin \in Looked(i)'
    <3>1. CASE i = n
      <4>1. path'[j].plugin = m
        BY <1>7, <1>9, <2>3, <3>1
      <4>2. m \in Looked(n)'
        BY <1>13
      <4>3. QED
        BY <3>1, <4>1, <4>2
    <3>2. CASE i # n
      <4>1. i \in 1 .. n /\ j \in 1 .. n
        BY <2>3, <3>2
      <4>2. path[j].plugin \in Looked(i)
        BY <1>2, <2>3, <4>1 DEF WalkRight
      <4>3. QED
        BY <1>12, <1>13, <3>2, <4>1, <4>2
    <3>3. QED
      BY <3>1, <3>2
  <2>4. QED
    BY <1>1, <1>9, <2>1, <2>2, <2>3 DEF WalkRight
<1>19. BlameRight'
  <2>1. ASSUME NEW i \in 1 .. n + 1, path'[i].bad PROVE LeadsToMissing(path'[i].plugin)
    <3>1. CASE i = n + 1
      BY <1>7, <1>9, <2>1, <3>1
    <3>2. CASE i \in 1 .. n
      BY <1>2, <1>12, <2>1, <3>2 DEF BlameRight
    <3>3. QED
      BY <1>10, <3>1, <3>2
  <2>2. \A p \in affected : LeadsToMissing(p)
    BY DEF BlameRight
  <2>3. QED
    BY <1>1, <1>9, <2>1, <2>2, LeadsKept DEF BlameRight
<1>20. ClearedRight'
  <2>1. SUFFICES ASSUME Acyclic, ~cut PROVE
          /\ \A p \in done \ affected : masters[p] \subseteq done \ affected
          /\ \A i \in 1 .. n + 1 : ~path'[i].bad => \A q \in Looked(i)' :
               q \in done \ affected \/ \E j \in 1 .. n + 1 : j = i + 1 /\ q = path'[j].plugin
    BY <1>1, <1>9, LeadsKept DEF ClearedRight
  <2>2. /\ \A p \in done \ affected : masters[p] \subseteq done \ affected
        /\ \A i \in 1 .. n : ~path[i].bad => \A q \in Looked(i) :
             q \in done \ affected \/ \E j \in 1 .. n : j = i + 1 /\ q = path[j].plugin
    BY <1>2, <2>1 DEF ClearedRight
  <2>3. ASSUME NEW i \in 1 .. n + 1, ~path'[i].bad, NEW q \in Looked(i)'
        PROVE  q \in done \ affected \/ \E j \in 1 .. n + 1 : j = i + 1 /\ q = path'[j].plugin
    <3>1. CASE i = n + 1
      BY <1>13, <2>3, <3>1
    <3>2. CASE i = n /\ q = m
      BY <1>7, <1>9, <3>2
    <3>3. CASE i \in 1 .. n /\ ~(i = n /\ q = m)
      <4>1. q \in Looked(i) /\ ~path[i].bad
        BY <1>12, <1>13, <2>3, <3>3
      <4>2. q \in done \ affected \/ \E j \in 1 .. n : j = i + 1 /\ q = path[j].plugin
        BY <2>2, <3>3, <4>1
      <4>3. \A j \in 1 .. n : j \in 1 .. n + 1 /\ path'[j].plugin = path[j].plugin
        BY <1>12
      <4>4. QED
        BY <4>2, <4>3
    <3>4. QED
      BY <1>10, <3>1, <3>2, <3>3
  <2>4. QED
    BY <2>2, <2>3
<1>21. FoundRight'
  <2>1. \A q \in Absent : (\E i \in 1 .. n + 1 : q \in Looked(i)') <=> (\E i \in 1 .. n : q \in Looked(i))
    <3>1. \A q \in Absent : q # m
      BY FilesAssumption
    <3>2. \A i \in 1 .. n : i \in 1 .. n + 1
      OBVIOUS
    <3>3. QED
      BY <1>10, <1>13, <3>1, <3>2
  <2>2. QED
    BY <1>1, <1>2, <1>9, <2>1 DEF FoundRight
<1>22. VisitedRight'
  <2>1. \A p \in Plugins : Checked(p)' <=> Checked(p)
    BY <1>1 DEF Checked, HasAbsentMaster
  <2>2. \A i \in 1 .. n + 1 : ~cut => Looked(i)' \cap Plugins \subseteq done \cup OnPathSet'
    BY <1>2, <1>10, <1>13, <1>14 DEF VisitedRight
  <2>3. QED
    BY <1>1, <1>9, <1>14, <2>1, <2>2 DEF VisitedRight
<1>23. ChainsRight' /\ ReportMade'
  BY <1>1, <1>16 DEF ChainsRight, ChainRight, ReportMade
<1>24. QED
  BY <1>17, <1>18, <1>19, <1>20, <1>21, <1>22, <1>23

LEMMA LeaveInv == MastersInv /\ Leave => MastersInv'
<1> SUFFICES ASSUME MastersInv, Leave PROVE MastersInv'
  OBVIOUS
<1> USE DEF MastersInv
<1>1. PICK n \in Nat : n = Len(path)
  BY DEF MastersKinds
<1>2. /\ path # <<>> /\ Top.rest = {}
      /\ UNCHANGED <<masters, enabled, readable, starts, missing, chains, cut, report>>
  BY DEF Leave
<1>3. path \in Seq(Visiting) /\ n \in 1 .. n /\ path[n] \in Visiting /\ Top = path[n]
      /\ \A i \in 1 .. n : path[i] \in Visiting
  BY <1>1, <1>2 DEF MastersKinds, Top
<1>4. PICK l \in Visiting : l = path[n]
  BY <1>3
<1>5. PICK p : p = l.plugin
  OBVIOUS
<1>6. p \in Plugins /\ p = path[n].plugin /\ path[n].rest = {} /\ (l.bad <=> path[n].bad)
  BY <1>2, <1>3, <1>4, <1>5 DEF Visiting
<1>7. done' = done \cup {p} /\ affected' = IF l.bad THEN affected \cup {p} ELSE affected
  BY <1>3, <1>4, <1>5 DEF Leave
<1>8. /\ p \notin done /\ Looked(n) = masters[p]
      /\ \A i \in 1 .. n : i # n => path[i].plugin # p
  <2>1. p \notin done
    BY <1>1, <1>3, <1>6 DEF WalkRight
  <2>2. \A i \in 1 .. n : i # n => path[i].plugin # p
    BY <1>1, <1>3, <1>6 DEF WalkRight
  <2>3. QED
    BY <1>6, <2>1, <2>2 DEF Looked
<1>9. PICK k \in Nat : n = k + 1
  BY <1>3
<1>10. PICK below : below = [i \in 1 .. k |-> path[i]]
  OBVIOUS
<1>11. /\ below \in Seq(Visiting) /\ Len(below) = k /\ below = Front(path)
       /\ \A i \in 1 .. k : below[i] = path[i] /\ i \in 1 .. n /\ i # n
  <2>1. \A i \in 1 .. k : i \in 1 .. n /\ i # n
    BY <1>9
  <2>2. \A i \in 1 .. k : path[i] \in Visiting
    BY <1>3, <2>1
  <2>3. below \in Seq(Visiting) /\ Len(below) = k
    BY <1>10, <2>2
  <2>4. Front(path) = SubSeq(path, 1, k)
    BY <1>1, <1>9 DEF Front
  <2>5. SubSeq(path, 1, k) = below
    BY <1>1, <1>3, <1>9, <1>10
  <2>6. QED
    BY <1>10, <2>1, <2>3, <2>4, <2>5
<1>12. path' = IF below = <<>> THEN <<>> ELSE [below EXCEPT ![Len(below)].bad = @ \/ Top.bad]
  BY <1>11 DEF Leave
<1>13. /\ path' \in Seq(Visiting) /\ Len(path') = k
       /\ \A i \in 1 .. k : /\ path'[i].plugin = path[i].plugin /\ path'[i].rest = path[i].rest
                            /\ path'[i].bad <=> (path[i].bad \/ (i = k /\ l.bad))
  <2>1. CASE below = <<>>
    BY <1>11, <1>12, <2>1
  <2>2. CASE below # <<>>
    <3>1. k \in 1 .. k /\ below[k] \in Visiting
      BY <1>11, <2>2
    <3>2. PICK y : y = [below[k] EXCEPT !.bad = below[k].bad \/ l.bad]
      OBVIOUS
    <3>3. y \in Visiting /\ y.plugin = below[k].plugin /\ y.rest = below[k].rest
          /\ (y.bad <=> (below[k].bad \/ l.bad))
      BY <3>1, <3>2 DEF Visiting
    <3>4. path' = [below EXCEPT ![k] = y]
      BY <1>3, <1>4, <1>11, <1>12, <2>2, <3>2
    <3>5. /\ path' \in Seq(Visiting) /\ Len(path') = k /\ path'[k] = y
          /\ \A i \in 1 .. k : i # k => path'[i] = below[i]
      BY <1>11, <3>1, <3>3, <3>4
    <3>6. QED
      BY <1>11, <3>3, <3>5
  <2>3. QED
    BY <2>1, <2>2
<1>14. \A i \in 1 .. n : i = n \/ (i \in 1 .. k /\ i # n)
  BY <1>9
<1>15. \A i \in 1 .. k : Looked(i)' = Looked(i)
  BY <1>2, <1>13 DEF Looked
<1>16. OnPathSet = OnPathSet' \cup {p}
  BY <1>1, <1>3, <1>6, <1>11, <1>13, <1>14 DEF OnPathSet
<1>17. ~report.made /\ report = NoLines
  BY <1>2 DEF ReportMade
<1>18. affected' \subseteq done' /\ affected \subseteq affected' /\ affected' \subseteq affected \cup {p}
       /\ (p \in affected' <=> l.bad)
  BY <1>7, <1>8 DEF MastersKinds
<1>19. MastersKinds'
  BY <1>2, <1>6, <1>7, <1>13, <1>18 DEF MastersKinds
<1>20. WalkRight'
  <2>1. \A i \in 1 .. k : path[i].rest \subseteq masters[path[i].plugin] /\ path[i].plugin \notin done
    BY <1>1, <1>11 DEF WalkRight
  <2>2. \A i, j \in 1 .. k : i # j => path[i].plugin # path[j].plugin
    BY <1>1, <1>11 DEF WalkRight
  <2>3. \A i, j \in 1 .. k : j = i + 1 => path[j].plugin \in Looked(i)
    BY <1>1, <1>11 DEF WalkRight
  <2>4. \A i \in 1 .. k : path[i].plugin # p
    BY <1>8, <1>11
  <2>5. \A i \in 1 .. k : path'[i].rest \subseteq masters[path'[i].plugin] /\ path'[i].plugin \notin done'
    BY <1>7, <1>13, <2>1, <2>4
  <2>6. \A i, j \in 1 .. k : j = i + 1 => path'[j].plugin \in Looked(i)'
    BY <1>13, <1>15, <2>3
  <2>7. QED
    BY <1>2, <1>13, <2>2, <2>5, <2>6 DEF WalkRight
<1>21. BlameRight'
  <2>1. l.bad => LeadsToMissing(p)
    BY <1>1, <1>3, <1>6 DEF BlameRight
  <2>2. ASSUME NEW i \in 1 .. k, path'[i].bad PROVE LeadsToMissing(path'[i].plugin)
    <3>1. CASE path[i].bad
      BY <1>1, <1>11, <1>13, <3>1 DEF BlameRight
    <3>2. CASE ~path[i].bad
      <4>1. i = k /\ l.bad
        BY <1>13, <2>2, <3>2
      <4>2. p \in Looked(i) /\ path[i].plugin \in Plugins
        <5>1. path[n].plugin \in Looked(i)
          BY <1>1, <1>3, <1>9, <1>11, <4>1 DEF WalkRight
        <5>2. path[i] \in Visiting
          BY <1>3, <1>11
        <5>3. QED
          BY <1>6, <5>1, <5>2 DEF Visiting
      <4>3. LeadsToMissing(path[i].plugin)
        BY <1>6, <2>1, <4>1, <4>2, DependentLeads DEF Looked
      <4>4. QED
        BY <1>13, <4>3
    <3>3. QED
      BY <3>1, <3>2
  <2>3. \A q \in affected' : LeadsToMissing(q)
    BY <1>18, <2>1 DEF BlameRight
  <2>4. QED
    BY <1>2, <1>13, <2>2, <2>3, LeadsKept DEF BlameRight
<1>22. ClearedRight'
  <2>1. SUFFICES ASSUME Acyclic, ~cut PROVE
          /\ \A q \in done' \ affected' : masters[q] \subseteq done' \ affected'
          /\ \A i \in 1 .. k : ~path'[i].bad => \A q \in Looked(i) :
               q \in done' \ affected' \/ \E j \in 1 .. k : j = i + 1 /\ q = path'[j].plugin
    BY <1>2, <1>13, <1>15, LeadsKept DEF ClearedRight
  <2>2. /\ \A q \in done \ affected : masters[q] \subseteq done \ affected
        /\ \A i \in 1 .. n : ~path[i].bad => \A q \in Looked(i) :
             q \in done \ affected \/ \E j \in 1 .. n : j = i + 1 /\ q = path[j].plugin
    BY <1>1, <2>1 DEF ClearedRight
  <2>3. done \ affected \subseteq done' \ affected'
    BY <1>7, <1>8, <1>18
  <2>4. ASSUME NEW q \in done' \ affected' PROVE masters[q] \subseteq done' \ affected'
    <3>1. CASE q \in done
      BY <1>18, <2>2, <2>3, <2>4, <3>1
    <3>2. CASE q = p
      <4>1. ~path[n].bad
        BY <1>6, <1>18, <2>4, <3>2
      <4>2. ~\E j \in 1 .. n : j = n + 1
        OBVIOUS
      <4>3. masters[p] \subseteq done \ affected
        BY <1>3, <1>8, <2>2, <4>1, <4>2
      <4>4. QED
        BY <2>3, <3>2, <4>3
    <3>3. QED
      BY <1>7, <2>4, <3>1, <3>2
  <2>5. ASSUME NEW i \in 1 .. k, ~path'[i].bad, NEW q \in Looked(i)
        PROVE  q \in done' \ affected' \/ \E j \in 1 .. k : j = i + 1 /\ q = path'[j].plugin
    <3>1. ~path[i].bad /\ ~(i = k /\ l.bad) /\ i \in 1 .. n
      BY <1>11, <1>13, <2>5
    <3>2. CASE q \in done \ affected
      BY <2>3, <3>2
    <3>3. CASE q \notin done \ affected
      <4>1. PICK j \in 1 .. n : j = i + 1 /\ q = path[j].plugin
        BY <2>2, <2>5, <3>1, <3>3
      <4>2. CASE j = n
        <5>1. i = k /\ q = p
          BY <1>6, <1>9, <4>1, <4>2
        <5>2. ~l.bad
          BY <3>1, <5>1
        <5>3. QED
          BY <1>7, <1>18, <5>1, <5>2
      <4>3. CASE j # n
        <5>1. j \in 1 .. k
          BY <1>14, <4>3
        <5>2. q = path'[j].plugin
          BY <1>13, <4>1, <5>1
        <5>3. QED
          BY <4>1, <5>1, <5>2
      <4>4. QED
        BY <4>2, <4>3
    <3>4. QED
      BY <3>2, <3>3
  <2>6. QED
    BY <2>4, <2>5
<1>23. FoundRight'
  <2>1. \A q : (\E i \in 1 .. n : q \in Looked(i)) <=>
                 ((\E i \in 1 .. k : q \in Looked(i)) \/ q \in masters[p])
    BY <1>3, <1>8, <1>11, <1>14
  <2>2. \A q \in Absent : q \in missing <=> \/ \E r \in done : q \in masters[r]
                                            \/ \E i \in 1 .. n : q \in Looked(i)
    BY <1>1 DEF FoundRight
  <2>3. \A q \in Absent : q \in missing <=> \/ \E r \in done' : q \in masters[r]
                                            \/ \E i \in 1 .. k : q \in Looked(i)
    BY <1>7, <2>1, <2>2
  <2>4. \A q \in Absent : q \in missing <=> \/ \E r \in done' : q \in masters[r]
                                            \/ \E i \in 1 .. k : q \in Looked(i)'
    BY <1>15, <2>3
  <2>5. chains = {} => missing = {}
    BY DEF FoundRight
  <2>6. QED
    BY <1>2, <1>13, <2>4, <2>5 DEF FoundRight
<1>24. VisitedRight'
  <2>1. \A q \in Plugins : Checked(q)' <=> Checked(q)
    BY <1>2 DEF Checked, HasAbsentMaster
  <2>2. done \cup OnPathSet = done' \cup OnPathSet'
    BY <1>7, <1>16
  <2>3. \A q \in Plugins : Checked(q) => q \in starts \cup done \cup OnPathSet
    BY DEF VisitedRight
  <2>4. ASSUME ~cut
        PROVE  /\ \A q \in done' : masters[q] \cap Plugins \subseteq done \cup OnPathSet
               /\ \A i \in 1 .. k : Looked(i)' \cap Plugins \subseteq done \cup OnPathSet
    <3>1. /\ \A q \in done : masters[q] \cap Plugins \subseteq done \cup OnPathSet
          /\ \A i \in 1 .. n : Looked(i) \cap Plugins \subseteq done \cup OnPathSet
      BY <1>1, <2>4 DEF VisitedRight
    <3>2. masters[p] \cap Plugins \subseteq done \cup OnPathSet
      BY <1>3, <1>8, <3>1
    <3>3. QED
      BY <1>7, <1>11, <1>15, <3>1, <3>2
  <2>5. QED
    BY <1>2, <1>13, <2>1, <2>2, <2>3, <2>4 DEF VisitedRight
<1>25. ChainsRight' /\ ReportMade'
  BY <1>2, <1>17 DEF ChainsRight, ChainRight, ReportMade
<1>26. QED
  BY <1>19, <1>20, <1>21, <1>22, <1>23, <1>24, <1>25

LEMMA ReportInv == MastersInv /\ Report => MastersInv'
<1> SUFFICES ASSUME MastersInv, Report PROVE MastersInv'
  OBVIOUS
<1> USE DEF MastersInv
<1>1. /\ path = <<>> /\ starts = {} /\ report = NoLines
      /\ report' = IF chains = {} THEN [NoLines EXCEPT !.made = TRUE]
                   ELSE [made |-> TRUE, missing |-> missing,
                         disable |-> {p \in affected : Actionable(p)},
                         intermediate |-> {p \in affected : ~Actionable(p)},
                         skipped |-> {p \in Plugins : readable /\ p \in enabled /\ HasAbsentMaster(p) /\ p \notin done}]
      /\ UNCHANGED <<masters, enabled, readable, starts, path, done, affected, missing, chains, cut>>
  BY DEF Report
<1>2. affected \subseteq Plugins /\ missing \subseteq Absent
  BY DEF MastersKinds
<1>3. /\ report' \in [made : BOOLEAN, missing : SUBSET Absent, disable : SUBSET Plugins,
                      intermediate : SUBSET Plugins, skipped : SUBSET Plugins]
      /\ report'.made
      /\ report'.missing = missing
      /\ chains # {} => report'.disable = {p \in affected : Actionable(p)}
  <2>1. CASE chains = {}
    <3>1. missing = {}
      BY <2>1 DEF FoundRight
    <3>2. QED
      BY <1>1, <2>1, <3>1 DEF NoLines
  <2>2. CASE chains # {}
    BY <1>1, <1>2, <2>2
  <2>3. QED
    BY <2>1, <2>2
<1>4. {p \in affected : Actionable(p)}' = {p \in affected : Actionable(p)}
  BY <1>1 DEF Actionable, HasAffectedDependent
<1>5. MastersKinds' /\ WalkRight'
  BY <1>1, <1>3 DEF MastersKinds, WalkRight, Looked
<1>6. BlameRight' /\ ClearedRight'
  BY <1>1, LeadsKept DEF BlameRight, ClearedRight, Looked
<1>7. FoundRight' /\ ChainsRight'
  BY <1>1 DEF FoundRight, ChainsRight, ChainRight, Looked
<1>8. VisitedRight'
  BY <1>1 DEF VisitedRight, Checked, HasAbsentMaster, OnPathSet, Looked
<1>9. ReportMade'
  BY <1>1, <1>3, <1>4 DEF ReportMade
<1>10. QED
  BY <1>5, <1>6, <1>7, <1>8, <1>9

LEMMA StepMastersInv == MastersInv /\ [MastersNext]_masterVars => MastersInv'
<1> SUFFICES ASSUME MastersInv, [MastersNext]_masterVars PROVE MastersInv'
  OBVIOUS
<1>1. CASE UNCHANGED masterVars
  <2> USE <1>1 DEF masterVars, MastersInv
  <2>1. MastersKinds' /\ WalkRight'
    BY DEF MastersKinds, WalkRight, Looked
  <2>2. BlameRight' /\ ClearedRight'
    BY LeadsKept DEF BlameRight, ClearedRight, Looked
  <2>3. FoundRight' /\ ChainsRight'
    BY DEF FoundRight, ChainsRight, ChainRight, Looked
  <2>4. VisitedRight'
    BY DEF VisitedRight, Checked, HasAbsentMaster, OnPathSet, Looked
  <2>5. ReportMade'
    BY DEF ReportMade, Actionable, HasAffectedDependent
  <2>6. QED
    BY <2>1, <2>2, <2>3, <2>4, <2>5
<1>2. QED
  BY <1>1, StartWalkInv, AbsentMasterInv, KnownMasterInv, DescendInv, LeaveInv, ReportInv DEF MastersNext

LEMMA MastersInvHolds == MastersSpec => []MastersInv
BY InitMastersInv, StepMastersInv, PTL DEF MastersSpec

\* Every variable of the walk has its kind; in particular only plugins that were visited
\* are affected (MissingMasters.cpp).
THEOREM MastersTypeCorrect == MastersSpec => []MastersTypeOK
<1>1. MastersInv => MastersTypeOK
  <2> SUFFICES ASSUME MastersKinds PROVE MastersTypeOK
    BY DEF MastersInv
  <2>1. \A i \in 1 .. Len(path) : path[i] \in Visiting
    <3>1. path \in Seq(Visiting)
      BY DEF MastersKinds
    <3>2. QED
      BY <3>1
  <2>2. QED
    BY <2>1 DEF MastersKinds, MastersTypeOK, Visiting
<1>2. QED
  BY <1>1, MastersInvHolds, PTL

\* Whatever plugins depend on each other in whatever way, no plugin is blamed that does
\* not lead to a missing file; if they do not depend on themselves and no chain is too
\* deep, all that is missing is named, and disabling what the report says leaves no
\* plugin checked that leads to a missing file (Walker::visit, Diagnose).
THEOREM DiagnosisIsRight == MastersSpec => []DiagnosisRight
<1>1. MastersInv => AffectedRight
  <2> SUFFICES ASSUME MastersInv PROVE AffectedRight
    OBVIOUS
  <2> USE DEF MastersInv
  <2>1. ASSUME Acyclic, ~cut, NEW p \in done \ affected PROVE ~LeadsToMissing(p)
    <3>1. \A q \in done \ affected : masters[q] \subseteq done \ affected
      BY <2>1 DEF ClearedRight
    <3>2. done \ affected \in SUBSET Plugins
      BY DEF MastersKinds
    <3>3. QED
      BY <3>1, <3>2, ClosedDoesNotLead
  <2>2. QED
    BY <2>1 DEF AffectedRight, BlameRight
<1>2. MastersInv => MissingComplete
  <2> SUFFICES ASSUME MastersInv PROVE MissingComplete
    OBVIOUS
  <2> USE DEF MastersInv
  <2>1. ASSUME report.made PROVE report.missing = UNION {masters[p] \cap Absent : p \in done}
    <3>1. path = <<>> /\ report.missing = missing
      BY <2>1 DEF ReportMade
    <3>2. \A m \in Absent : m \in missing <=> \E p \in done : m \in masters[p]
      BY <3>1 DEF FoundRight
    <3>3. missing \subseteq Absent
      BY DEF MastersKinds
    <3>4. QED
      BY <3>1, <3>2, <3>3
  <2>2. ASSUME path = <<>>, ~cut, NEW p \in done PROVE masters[p] \cap Plugins \subseteq done
    <3>1. OnPathSet = {}
      BY <2>2 DEF OnPathSet
    <3>2. QED
      BY <2>2, <3>1 DEF VisitedRight
  <2>3. QED
    BY <2>1, <2>2 DEF MissingComplete, ChainsRight, ChainRight
<1>3. MastersInv => AdviceHelps
  <2> SUFFICES ASSUME MastersInv, report.made, Acyclic, ~cut
               PROVE  /\ readable => \A p \in Plugins : Checked(p) /\ p \notin report.disable => ~LeadsToMissing(p)
                      /\ report.missing # {} => report.disable # {}
    BY DEF AdviceHelps
  <2> USE DEF MastersInv
  <2>1. /\ path = <<>> /\ starts = {} /\ report.missing = missing
        /\ chains # {} => report.disable = {p \in affected : Actionable(p)}
    BY DEF ReportMade
  <2>2. OnPathSet = {}
    BY <2>1 DEF OnPathSet
  <2>3. ASSUME readable, NEW p \in Plugins, Checked(p), p \notin report.disable
        PROVE  ~LeadsToMissing(p)
    <3>1. p \in done /\ p \in enabled
      BY <2>1, <2>2, <2>3 DEF VisitedRight, Checked
    <3>2. CASE chains = {}
      <4>1. missing = {}
        BY <3>2 DEF FoundRight
      <4>2. \A q \in done : masters[q] \subseteq done
        <5>1. \A q \in done : masters[q] \cap Plugins \subseteq done
          BY <2>2 DEF VisitedRight
        <5>2. \A q \in done : masters[q] \cap Absent = {}
          BY <4>1 DEF FoundRight
        <5>3. \A q \in done : masters[q] \subseteq Plugins \cup Absent
          BY DEF MastersKinds, Files
        <5>4. QED
          BY <5>1, <5>2, <5>3
      <4>3. done \in SUBSET Plugins
        BY DEF MastersKinds
      <4>4. QED
        BY <3>1, <4>2, <4>3, ClosedDoesNotLead
    <3>3. CASE chains # {}
      <4>1. p \notin affected
        BY <2>1, <2>3, <3>1, <3>3 DEF Actionable
      <4>2. QED
        BY <1>1, <3>1, <4>1 DEF AffectedRight
    <3>4. QED
      BY <3>2, <3>3
  <2>4. ASSUME missing # {} PROVE report.disable # {}
    <3>1. chains # {}
      BY <2>4 DEF FoundRight
    <3>2. PICK m \in Absent : m \in missing
      BY <2>4 DEF MastersKinds
    <3>3. PICK p \in done : m \in masters[p]
      BY <2>1, <3>2 DEF FoundRight
    <3>4. p \in affected
      <4>1. CASE p \notin affected
        <5>1. masters[p] \subseteq done \ affected
          BY <4>1 DEF ClearedRight
        <5>2. QED
          BY <3>3, <5>1, FilesAssumption DEF MastersKinds
      <4>2. QED
        BY <4>1
    <3>5. CASE affected \cap enabled # {}
      BY <2>1, <3>1, <3>5 DEF Actionable
    <3>6. CASE affected \cap enabled = {}
      <4>1. PICK q \in affected : \A r \in affected : q \notin masters[r]
        BY <3>4, LastDependent DEF MastersKinds
      <4>2. q \notin HasAffectedDependent
        BY <4>1 DEF HasAffectedDependent
      <4>3. QED
        BY <2>1, <3>1, <3>6, <4>2 DEF Actionable
    <3>7. QED
      BY <3>5, <3>6
  <2>5. QED
    BY <2>1, <2>3, <2>4
<1>4. MastersInv => DiagnosisRight
  BY <1>1, <1>2, <1>3 DEF DiagnosisRight
<1>5. QED
  BY <1>4, MastersInvHolds, PTL

-----------------------------------------------------------------------------
(* What the sessions answer                                                 *)

Parts == {"name", "[decorated]", "file", "unk_", "line", "_rva", "tab"}

LEMMA ShortTexts ==
  ASSUME NEW S
  PROVE  /\ <<>> \in Seq(S)
         /\ \A v \in S : <<v>> \in Seq(S)
         /\ \A v, w \in S : <<v, w>> \in Seq(S)
OBVIOUS

LEMMA Words ==
  /\ <<>> \in Seq(Parts) /\ <<"name">> \in Seq(Parts) /\ <<"name", "[decorated]">> \in Seq(Parts)
  /\ <<"file">> \in Seq(Parts) /\ <<"unk_">> \in Seq(Parts) /\ <<"line">> \in Seq(Parts)
  /\ <<"_rva">> \in Seq(Parts) /\ <<"tab">> \in Seq(Parts)
BY ShortTexts DEF Parts

\* The text of a symbol is a sequence.
LEMMA ProcessedIsText == \A s : Processed(s) \in Seq(Parts)
<1> SUFFICES ASSUME NEW s PROVE Processed(s) \in Seq(Parts)
  OBVIOUS
<1>1. Demangled(s) \in Seq(Parts)
  <2>1. <<"name", "[decorated]">> \in Seq(Parts) /\ <<"name">> \in Seq(Parts)
    BY Words
  <2> QED BY <2>1 DEF Demangled
<1>2. LineText(s) \in Seq(Parts)
  <2>1. <<"file">> \in Seq(Parts) /\ <<"unk_">> \in Seq(Parts) /\ <<"line">> \in Seq(Parts) /\ <<>> \in Seq(Parts)
    BY Words
  <2>2. PICK a, b, c : /\ a = (IF s.source THEN <<"file">> ELSE IF s.line THEN <<"unk_">> ELSE <<>>)
                       /\ b = (IF s.line THEN <<"line">> ELSE <<>>)
                       /\ c = (IF s.source \/ s.line THEN Demangled(s) ELSE <<>>)
    OBVIOUS
  <2>3. a \in Seq(Parts) /\ b \in Seq(Parts) /\ c \in Seq(Parts)
    BY <1>1, <2>1, <2>2
  <2>4. LineText(s) = a \o b \o c
    BY <2>2 DEF LineText
  <2> QED BY <2>3, <2>4
<1>3. PICK d, l, e : /\ d = Demangled(s) /\ l = LineText(s)
                     /\ e = (IF Len(d) > 1 \/ s.named_by_rva THEN <<>> ELSE <<"_rva">>)
  OBVIOUS
<1>4. d \in Seq(Parts) /\ l \in Seq(Parts) /\ e \in Seq(Parts) /\ <<>> \in Seq(Parts)
  <2>1. <<>> \in Seq(Parts) /\ <<"_rva">> \in Seq(Parts)
    BY Words
  <2> QED BY <1>1, <1>2, <1>3, <2>1
<1>5. d \o e \in Seq(Parts) /\ l \o l \in Seq(Parts)
  BY <1>4
<1>6. Processed(s) \in {<<>>, d \o e, l, l \o l}
  BY <1>3 DEF Processed
<1> QED BY <1>4, <1>5, <1>6

\* What is put last is a suffix.
LEMMA LastIsSuffix ==
  ASSUME NEW p \in Seq(Parts), NEW q \in Seq(Parts), NEW t, t = p \o q
  PROVE  IsSuffix(q, t)
<1>1. PICK m \in Nat, n \in Nat : m = Len(p) /\ n = Len(q)
  OBVIOUS
<1>2. t \in Seq(Parts) /\ Len(t) = m + n /\ \A i \in 1 .. n : t[m + i] = q[i]
  BY <1>1
<1>3. PICK a, b : a = Reverse(q) /\ b = Reverse(t)
  OBVIOUS
<1>4. a = [i \in 1 .. n |-> q[(n - i) + 1]] /\ b = [i \in 1 .. m + n |-> t[(m + n - i) + 1]]
  BY <1>1, <1>2, <1>3 DEF Reverse
<1>5. \A i \in 1 .. n : a[i] = b[i]
  <2> SUFFICES ASSUME NEW i \in 1 .. n PROVE a[i] = b[i]
    OBVIOUS
  <2>1. i \in 1 .. m + n /\ (n - i) + 1 \in 1 .. n /\ (m + n - i) + 1 = m + ((n - i) + 1)
    OBVIOUS
  <2> QED BY <1>2, <1>4, <2>1
<1>6. Len(a) = n /\ Len(b) = m + n
  BY <1>4
<1>7. SubSeq(a, 1, n) = SubSeq(b, 1, n)
  <2>1. SubSeq(a, 1, n) = [i \in 1 .. n |-> a[i]] /\ SubSeq(b, 1, n) = [i \in 1 .. n |-> b[i]]
    OBVIOUS
  <2> QED BY <1>5, <2>1
<1> QED BY <1>3, <1>6, <1>7 DEF IsSuffix, IsPrefix

\* What is put between is included.
LEMMA MiddleIsIncluded ==
  ASSUME NEW p \in Seq(Parts), NEW q \in Seq(Parts), NEW r \in Seq(Parts), NEW t, t = p \o q \o r
  PROVE  Includes(t, q)
<1>1. PICK m \in Nat, n \in Nat, k \in Nat : m = Len(p) /\ n = Len(q) /\ k = Len(r)
  OBVIOUS
<1>2. t \in Seq(Parts) /\ Len(t) = m + n + k /\ \A i \in 1 .. n : t[m + i] = q[i]
  BY <1>1
<1>3. m \in 0 .. Len(t) - Len(q)
  BY <1>1, <1>2
<1>4. SubSeq(t, m + 1, m + n) = q
  <2>1. SubSeq(t, m + 1, m + n) = [i \in 1 .. n |-> t[m + i]]
    <3>1. PICK a, b : a = m + 1 /\ b = m + n
      OBVIOUS
    <3>2. \A i \in a .. b : i \in 1 .. Len(t)
      BY <1>2, <3>1
    <3>3. SubSeq(t, a, b) = [i \in 1 .. 1 + b - a |-> t[i + a - 1]]
      BY <1>2, <3>1, <3>2
    <3>4. 1 + b - a = n /\ \A i \in 1 .. n : i + a - 1 = m + i
      BY <3>1
    <3> QED BY <3>1, <3>3, <3>4
  <2>2. q = [i \in 1 .. n |-> q[i]]
    BY <1>1
  <2> QED BY <1>2, <2>1, <2>2
<1> QED BY <1>1, <1>3, <1>4 DEF Includes

\* The text of a public and a private symbol ends with that of the one and includes that
\* of the other.
LEMMA DetailsRight ==
  ASSUME NEW public, NEW private, public = NoSymbol => private = NoSymbol
  PROVE  /\ public # NoSymbol => IsSuffix(Processed(public), Details(public, private))
         /\ private # NoSymbol => Includes(Details(public, private), Processed(private))
         /\ public = NoSymbol => Details(public, private) = <<>>
<1>1. PICK p, q, both : p = Processed(public) /\ q = Processed(private) /\ both = p \o q
  OBVIOUS
<1>2. p \in Seq(Parts) /\ q \in Seq(Parts) /\ <<>> \in Seq(Parts) /\ <<"tab">> \in Seq(Parts)
  <2>1. <<"tab">> \in Seq(Parts) /\ <<>> \in Seq(Parts)
    BY Words
  <2> QED BY <1>1, <2>1, ProcessedIsText
<1>3. Details(public, private) =
        IF public = NoSymbol THEN <<>>
        ELSE IF private = NoSymbol \/ both = <<>> THEN p
        ELSE IF p # <<>> THEN both \o <<"tab">> \o p ELSE both
  BY <1>1 DEF Details
<1>4. PICK d : d = Details(public, private)
  OBVIOUS
<1>5. CASE public = NoSymbol
  BY <1>3, <1>5
<1>6. CASE public # NoSymbol /\ private = NoSymbol
  <2>1. d = <<>> \o p
    BY <1>2, <1>3, <1>4, <1>6
  <2>2. IsSuffix(p, d)
    BY <1>2, <2>1, LastIsSuffix
  <2> QED BY <1>1, <1>4, <1>6, <2>2
<1>7. CASE public # NoSymbol /\ private # NoSymbol /\ both = <<>>
  <2>1. p = <<>> /\ q = <<>>
    <3>1. p \in Seq(Parts) /\ q \in Seq(Parts) /\ p \o q = <<>>
      BY <1>1, <1>2, <1>7
    <3>2. \A S : \A v, w \in Seq(S) : v \o w = <<>> => v = <<>> /\ w = <<>>
      BY ConcatEqualIffEmpty
    <3> QED BY <3>1, <3>2
  <2>2. d = <<>> \o p /\ d = <<>> \o q \o <<>>
    BY <1>2, <1>3, <1>4, <1>7, <2>1
  <2>3. IsSuffix(p, d) /\ Includes(d, q)
    BY <1>2, <2>2, LastIsSuffix, MiddleIsIncluded
  <2> QED BY <1>1, <1>4, <1>7, <2>3
<1>8. CASE public # NoSymbol /\ private # NoSymbol /\ both # <<>> /\ p # <<>>
  <2>1. d = both \o <<"tab">> \o p
    BY <1>3, <1>4, <1>8
  <2>2. PICK a, b : a = both \o <<"tab">> /\ b = <<"tab">> \o p
    OBVIOUS
  <2>3. a \in Seq(Parts) /\ b \in Seq(Parts) /\ both \in Seq(Parts)
    BY <1>1, <1>2, <2>2
  <2>4. d = a \o p
    BY <2>1, <2>2
  <2>5. d = p \o q \o b
    <3>1. both \o <<"tab">> \o p = both \o (<<"tab">> \o p)
      BY <1>2, <2>3, ConcatAssociative
    <3> QED BY <1>1, <2>1, <2>2, <3>1
  <2>6. IsSuffix(p, d) /\ Includes(d, q)
    BY <1>2, <2>3, <2>4, <2>5, LastIsSuffix, MiddleIsIncluded
  <2> QED BY <1>1, <1>4, <1>8, <2>6
<1>9. CASE public # NoSymbol /\ private # NoSymbol /\ both # <<>> /\ p = <<>>
  <2>1. d = both /\ both = q
    BY <1>1, <1>2, <1>3, <1>4, <1>9
  <2>2. d = q \o p /\ d = <<>> \o q \o <<>>
    BY <1>2, <1>9, <2>1
  <2>3. IsSuffix(p, d) /\ Includes(d, q)
    BY <1>2, <2>2, LastIsSuffix, MiddleIsIncluded
  <2> QED BY <1>1, <1>4, <1>9, <2>3
<1> QED BY <1>5, <1>6, <1>7, <1>8, <1>9

-----------------------------------------------------------------------------
(* The parameters of a function                                             *)

Texts == {ParameterText(c) : c \in Children} \cup {<<"...">>}

LEMMA MaxParamsIsNat == MaxParams \in Nat
BY SessionAssumption

LEMMA AddParameterKinds == \A list \in Seq(Texts), c \in Children : AddParameter(list, c) \in Seq(Texts)
<1> SUFFICES ASSUME NEW list \in Seq(Texts), NEW c \in Children PROVE AddParameter(list, c) \in Seq(Texts)
  OBVIOUS
<1>1. PICK text \in Texts, dots \in Texts : text = ParameterText(c) /\ dots = <<"...">>
  BY DEF Texts
<1>2. list \o <<text, dots>> \in Seq(Texts) /\ Append(list, text) \in Seq(Texts)
  OBVIOUS
<1> QED BY <1>1, <1>2 DEF AddParameter

\* The list of the parameters is the lists after each of the children.
LEMMA ParametersRun ==
  ASSUME NEW children \in Seq(Children)
  PROVE  \E after \in [0 .. Len(children) -> Seq(Texts)] :
           /\ after[0] = <<>> /\ after[Len(children)] = ParameterList(children)
           /\ \A n \in 0 .. Len(children) : n < Len(children) => after[n + 1] = AddParameter(after[n], children[n + 1])
<1>1. PICK N \in Nat : N = Len(children)
  OBVIOUS
<1>2. PICK T : T = Seq(Texts)
  OBVIOUS
<1>3. <<>> \in T
  BY <1>2
<1>4. PICK step : step = [n \in 1 .. N |-> [t \in T |-> AddParameter(t, children[n])]]
  OBVIOUS
<1>5. step \in [1 .. N -> [T -> T]]
  <2>1. \A n \in 1 .. N : children[n] \in Children
    BY <1>1
  <2> QED BY <1>2, <1>4, <2>1, AddParameterKinds
<1>6. PICK g \in [SUBSET (1 .. N) -> T] : \A s \in SUBSET (1 .. N) :
        g[s] = IF s = {} THEN <<>> ELSE step[Greatest(s)][g[s \ {Greatest(s)}]]
  <2>1. PICK base : base = <<>>
    OBVIOUS
  <2>2. base \in T
    BY <1>3, <2>1
  <2>3. \E g : FoldsBy(g, N, T, base, step)
    BY <1>5, <2>2, FoldExists
  <2> QED BY <2>1, <2>3 DEF FoldsBy
<1>7. g = [n \in SUBSET (1 .. N) |->
             IF n = {} THEN <<>> ELSE AddParameter(g[n \ {Greatest(n)}], children[Greatest(n)])]
  <2>1. ASSUME NEW s \in SUBSET (1 .. N), s # {}
        PROVE g[s] = AddParameter(g[s \ {Greatest(s)}], children[Greatest(s)])
    <3>1. Greatest(s) \in 1 .. N
      BY <2>1, GreatestBelow
    <3>2. s \ {Greatest(s)} \in SUBSET (1 .. N)
      OBVIOUS
    <3> QED BY <1>4, <1>6, <2>1, <3>1, <3>2
  <2> QED BY <1>6, <2>1
<1>8. PICK f : f = (CHOOSE h : h = [n \in SUBSET (1 .. N) |->
                   IF n = {} THEN <<>> ELSE AddParameter(h[n \ {Greatest(n)}], children[Greatest(n)])])
  OBVIOUS
<1>9. f = [n \in SUBSET (1 .. N) |->
             IF n = {} THEN <<>> ELSE AddParameter(f[n \ {Greatest(n)}], children[Greatest(n)])]
  BY <1>7, <1>8
<1>10. ParameterList(children) = f[1 .. N]
  <2>1. DOMAIN children = 1 .. N
    BY <1>1
  <2>2. ParameterList(children) = (CHOOSE h : h = [n \in SUBSET (DOMAIN children) |->
            IF n = {} THEN <<>> ELSE AddParameter(h[n \ {Greatest(n)}], children[Greatest(n)])])[DOMAIN children]
    BY DEF ParameterList, FoldLeft, MapThenFoldSet, Greatest, Max
  <2> QED BY <1>8, <2>1, <2>2
<1>11. f[1 .. 0] = <<>>
  BY <1>9
<1>12. ASSUME NEW n \in 0 .. N, n < N PROVE f[1 .. n + 1] = AddParameter(f[1 .. n], children[n + 1])
  <2>1. n + 1 \in Nat /\ n + 1 # 0 /\ n + 1 - 1 = n
    OBVIOUS
  <2>2. Greatest(1 .. n + 1) = n + 1 /\ (1 .. n + 1) \ {n + 1} = 1 .. n
    BY <2>1, GreatestOfPrefix
  <2>3. 1 .. n + 1 \in SUBSET (1 .. N) /\ n + 1 \in 1 .. n + 1
    BY <1>12
  <2> QED BY <1>9, <2>2, <2>3
<1>13. \A n \in 0 .. N : f[1 .. n] \in T
  <2> DEFINE S == {n \in 0 .. N : f[1 .. n] \in T}
  <2>1. 0 \in S
    BY <1>3, <1>11
  <2>2. ASSUME NEW n \in 0 .. N, n \in S, n < N PROVE n + 1 \in S
    <3>1. f[1 .. n + 1] = AddParameter(f[1 .. n], children[n + 1])
      BY <1>12, <2>2
    <3>2. n + 1 \in 0 .. N /\ children[n + 1] \in Children
      BY <1>1, <2>2
    <3> QED BY <1>2, <2>2, <3>1, <3>2, AddParameterKinds
  <2>3. \A n \in 0 .. N : n \in S
    <3> HIDE DEF S
    <3> QED BY <2>1, <2>2, InductionUpTo
  <2> QED BY <2>3
<1>14. PICK after : after = [n \in 0 .. N |-> f[1 .. n]]
  OBVIOUS
<1>15. after \in [0 .. N -> T] /\ after[0] = <<>> /\ after[N] = ParameterList(children)
  BY <1>10, <1>11, <1>13, <1>14
<1>16. \A n \in 0 .. N : n < N => after[n + 1] = AddParameter(after[n], children[n + 1])
  <2> SUFFICES ASSUME NEW n \in 0 .. N, n < N PROVE after[n + 1] = AddParameter(after[n], children[n + 1])
    OBVIOUS
  <2>1. n + 1 \in 0 .. N
    OBVIOUS
  <2> QED BY <1>12, <1>14, <2>1
<1> QED BY <1>1, <1>2, <1>15, <1>16

\* How many parameters there are among the first children.
LEMMA ParametersCount ==
  ASSUME NEW children, NEW n \in Nat
  PROVE  /\ Cardinality(Parameters(children, 0)) = 0
         /\ Cardinality(Parameters(children, n)) \in Nat
         /\ ~children[n + 1].parameter => Parameters(children, n + 1) = Parameters(children, n)
         /\ children[n + 1].parameter =>
              Cardinality(Parameters(children, n + 1)) = Cardinality(Parameters(children, n)) + 1
<1>1. PICK S, T : S = Parameters(children, n) /\ T = Parameters(children, n + 1)
  OBVIOUS
<1>2. IsFiniteSet(S)
  <2>1. 1 \in Int /\ n \in Int
    OBVIOUS
  <2>2. IsFiniteSet(1 .. n)
    BY <2>1, FS_Interval
  <2>3. S \subseteq 1 .. n
    BY <1>1 DEF Parameters
  <2> QED BY <2>2, <2>3, FS_Subset
<1>3. Cardinality(S) \in Nat
  BY <1>2, FS_CardinalityType
<1>4. Parameters(children, 0) = {}
  BY DEF Parameters
<1>5. Cardinality({}) = 0
  BY FS_EmptySet
<1>6. 1 .. n + 1 = (1 .. n) \cup {n + 1}
  OBVIOUS
<1>7. ~children[n + 1].parameter => T = S
  BY <1>1, <1>6 DEF Parameters
<1>8. children[n + 1].parameter => T = S \cup {n + 1}
  BY <1>1, <1>6 DEF Parameters
<1>9. n + 1 \notin S
  BY <1>1 DEF Parameters
<1>10. Cardinality(S \cup {n + 1}) = Cardinality(S) + 1
  BY <1>2, <1>9, FS_AddElement
<1> QED BY <1>1, <1>3, <1>4, <1>5, <1>7, <1>8, <1>10

\* The list made of the first n children: as long as there are parameters among them, or
\* full, with each parameter at its place.
ListRight(list, children, n) ==
  LET c == Cardinality(Parameters(children, n)) IN
  /\ Len(list) = IF c < MaxParams \/ c = 0 THEN c ELSE MaxParams + 1
  /\ \A k \in Parameters(children, n) :
       LET place == Cardinality(Parameters(children, k)) IN
       place <= MaxParams => place \in 1 .. Len(list) /\ list[place] = ParameterText(children[k])

LEMMA AddParameterRight ==
  ASSUME NEW children \in Seq(Children), NEW n \in Nat, n < Len(children),
         NEW list \in Seq(Texts), ListRight(list, children, n)
  PROVE  ListRight(AddParameter(list, children[n + 1]), children, n + 1)
<1>1. PICK c \in Nat, m \in Nat, after \in Nat :
        c = Cardinality(Parameters(children, n)) /\ m = Len(list) /\ after = Cardinality(Parameters(children, n + 1))
  <2>1. n + 1 \in Nat
    OBVIOUS
  <2> QED BY <2>1, ParametersCount
<1>2. m = IF c < MaxParams \/ c = 0 THEN c ELSE MaxParams + 1
  BY <1>1 DEF ListRight
<1>3. ASSUME NEW k \in Parameters(children, n), Cardinality(Parameters(children, k)) <= MaxParams
      PROVE  /\ Cardinality(Parameters(children, k)) \in 1 .. m
             /\ list[Cardinality(Parameters(children, k))] = ParameterText(children[k])
  BY <1>1, <1>3 DEF ListRight
<1>4. PICK child \in Children : child = children[n + 1]
  <2>1. n + 1 \in 1 .. Len(children)
    OBVIOUS
  <2> QED BY <2>1
<1>5. CASE ~child.parameter
  <2>1. Parameters(children, n + 1) = Parameters(children, n)
    BY <1>4, <1>5, ParametersCount
  <2>2. AddParameter(list, child) = list
    BY <1>5 DEF AddParameter
  <2> QED BY <1>4, <2>1, <2>2 DEF ListRight
<1>6. CASE child.parameter
  <2>1. after = c + 1
    BY <1>1, <1>4, <1>6, ParametersCount
  <2>2. PICK text, dots, t : text = ParameterText(child) /\ dots = <<"...">> /\ t = AddParameter(list, child)
    OBVIOUS
  <2>3. \A k \in Parameters(children, n + 1) : k \in Parameters(children, n) \/ k = n + 1
    <3>1. 1 .. n + 1 = (1 .. n) \cup {n + 1}
      OBVIOUS
    <3> QED BY <3>1 DEF Parameters
  <2>4. PICK l \in Nat : /\ l = Len(t) /\ l >= m /\ \A i \in 1 .. m : t[i] = list[i]
                         /\ l = IF after < MaxParams \/ after = 0 THEN after ELSE MaxParams + 1
                         /\ after <= MaxParams => after \in 1 .. l /\ t[after] = text
    <3>1. CASE m > MaxParams
      <4>1. t = list
        BY <1>1, <2>2, <3>1 DEF AddParameter
      <4>2. c >= MaxParams /\ m = MaxParams + 1
        BY <1>2, <3>1, MaxParamsIsNat
      <4> QED BY <1>1, <2>1, <4>1, <4>2, MaxParamsIsNat
    <3>2. CASE m <= MaxParams /\ m + 1 = MaxParams
      <4>1. t = list \o <<text, dots>>
        BY <1>1, <1>6, <2>2, <3>2, MaxParamsIsNat DEF AddParameter
      <4>2. Len(t) = m + 2 /\ t[m + 1] = text /\ \A i \in 1 .. m : t[i] = list[i]
        BY <1>1, <4>1
      <4>3. c = m
        BY <1>2, <3>2, MaxParamsIsNat
      <4> QED BY <2>1, <3>2, <4>2, <4>3, MaxParamsIsNat
    <3>3. CASE m <= MaxParams /\ m + 1 # MaxParams
      <4>1. t = Append(list, text)
        BY <1>1, <1>6, <2>2, <3>3, MaxParamsIsNat DEF AddParameter
      <4>2. Len(t) = m + 1 /\ t[m + 1] = text /\ \A i \in 1 .. m : t[i] = list[i]
        BY <1>1, <4>1
      <4>3. c = m
        BY <1>2, <3>3, MaxParamsIsNat
      <4> QED BY <1>2, <2>1, <3>3, <4>2, <4>3, MaxParamsIsNat
    <3> QED BY <3>1, <3>2, <3>3, MaxParamsIsNat
  <2>5. ASSUME NEW k \in Parameters(children, n + 1), Cardinality(Parameters(children, k)) <= MaxParams
        PROVE  /\ Cardinality(Parameters(children, k)) \in 1 .. l
               /\ t[Cardinality(Parameters(children, k))] = ParameterText(children[k])
    <3>1. CASE k \in Parameters(children, n)
      <4>1. PICK place \in 1 .. m : place = Cardinality(Parameters(children, k)) /\ list[place] = ParameterText(children[k])
        BY <1>3, <2>5, <3>1
      <4>2. place \in 1 .. l
        BY <2>4
      <4> QED BY <2>4, <4>1, <4>2
    <3>2. CASE k = n + 1
      BY <1>1, <1>4, <2>2, <2>4, <2>5, <3>2
    <3> QED BY <2>3, <3>1, <3>2
  <2> QED BY <1>1, <1>4, <2>2, <2>4, <2>5 DEF ListRight
<1> QED BY <1>5, <1>6

LEMMA ParameterListRight ==
  ASSUME NEW children \in Seq(Children)
  PROVE  ListRight(ParameterList(children), children, Len(children))
<1>1. PICK N \in Nat : N = Len(children)
  OBVIOUS
<1>2. PICK after \in [0 .. N -> Seq(Texts)] :
        /\ after[0] = <<>> /\ after[N] = ParameterList(children)
        /\ \A n \in 0 .. N : n < N => after[n + 1] = AddParameter(after[n], children[n + 1])
  BY <1>1, ParametersRun
<1> DEFINE S == {n \in 0 .. N : ListRight(after[n], children, n)}
<1>3. 0 \in S
  <2>1. Cardinality(Parameters(children, 0)) = 0 /\ 0 \in 0 .. N
    BY ParametersCount
  <2>2. Parameters(children, 0) = {}
    BY DEF Parameters
  <2>3. Len(<<>>) = 0
    OBVIOUS
  <2>4. ListRight(<<>>, children, 0)
    BY <2>1, <2>2, <2>3 DEF ListRight
  <2> QED BY <1>2, <2>1, <2>4
<1>4. ASSUME NEW n \in 0 .. N, n \in S, n < N PROVE n + 1 \in S
  <2>1. n + 1 \in 0 .. N /\ n \in Nat
    BY <1>4
  <2>2. PICK list \in Seq(Texts) : list = after[n]
    BY <1>2
  <2>3. ListRight(list, children, n)
    BY <1>4, <2>2
  <2>4. ListRight(AddParameter(list, children[n + 1]), children, n + 1)
    BY <1>1, <1>4, <2>1, <2>3, AddParameterRight
  <2>5. after[n + 1] = AddParameter(list, children[n + 1])
    BY <1>2, <1>4, <2>2
  <2> QED BY <2>1, <2>4, <2>5
<1>5. N \in S
  <2>1. N \in 0 .. N
    OBVIOUS
  <2> HIDE DEF S
  <2> QED BY <1>3, <1>4, <2>1, InductionUpTo
<1> QED BY <1>1, <1>2, <1>5

-----------------------------------------------------------------------------
(* The answers                                                              *)

\* An answer is none, that about an address or that about a function.
AnswerRight(a) ==
  \/ a = NoAnswer
  \/ \E public, private \in Symbols \cup {NoSymbol} :
       /\ public = NoSymbol => private = NoSymbol
       /\ a = [NoAnswer EXCEPT !.public = public, !.private = private, !.result = Details(public, private)]
  \/ \E children \in Seq(Children) :
       a = [NoAnswer EXCEPT !.children = children, !.result = ParameterList(children)]

AnswersRight == /\ answers = [t \in Threads |-> answers[t]]
                /\ \A t \in Threads : AnswerRight(answers[t])

LEMMA StepAnswersRight == AnswersRight /\ [PdbNext]_pdbVars => AnswersRight'
<1> SUFFICES ASSUME AnswersRight, [PdbNext]_pdbVars PROVE AnswersRight'
  OBVIOUS
<1>1. answers = [t \in Threads |-> answers[t]] /\ \A t \in Threads : AnswerRight(answers[t])
  BY DEF AnswersRight
<1>2. ASSUME NEW t \in Threads, NEW a, AnswerRight(a), answers' = [answers EXCEPT ![t] = a]
      PROVE  AnswersRight'
  <2>1. answers' = [u \in Threads |-> IF u = t THEN a ELSE answers[u]]
    BY <1>1, <1>2
  <2>2. PICK f : f = answers'
    OBVIOUS
  <2>3. f = [u \in Threads |-> f[u]] /\ \A u \in Threads : f[u] = IF u = t THEN a ELSE answers[u]
    BY <2>1, <2>2
  <2>4. \A u \in Threads : AnswerRight(f[u])
    BY <1>1, <1>2, <2>3
  <2>5. \A u \in Threads : AnswerRight(answers[u])'
    <3> SUFFICES ASSUME NEW u \in Threads PROVE AnswerRight(answers[u])'
      OBVIOUS
    <3>1. PICK x : x = f[u]
      OBVIOUS
    <3>2. AnswerRight(x) /\ answers'[u] = x
      BY <2>2, <2>4, <3>1
    <3> QED BY <3>2 DEF AnswerRight
  <2> QED BY <2>2, <2>3, <2>5 DEF AnswersRight
<1>3. ASSUME answers' = answers PROVE AnswersRight'
  BY <1>1, <1>3 DEF AnswersRight, AnswerRight
<1>4. ASSUME NEW t \in Threads, Call(t) PROVE AnswersRight'
  <2>1. AnswerRight(NoAnswer) /\ answers' = [answers EXCEPT ![t] = NoAnswer]
    BY <1>4 DEF Call, AnswerRight
  <2> QED BY <1>2, <2>1
<1>5. ASSUME NEW t \in Threads, QueryDetails(t) PROVE AnswersRight'
  <2>1. PICK public, private \in Symbols \cup {NoSymbol} :
          /\ public = NoSymbol => private = NoSymbol
          /\ answers' = [answers EXCEPT ![t] = [NoAnswer EXCEPT !.public = public, !.private = private,
                                                                !.result = Details(public, private)]]
    BY <1>5 DEF QueryDetails
  <2>2. PICK a : a = [NoAnswer EXCEPT !.public = public, !.private = private, !.result = Details(public, private)]
    OBVIOUS
  <2>3. AnswerRight(a)
    BY <2>1, <2>2 DEF AnswerRight
  <2> QED BY <1>2, <2>1, <2>2, <2>3
<1>6. ASSUME NEW t \in Threads, QueryParameters(t) PROVE AnswersRight'
  <2>1. PICK children \in SeqOf(Children, MaxChildren) :
          answers' = [answers EXCEPT ![t] = [NoAnswer EXCEPT !.children = children, !.result = ParameterList(children)]]
    BY <1>6 DEF QueryParameters
  <2>2. PICK a : a = [NoAnswer EXCEPT !.children = children, !.result = ParameterList(children)]
    OBVIOUS
  <2>3. children \in Seq(Children)
    <3>1. PICK m \in 0 .. MaxChildren : children \in [1 .. m -> Children]
      BY DEF SeqOf
    <3>2. m \in Nat
      BY <3>1, SessionAssumption
    <3> QED BY <3>1, <3>2
  <2>4. AnswerRight(a)
    BY <2>2, <2>3 DEF AnswerRight
  <2> QED BY <1>2, <2>1, <2>2, <2>4
<1>7. ASSUME NEW t \in Threads,
             \/ Initialize(t) \/ InitializeFails(t) \/ CreateSource(t) \/ CheckCache(t)
             \/ StoreValid(t) \/ StoreChecked(t) \/ SearchPaths(t) \/ Load(t) \/ NoPdb(t) \/ OpenSession(t)
             \/ DiaRefuses(t) \/ Throws(t) \/ Uninitialize(t) \/ Release(t)
      PROVE  AnswersRight'
  <2>1. answers' = answers
    BY <1>7 DEF Initialize, InitializeFails, CreateSource, CheckCache, StoreValid, StoreChecked, SearchPaths,
                Load, NoPdb, OpenSession, DiaRefuses, Throws, Uninitialize, Release
  <2> QED BY <1>3, <2>1
<1>8. CASE UNCHANGED pdbVars
  BY <1>3, <1>8 DEF pdbVars
<1> QED BY <1>4, <1>5, <1>6, <1>7, <1>8 DEF PdbNext

\* An answer has all that was found.
LEMMA AnswerIsComplete ==
  ASSUME NEW a, AnswerRight(a)
  PROVE  /\ a.public # NoSymbol /\ Processed(a.public) # <<>> => IsSuffix(Processed(a.public), a.result)
         /\ a.private # NoSymbol => Includes(a.result, Processed(a.private))
         /\ a.public = NoSymbol /\ a.result # <<>> => ListRight(a.result, a.children, Len(a.children))
<1>1. CASE a = NoAnswer
  BY <1>1 DEF NoAnswer
<1>2. ASSUME NEW public, NEW private, public = NoSymbol => private = NoSymbol,
             a = [NoAnswer EXCEPT !.public = public, !.private = private, !.result = Details(public, private)]
      PROVE  /\ a.public # NoSymbol => IsSuffix(Processed(a.public), a.result)
             /\ a.private # NoSymbol => Includes(a.result, Processed(a.private))
             /\ a.public = NoSymbol => a.result = <<>>
  <2>1. a.public = public /\ a.private = private /\ a.result = Details(public, private)
    BY <1>2 DEF NoAnswer
  <2> QED BY <1>2, <2>1, DetailsRight
<1>3. ASSUME NEW children \in Seq(Children),
             a = [NoAnswer EXCEPT !.children = children, !.result = ParameterList(children)]
      PROVE  /\ a.public = NoSymbol /\ a.private = NoSymbol
             /\ ListRight(a.result, a.children, Len(a.children))
  <2>1. a.children = children /\ a.result = ParameterList(children) /\ a.public = NoSymbol /\ a.private = NoSymbol
    BY <1>3 DEF NoAnswer
  <2> QED BY <2>1, ParameterListRight
<1> QED BY <1>1, <1>2, <1>3 DEF AnswerRight

\* Whatever of the two kinds of sessions runs at once and however they end, COM is as
\* before, all search the symbol cache that there is, and the answer tells all that DIA
\* found: the lines of both symbols, and the parameters in order up to the limit
\* (PdbSession, processSymbol, pdb_details, pdb_function_parameters).
THEOREM SessionsAreRight == PdbSpec => []SessionsRight
<1>1. PdbInit => AnswersRight
  <2> SUFFICES ASSUME PdbInit PROVE AnswersRight
    OBVIOUS
  <2>1. answers = [t \in Threads |-> NoAnswer]
    BY DEF PdbInit
  <2>2. \A t \in Threads : answers[t] = NoAnswer
    BY <2>1
  <2> QED BY <2>1, <2>2 DEF AnswersRight, AnswerRight
<1>2. AnswersRight => AnswersComplete
  <2> SUFFICES ASSUME AnswersRight, NEW t \in Threads, NEW a, a = answers[t]
               PROVE  LET parameters == Parameters(a.children, Len(a.children))
                          Place(k) == Cardinality(Parameters(a.children, k))
                      IN /\ a.public # NoSymbol /\ Processed(a.public) # <<>> => IsSuffix(Processed(a.public), a.result)
                         /\ a.private # NoSymbol => Includes(a.result, Processed(a.private))
                         /\ a.public = NoSymbol /\ a.result # <<>> =>
                              /\ Len(a.result) = IF Cardinality(parameters) < MaxParams THEN Cardinality(parameters)
                                                 ELSE MaxParams + 1
                              /\ \A k \in parameters : Place(k) <= MaxParams =>
                                   a.result[Place(k)] = ParameterText(a.children[k])
    BY DEF AnswersComplete
  <2>1. AnswerRight(a)
    BY DEF AnswersRight
  <2>2. /\ a.public # NoSymbol /\ Processed(a.public) # <<>> => IsSuffix(Processed(a.public), a.result)
        /\ a.private # NoSymbol => Includes(a.result, Processed(a.private))
        /\ a.public = NoSymbol /\ a.result # <<>> => ListRight(a.result, a.children, Len(a.children))
    BY <2>1, AnswerIsComplete
  <2> QED BY <2>2 DEF ListRight
<1>3. PdbSpec => []AnswersRight
  BY <1>1, StepAnswersRight, PTL DEF PdbSpec
<1>4. ComBalanced /\ SymcacheRight /\ AnswersComplete => SessionsRight
  BY DEF SessionsRight
<1> QED BY <1>2, <1>3, <1>4, ComIsBalanced, SymcacheIsRight, PTL

-----------------------------------------------------------------------------
(* The lookups together                                                     *)

\* What is proved of the search for model paths, of the diagnosis and of the sessions
\* holds where they are run as parts of one model.
THEOREM LookupsRunTheirParts == LookupSpec => PathSpec /\ MastersSpec /\ PdbSpec
<1>1. LookupInit => PathInit /\ MastersInit /\ PdbInit
  BY DEF LookupInit
<1>2. [LookupNext]_<<part, pathVars, masterVars, pdbVars>>
        => [PathNext]_pathVars /\ [MastersNext]_masterVars /\ [PdbNext]_pdbVars
  BY DEF LookupNext
<1>3. QED
  BY <1>1, <1>2, PTL DEF LookupSpec, PathSpec, MastersSpec, PdbSpec

\* Every variable of the lookups keeps to its type.
THEOREM LookupTypeCorrect == LookupSpec => []LookupTypeOK
<1>1. PathTypeOK /\ MastersTypeOK /\ PdbTypeOK => LookupTypeOK
  BY DEF LookupTypeOK
<1>2. QED
  BY <1>1, LookupsRunTheirParts, PathTypeCorrect, MastersTypeCorrect, SessionTypeCorrect, PTL
=============================================================================
