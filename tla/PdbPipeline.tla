----------------------------- MODULE PdbPipeline -----------------------------
(***************************************************************************)
(* The scripts that publish the symbol files of the game                   *)
(* (src/scripts/regenerate_pdbs.py, src/scripts/package_skyrim_pdbs.py):   *)
(* one run asks Ghidra to regenerate PDBs, stages and packs them, and      *)
(* uploads the package to Nexus as a new version of one file.              *)
(*                                                                         *)
(* Programs are edited in Ghidra all the while, its tasks finish whenever  *)
(* they like, requests fail, and a run can be killed between any two       *)
(* steps.  Runs do not overlap.  The content of a PDB is the modification  *)
(* number of the program it was made from, and two packages have the same  *)
(* fingerprint when they hold the same PDBs.                               *)
(***************************************************************************)
EXTENDS Naturals, Sequences, SequencesExt

CONSTANTS
  Runtimes,   \* RUNTIMES: the keys, highest game_version first
  Options,    \* the command lines: [runtimes, regenerate, force, fresh, upload, forceUpload]
  NoRun,      \* the arguments while no run is under way
  MaxEdits,   \* bound: modification number of a program
  MaxTasks,   \* bound: tasks in Ghidra
  MaxRuns     \* bound: runs of the script

ASSUME PipelineAssumption ==
  /\ Runtimes \in Seq(Range(Runtimes)) /\ IsInjective(Runtimes)
  /\ \A o \in Options :
       /\ o.runtimes \subseteq Range(Runtimes) /\ o.runtimes # {}
       /\ {o.regenerate, o.force, o.fresh, o.upload, o.forceUpload} \subseteq BOOLEAN
  /\ MaxEdits \in Nat \ {0} /\ {MaxTasks, MaxRuns} \subseteq Nat

VARIABLES
  modnum,       \* key |-> getModificationNumber() of the program
  pdb,          \* key |-> content of src_pdb, 0 when there is no such file
  tasks,        \* tasks in Ghidra: those given up still run, a polled one is last
  file,         \* what load_state() makes of the state file
  pc,           \* where the run is
  opts,         \* its arguments
  todo,         \* the keys still to be handled by the current loop
  num,          \* modnum of regenerate_one, 0 when None
  failed,       \* keys that failed to regenerate
  bad,          \* keys that failed to stage
  staged,       \* key |-> content of its PDB under stage_root
  nexus,        \* the versions of the file on Nexus
  runs,         \* history: number of runs
  seen,         \* history: key |-> modnum when this run asked for it, 0 before
  late,         \* history: keys of tasks that finished after they were given up
  interrupted   \* history: versions whose record a run failed to save, or lost

ghidraVars == <<modnum, pdb, tasks, late>>
runVars == <<opts, todo, num, failed, bad, seen>>
pipelineVars == <<ghidraVars, file, pc, runVars, staged, nexus, runs, interrupted>>

Keys == Range(Runtimes)
None == [k \in Keys |-> 0]
EmptyState == [runtimes |-> None, last_upload |-> None]

\* The runtimes are numbered by their versions, the last one being 1.
VersionOf(k) == Len(Runtimes) + 1 - CHOOSE i \in DOMAIN Runtimes : Runtimes[i] = k

\* Both loops go through the keys that are left to them in the order of RUNTIMES.
Key == CHOOSE k \in todo : \A j \in todo : VersionOf(j) <= VersionOf(k)

PipelineInit ==
  /\ modnum = [k \in Keys |-> 1]
  /\ pdb \in [Keys -> {0, 1}]
  /\ tasks = <<>>
  /\ file = EmptyState
  /\ pc = "idle"
  /\ opts = NoRun /\ todo = {} /\ num = 0 /\ failed = {} /\ bad = {} /\ seen = None
  /\ staged = None
  /\ nexus = <<>>
  /\ runs = 0 /\ late = {} /\ interrupted = {}

-----------------------------------------------------------------------------
(* Ghidra                                                                   *)

Edit(k) ==
  /\ modnum[k] < MaxEdits
  /\ modnum' = [modnum EXCEPT ![k] = @ + 1]
  /\ UNCHANGED <<pdb, tasks, late, file, pc, runVars, staged, nexus, runs, interrupted>>

Awaited(i) == pc = "poll" /\ i = Len(tasks)

\* PdbGen writes the PDB from the program as it was at some time since the
\* task was submitted; or it fails.
Finish(i) ==
  LET k == tasks[i].key
      Ends(status) == tasks' = IF Awaited(i) THEN [tasks EXCEPT ![i].status = status] ELSE RemoveAt(tasks, i)
  IN
  /\ tasks[i].status = "running"
  /\ \/ /\ \E n \in tasks[i].from .. modnum[k] : pdb' = [pdb EXCEPT ![k] = n]
        /\ Ends("done")
        /\ late' = IF Awaited(i) THEN late ELSE late \cup {k}
     \/ Ends("failed") /\ UNCHANGED <<pdb, late>>
  /\ UNCHANGED <<modnum, file, pc, runVars, staged, nexus, runs, interrupted>>

-----------------------------------------------------------------------------
(* regenerate_pdbs.py                                                       *)

\* A run that ends leaves only what is on disk, in Ghidra and on Nexus.
Exit ==
  /\ pc' = "idle"
  /\ opts' = NoRun /\ todo' = {} /\ num' = 0 /\ failed' = {} /\ bad' = {} /\ seen' = None

Start(o) ==
  /\ pc = "idle"
  /\ runs < MaxRuns
  /\ runs' = runs + 1
  /\ opts' = o
  /\ todo' = o.runtimes
  /\ \/ o.regenerate /\ pc' = "ask" /\ UNCHANGED staged
     \/ ~o.regenerate /\ pc' = "stage" /\ staged' = None
  /\ UNCHANGED <<ghidraVars, file, num, failed, bad, seen, nexus, interrupted>>

\* Defect: a runtime that failed is packed with the PDB that is there.
NextKey_KeepsFailed(nowFailed) ==
  /\ failed' = nowFailed
  /\ num' = 0
  /\ \/ todo # {Key} /\ todo' = todo \ {Key} /\ pc' = "ask" /\ UNCHANGED staged
     \/ /\ todo = {Key}
        /\ todo' = opts.runtimes
        /\ pc' = "stage" /\ staged' = None

\* The keys of the next loop, and the rmtree of stage_root before the staging.
NextKey(nowFailed) ==
  /\ failed' = nowFailed
  /\ num' = 0
  /\ \/ todo # {Key} /\ todo' = todo \ {Key} /\ pc' = "ask" /\ UNCHANGED staged
     \/ /\ todo = {Key}
        /\ todo' = opts.runtimes \ nowFailed
        /\ pc' = "stage" /\ staged' = None

\* get_modification_number; the reply may lack the number.
Ask ==
  /\ pc = "ask"
  /\ num' \in {0, modnum[Key]}
  /\ seen' = [seen EXCEPT ![Key] = modnum[Key]]
  /\ pc' = "decide"
  /\ UNCHANGED <<ghidraVars, file, opts, todo, failed, bad, staged, nexus, runs, interrupted>>

\* Defect: an unknown number is compared like any other.
Unchanged_None(k) ==
  /\ ~opts.force
  /\ file.runtimes[k] = num
  /\ pdb[k] # 0

Unchanged(k) ==
  /\ ~opts.force
  /\ num # 0
  /\ file.runtimes[k] = num
  /\ pdb[k] # 0

Skip ==
  /\ pc = "decide"
  /\ Unchanged(Key)
  /\ NextKey(failed)
  /\ UNCHANGED <<ghidraVars, file, opts, bad, nexus, runs, seen, interrupted>>

Submit ==
  /\ pc = "decide"
  /\ ~Unchanged(Key)
  /\ Len(tasks) < MaxTasks
  /\ tasks' = Append(tasks, [key |-> Key, from |-> modnum[Key], status |-> "running"])
  /\ pc' = "poll"
  /\ UNCHANGED <<modnum, pdb, late, file, runVars, staged, nexus, runs, interrupted>>

\* Defect: only the entries of the runtimes are written back.
SaveRegenerated_Only(k) == file' = [EmptyState EXCEPT !.runtimes = [file.runtimes EXCEPT ![k] = num]]

\* save_state of regenerate_one: the state as it was loaded, with the new number.
SaveRegenerated(k) == file' = [file EXCEPT !.runtimes[k] = num]

\* What goes on in Ghidra when nobody polls any more: all but a task that is over.
StillRunning ==
  IF tasks # <<>> /\ tasks[Len(tasks)].status # "running" THEN Front(tasks) ELSE tasks

\* The PDB has a size; the new state is written to the end.
PollDone ==
  /\ pc = "poll"
  /\ tasks[Len(tasks)].status = "done"
  /\ SaveRegenerated(Key)
  /\ tasks' = StillRunning
  /\ NextKey(failed)
  /\ UNCHANGED <<modnum, pdb, late, opts, bad, nexus, runs, seen, interrupted>>

\* A request fails, the task fails, or the polls run out.
RegenerationFails ==
  /\ pc \in {"ask", "decide", "poll"}
  /\ pc = "decide" => ~Unchanged(Key)
  /\ tasks' = StillRunning
  /\ NextKey(failed \cup {Key})
  /\ UNCHANGED <<modnum, pdb, late, file, opts, bad, nexus, runs, seen, interrupted>>

-----------------------------------------------------------------------------
(* package_skyrim_pdbs.py                                                   *)

\* stage_runtime: the hash is that of the staged copy.
Stage ==
  /\ pc = "stage"
  /\ todo # {}
  /\ todo' = todo \ {Key}
  /\ \/ pdb[Key] # 0 /\ staged' = [staged EXCEPT ![Key] = pdb[Key]] /\ UNCHANGED bad
     \/ (pdb[Key] = 0 \/ opts.fresh) /\ bad' = bad \cup {Key} /\ UNCHANGED staged
  /\ UNCHANGED <<ghidraVars, file, pc, opts, num, failed, nexus, runs, seen, interrupted>>

Packed == (opts.runtimes \ failed) \ bad

\* Defect: the patterns of an option name the runtimes of this package only.
Patterns_Available == SelectSeq(Runtimes, LAMBDA k : k \in Packed)

\* The patterns of every option of the installer, in their order.
Patterns == Runtimes

\* An option is recommended for the game version v when the first of its
\* patterns that v satisfies is its own.
Satisfied(v) == {i \in DOMAIN Patterns : VersionOf(Patterns[i]) <= v}
Recommended(v) ==
  {k \in Packed : \E i \in Satisfied(v) : Patterns[i] = k /\ \A j \in Satisfied(v) : i <= j}

\* Nothing staged, no valid XML, or 7z failed: the script exits, as it does
\* after the archive when there is nothing to upload.
Package ==
  /\ pc = "stage"
  /\ todo = {}
  /\ \/ Packed # {} /\ opts.upload /\ pc' = "gate" /\ UNCHANGED runVars
     \/ Exit
  /\ UNCHANGED <<ghidraVars, file, staged, nexus, runs, interrupted>>

\* Defect: the runtimes the caller named, not those that are left, are compared.
Refused_ByArguments == bad # {} \/ opts.runtimes # Keys

Refused == bad # {} \/ opts.runtimes \ failed # Keys

UpToDate == ~opts.forceUpload /\ file.last_upload = staged

\* Both refusals and the comparison of fingerprints; the parts are transferred
\* and finalised, or the run ends with no new version.
Upload ==
  /\ pc = "gate"
  /\ \/ ~Refused /\ ~UpToDate /\ pc' = "create" /\ UNCHANGED runVars
     \/ Exit
  /\ UNCHANGED <<ghidraVars, file, staged, nexus, runs, interrupted>>

\* The version exists from here on.  When its answer is lost the script ends
\* with the exception; a changelog that fails does not matter.
CreateVersion ==
  /\ pc = "create"
  /\ nexus' = Append(nexus, [content |-> staged, forced |-> opts.forceUpload])
  /\ \/ pc' = "save" /\ UNCHANGED <<runVars, interrupted>>
     \/ Exit /\ interrupted' = interrupted \cup {Len(nexus')}
  /\ UNCHANGED <<ghidraVars, file, staged, runs>>

SaveUpload ==
  /\ pc = "save"
  /\ file' = [file EXCEPT !.last_upload = staged]
  /\ Exit
  /\ UNCHANGED <<ghidraVars, staged, nexus, runs, interrupted>>

InSave == pc = "save" \/ (pc = "poll" /\ tasks[Len(tasks)].status = "done")

\* Killed, at any point; inside save_state, which truncates the file it opens,
\* nothing can be read back from it.
Killed ==
  /\ pc # "idle"
  /\ Exit
  /\ tasks' = StillRunning
  /\ \/ UNCHANGED file
     \/ InSave /\ file' = EmptyState
  /\ interrupted' = IF pc = "save" \/ file' # file THEN interrupted \cup {Len(nexus)} ELSE interrupted
  /\ UNCHANGED <<modnum, pdb, late, staged, nexus, runs>>

PipelineNext ==
  \/ \E k \in Keys : Edit(k)
  \/ \E i \in DOMAIN tasks : Finish(i)
  \/ \E o \in Options : Start(o)
  \/ Ask
  \/ Skip
  \/ Submit
  \/ PollDone
  \/ RegenerationFails
  \/ Stage
  \/ Package
  \/ Upload
  \/ CreateVersion
  \/ SaveUpload
  \/ Killed

PipelineSpec == PipelineInit /\ [][PipelineNext]_pipelineVars

-----------------------------------------------------------------------------
(* Properties                                                               *)

\* Every variable holds a value of the kind the code gives it.  Only the
\* task that is polled can be over and still be there, and once it stages, the runtimes it failed
\* to regenerate are out of its hands.
PipelineTypeOK ==
  /\ modnum \in [Keys -> 1 .. MaxEdits]
  /\ {pdb, staged, seen, file.runtimes, file.last_upload} \subseteq [Keys -> 0 .. MaxEdits]
  /\ \A i \in DOMAIN tasks : tasks[i].status = "running" \/ Awaited(i)
  /\ pc \in {"idle", "ask", "decide", "poll", "stage", "gate", "create", "save"}
  /\ pc \in {"ask", "decide", "poll"} => todo # {}
  /\ pc = "poll" => tasks # <<>> /\ tasks[Len(tasks)].key = Key
  /\ opts \in Options \/ (pc = "idle" /\ opts = NoRun)
  /\ pc # "idle" => todo \subseteq (IF pc = "stage" THEN opts.runtimes \ failed ELSE opts.runtimes)
  /\ num \in 0 .. MaxEdits
  /\ failed \cup bad \subseteq Keys

\* "the uploaded file replaces the combined all-runtimes archive": whatever
\* failed, was asked for or is missing, a version holds every runtime.
VersionsComplete == \A i \in DOMAIN nexus : \A k \in Keys : nexus[i].content[k] # 0

\* "--upload skips the actual upload ... if the staged PDBs' content hash
\* matches the last successful upload": the same package is not uploaded twice
\* in a row, over any number of runs and regenerations, unless by force or
\* because a run ended between creating a version and having it on record.
NoUploadTwice ==
  \A i \in 1 .. Len(nexus) - 1 :
    nexus[i].content = nexus[i + 1].content => nexus[i + 1].forced \/ i \in interrupted

\* What is on record as uploaded is the newest version, but for such runs: else
\* a package that was never uploaded would be skipped.
RecordedUploaded ==
  pc # "save" =>
    \/ Len(nexus) \in interrupted
    \/ file.last_upload = IF nexus = <<>> THEN None ELSE nexus[Len(nexus)].content

UploadsRight == VersionsComplete /\ NoUploadTwice /\ RecordedUploaded

\* "excluding from this run rather than packaging a possibly-stale existing PDB
\* for them": a PDB staged by a run that regenerates is no older than the
\* program was when that run asked, however many earlier runs were killed,
\* timed out or skipped it.  Only a task that an earlier run gave up can undo
\* this, when it finishes late.
StagedFresh ==
  pc \in {"stage", "gate", "create", "save"} /\ opts.regenerate =>
    \A k \in Keys : staged[k] # 0 => staged[k] >= seen[k] \/ k \in late

\* The package holds the runtimes its installer offers and no others (7z packs
\* all of stage_root), and "a missing runtime's threshold must still intercept":
\* a game of some runtime's version is recommended that one or none.
InstallerRight ==
  pc \in {"gate", "create", "save"} =>
    /\ {k \in Keys : staged[k] # 0} = Packed
    /\ \A v \in 0 .. Len(Runtimes) : Recommended(v) = {k \in Packed : VersionOf(k) = v}
=============================================================================
