# CrashLoggerSSE in TLA+

CrashLoggerSSE is an SKSE plugin: a DLL that lives inside Skyrim, waits for the
game to crash, and then writes a readable log of what every register, stack slot
and call frame was. It also writes a dump of all threads when the user presses a
hotkey while the game hangs. It does this inside a process that is broken, with
other threads still running, under a top-level exception filter, and usually once
in the life of a process: code that is hard to test and easy to get wrong in ways
that only show as a log that is missing, cut off or misleading.

This directory holds TLA+ models of that code, TLC configurations that check them
on small instances, and theorems about them that TLAPS has checked for every value
of the constants. Paths below are relative to the root of the repository.

## 1. The system and its parts

`main.cpp` (`SKSEPluginLoad`) loads the settings, installs the two request hooks,
and calls `Crash::Install`, which adds the vectored exception handler, reserves
stack for it and starts the hotkey monitor. From then on the parts meet in shared
state: the crash handler reads what the hooks recorded, the crash handler and the
monitor share `seen_objects`, and everything prints through the PDB and module
code.

| component | state it keeps | operations | what is hard |
|---|---|---|---|
| Model demand tracker `Crash/ModelDemandTracker.cpp` | pool of slots, one ring of 8 entries per thread, `active` markers | claim a slot, record a request, guard released, report | lock-free claiming; nested requests that wrap the ring under the guard; exceptions; a copy that faults half way |
| Crash handler `Crash/CrashHandler.cpp` | re-entry flag, top-level filter, static mutex, the log, the process | vectored handler, filter, one section after the other, catch clauses, show the log, terminate | several threads crash at once; the handler itself crashes; workers crash while the handler waits for them; termination races the writing |
| Logs and retention `Crash/CommonHeader.cpp` | the crash log directory | name and create a log, clean old files, write a minidump | names of one second; files the user moves or holds open; a delete that fails; the order of cleaning and writing |
| Thread dump and hotkey `Crash/ThreadDump.cpp` | suspend counts, list of threads, edge detector of the hotkey | poll, snapshot, two rounds of visits, sort, write | a suspended thread that holds a lock the dump needs; threads that exit between the rounds; errors inside a visit |
| Object introspection `Crash/Introspection/Introspection.cpp` | `seen_objects`, the label generator | `analyze_data` on parallel workers, over two passes | the order in which workers meet an object; positions that mean different places in different blocks; objects that come and go meanwhile |
| Relevant objects `CrashHandler.cpp`, `RelevantObjectsSimplifier.cpp` | the map of objects to list | add with the closest occurrence kept, sort, simplify | descriptions against references; ties |
| Call stack `CrashHandler.cpp`, `Crash/Analysis.cpp` | frames of a faulted thread | walk, reseed, recover from a null call, scan the stack, merge | partial results of a walk that faults |
| Module table `Crash/Modules/ModuleHandler.cpp` | modules in address order | enumerate, look up an address | boundaries, modules without a file |
| Symbols `Crash/PDB/PdbHandler.cpp` | DIA sessions by file | open, look up, format | functions that share a session behind different mutexes |
| Model path lookup `Crash/ModelPathLookup.cpp` | ring of 8192 ids and paths | record, search from the handler | records overwritten while they are read |
| Missing masters `Crash/MissingMasters.cpp` | memo of a graph search | load order, search, report | cycles and memoisation |
| Problematic modules, C++ exception details, heap analysis, game state | little or none | match, decode, walk, print | guarded reads that fail |
| Pastebin upload | a request under way | upload, copy, open | every step can fail |
| Settings, start-up | settings | load, parse the hotkey | fallbacks |
| PDB scripts `scripts/*.py` | a state file of what was uploaded | package, upload, save | a run that dies between upload and save |
| Probe tool `tools/diaprobe` | none | prints what DIA returns | - |

What makes each of them correct, in a line:

- **Model demand tracker**: a thread has one slot and keeps it; a request is marked
  as being executed exactly while it is; the report shows the last requests of the
  faulting thread, newest first, and nothing else.
- **Crash handler**: one report at a time; what was flushed is on disk whatever
  happens next; the handlers of several threads do not shut each other out on the way to the end.
- **Logs and retention**: the limits are kept, the log being written is not deleted,
  a minidump without its log has a known cause.
- **Thread dump**: every thread that was suspended is resumed, once; one dump per
  press; a section for every thread, in order; the dump ends unless a thread keeps a lock it needs.
- **Introspection**: an object is described once; a reference leads to the place
  where it is described; the list of relevant objects has each of them and no other.
- **Module table, call stack**: an address is attributed to the module that
  contains it, however enumerating the modules fails; frames that were walked are printed.
- **Model path lookup**: an id is never shown with the path of another request.
- **Missing masters**: the plugins listed are exactly those with a chain to a
  missing master.
- **Symbols**: a session leaves its thread's COM apartment as the game made it, whatever
  DIA refuses.
- **Exception report, sections**: a chain of nested exceptions is told to the limit,
  circles too; a step that is refused costs no handle and not the lines of the others.
- **PDB scripts**: a package is complete and not stale, and is uploaded once.

`PROJECT.json` lists the hazards of the code line by line, with the properties that
would catch each of them going wrong. Four have none: a walk of the stack that faults
after it stored frames and a worker that crashes under the handler that waits for it (the loss,
and the waiting, are what the code does), and two that need a thread
dump and a crash at once (section 7).

## 2. Modules

| module | models | state and actions against the code |
|---|---|---|
| `ModelDemandTracker` | the hook and the report | `owner`, `head`, `ring` are the fields of a slot; `stack` is the C++ stack with one guard per nested request. `FindSlot`/`ClaimSlot`/`SkipSlot`/`DropRequest` are the iterations of `FindOrClaimSlot` (a compare-and-swap is one step), `Record` fills the entry at `head % Capacity`, `FaultInCopy` is the copy that faults, `Return` and `Throw`/`Unwind` release guards, `Crash` takes the report, `Told` with what is missing when its memory runs out |
| `RecentRequests` | what the tracker promises a thread | abstract: a list per thread of its newest requests, without slots, indices or guards. `ModelDemandTracker` instantiates it as `Recent` with a refinement mapping |
| `CrashHandler` | exception to end of process | one program counter per thread. `Fault` and `FastFail` run the vectored handler; `Unhandled` enters through the filter; `Lock`, `StartLog`, `Section`, `Flush`, `StartParallel`, `Join`, `Finish`, `Escape`, `Catch` and the steps that show the log and terminate are the handler in its order. `buffer` is what the logger holds, `disk` what the file holds |
| `CrashLog` | what the reader of the crash logs is promised | abstract: a writer with the name of its log and the number of its sections on disk, the files, and the reports that failed and have not said so; no threads, mutex, buffers or frames. `CrashHandler` instantiates it as `Promised` with a refinement mapping |
| `LogRetention` | the directory over many crashes | a crash runs `get_timestamped_log`, `clean_old_files` for each kind of file and `write_minidump`; a call of `clean_old_files` lists once (`List`, which passes over what it cannot read), then deletes file by file, and the first exception ends it; the process may end between any two steps, and the user opens, edits and deletes files. `stranded` remembers the minidumps whose log was taken without them |
| `ThreadDump` | hotkey monitor and its two rounds | the game takes and releases locks, its threads exit, the user presses keys; the monitor polls, snapshots, opens, suspends, collects, sorts, dumps and resumes. `want` is the lock that a visit waits for. A thread that holds a lock gives it back, or never does: the game is taken for hung |
| `Introspection` | the two passes of a crash over registers and stack | one `call` of `analyze_data` after the other, its elements in any order. `seen` is `seen_objects`, `results[c][p]` the string printed for element `p` of call `c`, `Backfilled` what `backfill_void_pointers` makes of them, `relevant` the map of relevant objects. `GameRelevant` is `is_game_relevant_type`: an object of the game is entered as one that counts (`Meet`) and its flag set by its class when the filters are done (`Complete`), one of another module has it from its class at once (`MeetForeign`) |
| `ModuleTable` | `get_loaded_modules` and the lookup of an address | `Enumerate` is one call of `EnumProcessModules` with the buffer of the last one, `EnumerateFails` one whose failure is not looked at: it may have filled some of the buffer, `needed` stands, the loop ends; `Describe`/`DescribeFaults` are the workers, in any order; `Load` and `Unload` are the game's other threads |
| `CallStack` | `Callstack`, `recover_null_call_stack`, `get_throw_location`, `build_hybrid_callstack` | extends `ModuleTable`. `ReadCaller` (whatever is on the stack), `Unwind` (from code only), `WalkEnds`, `WalkFaults` walk on from a call to zero; `Capture`, `Locate`, `Merge`, `PrintRows` are the rest in its order |
| `ReportSections` | the sections that ask the system for facts, clipboard and upload | `Routines` gives each routine as a sequence of steps: what a step asks for, acquires and releases, where it goes on when refused, which clause catches what it throws. `Works`, `Refused`, `Throws` are the three outcomes of the current step. `passed` remembers what was held when an exception passed its releases by |
| `ExceptionReport` | `print_exception` and the decoding of a C++ exception | `levels` is the recursion, `depth` the thread-local `exception_depth`; one action per kind of exception, `Nested`, `LimitReached`, `Return`, and `Throw`/`Caught`/`Uncaught` for the unwinding |
| `RelevantObjects` | collection, order, simplification, the printed section | `Add` in any order, `Sort`, `PrintRow`, `PrintEnd`, `PrintFails`; `Simplified` is `simplify_for_relevant_objects` on the fields it extracts |
| `ModelPathLookup` | the ring of resource ids and `FindPathsOnStack` | writers go through `Claim`, `Mapped`, `Clear`, `CopyPath` (two halves), `StoreId`; the search through `MapRecord`, `IdAt`, `BeginHit`, `EndHit`. `touched` remembers where a writer interfered |
| `MissingMasters` | `Walker` and `Diagnose` | any graph of masters; `path` is the recursion with what each visit has still to do, `done`, `affected`, `missing`, `chains` are the walker's members |
| `PdbSession` | `pdb_details` and `pdb_function_parameters` | per thread one session through `Initialize` ... `Uninitialize`; two mutexes (`sync`), the two shared cache flags, COM's count per thread; any step may be refused (`DiaRefuses`) or throw (`Throws`); `LineText` and `AddParameter` make the two answers |
| `PdbPipeline` | `regenerate_pdbs.py`, `package_skyrim_pdbs.py` | `Edit` and `Finish` are Ghidra, `Start` ... `SaveUpload` the run in its order, `Refused` and `Killed` what may happen to it; `file` is the state file, `nexus` the versions created |
| `ReportParts`, `Lookups` | - | join the parts of a report, and the three lookups, in one specification: `part` says which of them moves, because they share no variable |
| `<module>Proofs` | - | the theorems about that module |
| `ReportProofs` | - | the theorems about `ReportParts` and its parts: `ReportSections`, `ExceptionReport`, `RelevantObjects`, `ModuleTable` and `CallStack` |
| `LookupProofs` | - | the theorems about `PdbPipeline`, and about `Lookups` and its parts: `PdbSession`, `ModelPathLookup` and `MissingMasters` |
| `WellOrders` | - | least elements of sets of numbers and of pairs, counting up to a number, and the recursion behind a fold: used where the code takes the best of a list or builds one in a loop |
| `MC<module>` | - | the instance for TLC: constants that a .cfg cannot express, symmetry |

How they meet. The tracker and the crash handler meet in one call (`get_report`, the
action `Crash`); the crash handler and the retention meet in the file system, where each
models the side that the other leaves alone. `CrashHandler` sees a section as a number that
may throw; `Introspection`, `CallStack` over `ModuleTable`, `ExceptionReport`, `RelevantObjects`,
`ModelPathLookup`, `MissingMasters` and `ReportSections` say what happens inside one, and
`PdbSession` what any of them that prints a frame calls. The workers of `Introspection` are
`Workers` in `CrashHandler`.

What is abstract: paths, messages and addresses are members of small sets; the text of a
section is the items it tells; the filters that describe an object are one step whose result
is "a description of this object, made at this time". What is not abstract: the order of
steps, guards and early returns, error paths, the width of `head`, positions, block sizes and
limits.

### Decisions worth knowing

- *Fast-fail.* A fast-fail reaches the vectored handler in the model because the code
  assumes so (the comment in `VectoredExceptions`: "VEH catches them"); what Windows
  does is external.
- *Locking twice.* A `std::mutex` that its own thread locks again is undefined behaviour;
  `Lock` has both outcomes of the runtime, a second acquisition and an error that is
  thrown.
- *Time.* The clock is external and only moves forward; a second can be as long as
  any number of steps.
- *The end of a thread in the tracker.* A new thread with the id of one that ended finds its
  slot, as the old thread would have with no request under way: the two are one thread of the
  model.
- *Cleaning inside `CrashHandler`.* The logs open in this process cannot be removed,
  so the crash handler's model leaves cleaning to `LogRetention`.
- *Races on plain fields.* A path of `ModelPathLookup` is copied in two halves, so that a reader or
  a second writer in between sees a mixture; the bytes within a half are not looked into.
- *DIA objects* of a session are released after `CoUninitialize`, the order the destructor has.
- *Two printings in `pdb_details`.* The public text appears twice if there is a private one;
  the model keeps that.
- *Ghidra.* The modification number of a program only grows; copying a PDB is one step; two runs of
  the scripts do not overlap.

## 3. Runs

Every run finishes within about three minutes with two workers.

| run | instance | question | answer |
|---|---|---|---|
| `demand` | 3 threads, 2 slots, rings of 2, `head` modulo 4; one thread nests to depth 2, makes 5 requests and may run out of memory as it reports; 1.2 million states | are slots, markers and reports right, and does each thread see the list it was promised? | yes: `SlotsRight` (`OneSlotPerThread`, `WritesOwnSlotOnly`, `DropOnlyWhenFull`), `OwnershipStable`, `NoFalseInFlight`, `RecentInFlight` (kept, reported, newest first), `RefinesRecentRequests` |
| `crash` | 2 threads and 1 worker that may crash, 2 sections, one of them parallel, 2 seconds; 426,000 states | one writer, nothing lost, the logs that were promised, and nobody shut out? | yes: `ReportsExclusive` (`OneWriter`, `WriterHoldsMutex`), `ReportsKept` (`WrittenSectionsSurvive`, `ClosedReportKept`), `RefinesCrashLog`, `HandlersGoOn` |
| `shown` | the same with the log shown | is the log complete when it is shown? | no: see findings |
| `threaddump` | 2 threads, 1 lock, 2 presses; 146,000 states | are threads resumed, logs complete and sorted, dumps finished? | yes, except where a thread keeps the lock: `NothingLeftSuspended`, `OneDumpPerPress`, `LogRight` (`LogComplete`, `SectionsSorted`), `DumpEndsOrLockKept` |
| `frozen` | 1 thread, 1 lock, 1 press | does every dump end? | no: see findings |
| `retention` | limits of 2 logs and 1 minidump, 4 seconds, 2 actions of the user, any file unreadable; 3.1 million states | are the limits kept and the right files deleted? | yes, with one minidump more: `CurrentLogKept`, `CleaningKeepsLimit`, `LimitsHold` (`LogsBounded`, `DumpsBoundedByOneMore`), `OrphansExplained` |
| `introspection` | 1 register, 3 stack slots, blocks of 3 and 2, every mix of values on the stack, one class that does not count, 1 object freed or created meanwhile; 2.2 million states | are objects described once, references and lists right? | yes: `DescriptionsRight` (`DescribedOnce`, `NothingOld`), `ReferencesRight` (`ReferencesNameTheObject`, `ReferencesDescribedNear`), `RelevantListed`, `BackfillComplete` |
| `selfref` | a smaller set of values | is everything referred to also described? | no: see findings |
| `report` | 2 modules loaded and unloaded twice and enumerations that fail, call stacks over 6 addresses; every section with every failure; 2 nested records in any chain, 2 reports; 4 offers of relevant objects; 1.7 million states | does each part of a report say what it should, whatever fails? | yes: `TableRight`, `CallStackRight`, `SectionsContained`, `ExceptionTold`, `NearestShown` |
| `modulebase` | the call stack's modules | is a module found by its own base? | no: see findings |
| `lookups` | 2 writers, a ring of 2; every graph of masters over 3 plugins; 2 threads with sessions; 948,000 states | are paths true, diagnoses right, sessions balanced? | yes: `PathsRight`, `DiagnosisRight`, `SessionsRight` |
| `scripts` | 2 runtimes, 6 command lines, 3 runs, 2 tasks, kills anywhere; 2.77 million states | is what is uploaded complete, fresh and uploaded once? | yes, but for a run that ends between upload and record: `UploadsRight`, `StagedFresh`, `InstallerRight` |

Every passing run has one type invariant besides. Every property has a mutant in
`PROJECT.json`: a plausible mistake in one operation under which the run finds the
property violated; their definitions are marked "Defect:" in the modules.

### Why these bounds are enough

- `demand`: three threads and two slots is the least that has a race for a slot and
  a thread left without one. Rings of two and a `head` modulo four let one busy
  thread lap its ring and wrap its head while a guard of the first lap is pending;
  the other two threads only matter for claiming, so they make one request each and
  are symmetric; the memory of a report runs out (`Short`) only for the busy one, whose report has
  more to lose. The code requires that the capacity divide 2^32, and the model that
  `Capacity` divide `HeadMod`.
- `crash`: two threads are the least for a race of two reports. A worker is a third
  thread that can crash, but only while a section waits for it. Frames nest to two
  because the flag lets one fast-fail in and is never reset; two sections tell "written
  before" from "being written", and one of them is parallel. Two seconds give logs of
  the same and of different names.
- `threaddump`: two threads give an order, one to be sorted before the other, one
  that exits between the visits. One lock suffices since a visit waits for one at a
  time and the question is whether the thread it visits holds it. Two presses give a
  key that is pressed again while a dump is written.
- `retention`: with limits of two and one, four crashes pass each limit and go on
  after it; two actions of the user are one that makes a delete fail and one that
  changes times, or a deletion between the listing and the deleting.
- `introspection`: a register and a stack slot share the number 0, which is where
  positions collide; three slots with blocks of 3 and 2 give a first pass with one
  block and a second with a full and a partial block, so an object may be met first
  in one block and again in another. All objects exist at first, or only those of the game, or
  only the others, and one may change; the register holds an object or a form id. Larger numbers add only further blocks, of which
  each is compared with the first one.
- `report`: two changes load a module and unload another while the table is made, so that the buffer
  is once too small and once too large and a described module disappears. Limits of two and three
  frames are passed by what is walked, captured and found on a stack of two. Two records give
  chains that end, that run in a circle of one and of two, and pass a depth of two; the second
  report shows what the first left in the thread's depth. Four offers exceed the two rows by
  more than one object and offer one of them again, nearer and further.
- `lookups`: three claims on a ring of two let two writers meet in one record and a writer overtake
  the search. Three plugins and an absent file give chains, diamonds, circles, and a chain beyond
  the depth of one. Two threads are one in each of the two functions, and contenders for one;
  a second call finds the cache flags set or half set.
- `scripts`: three runs are one that leaves a task or a half-done upload behind, one that meets it and
  one that compares with what both left on record. Two runtimes are the least for a package that
  lacks one. Two edits make an old PDB and a task that writes it late.

### Fairness

- `ThreadDump`: weak fairness of the monitor's steps, a thread that Windows schedules and nothing
  suspends, and strong fairness of getting a lock, `Got`: a thread that waits while others take the
  lock and give it back again and again gets it in the end. None of the game's steps: the hotkey is
  for a game that hangs, whose threads may never give back what they hold. What `DumpEndsOrLockKept`
  leaves a dump that does not end is therefore one lock that one thread keeps for ever; that thread
  may be the suspended one (`frozen`), one that waits for a lock of it, or one that is stuck.
- `CrashHandler` assumes none. A dump that is being written suspends every other thread, one that
  crashes included, and may never resume it, and a section may wait for a lock of the thread that
  faulted: that the process ends is not what the code guarantees. `HandlersGoOn` says what it does:
  in every state a thread in the handler can take its next step, or the one it waits for can, with
  the one exception of a worker that has crashed.
- The other modules state no liveness: their loops are bounded by data, and what they wait for is
  the system's to give.

## 4. Findings

Each is a violation run whose trace shows what the code does; `PROJECT.json` quotes the
line of the repository that says otherwise.

1. `shown`: a second crash within the same second truncates the first log between its
   last flush and its being shown.
2. `frozen`: a dump of a frozen game can freeze itself: the monitor waits for a lock
   that the thread it has suspended holds.
3. `selfref`: the passes use blocks of 1000 and of 256, and positions count from the
   start of a block: an object first met at stack index 256 or later is printed as a
   reference to itself and described nowhere.
4. `modulebase`: `get_module_for_pointer` passes over the module whose base is the pointer; the
   module of a C++ exception, which is looked up by its base, is never named.

Other things the models show, stated as what the code does rather than as properties that
fail:

- An outer request still executing after `Capacity` nested ones has left the ring; the guard
  it leaves clears the marker of a nested one that has returned (`RecentInFlight` promises the newest `Capacity` only).
- The flag against re-entry is set only on the way through the vectored handler: a fast-fail in a
  handler entered through the filter enters again (`Lock` has what follows).
- The timeout of a section (`CrashHandler.cpp:1595`) is a constant that nothing uses: a section ends when
  it ends, or waits for ever for a worker that crashed and waits for the mutex. `HandlersGoOn` has this
  as its only exception.
- The result of `SetClipboardData` is ignored (`CommonHeader.cpp:185`): a copy that is refused stays
  allocated, and the upload goes on as if it had been taken (`Lost` in `ResourcesRight`).
- The handles of the upload are closed one by one, not by guards: an exception passes them by (`passed`).
- The result of `K32EnumProcessModules` is ignored (`ModuleHandler.cpp:337`): if the first call fails
  the table is empty, and if a later one does null handles may be described, which faults (`TableRight`).
- A process that ends between the delete of a log and that of its minidump, or a minidump that is
  open, leaves the minidump until the cleaning of minidumps reaches it (`OrphansExplained`).
- Minidumps are cleaned before the new one is written, so one more than the maximum is kept
  (`DumpsBoundedByOneMore`).
- Frames stored by a walk that faults later are dropped by the caller (`WalkFaults`).
- A record of `ModelPathLookup` that is overwritten during the search can show an id with another
  path (`PathsOfIdsOnStack` is stronger than what `PathsRight` claims).
- A plugin visited on a circle of masters may be remembered as unaffected (`AffectedRight` claims
  completeness for graphs without circles only).
- The state file is saved after the upload, so that a run that ends in between uploads the same
  package once more (`interrupted` in `UploadsRight`).

## 5. Theorems

TLAPS proves, without bounds on threads, slots, sections, files, frames or values (only what
the `ASSUME` of each module says; TLC evaluates these on its instances). Of the 36 invariants
of the passing runs 35 have their theorem, and so have the action property of the run `demand` and the
two refinements, of `RecentRequests` and of `CrashLog`; what is left to TLC is in section 6.

| module | theorem | along which invariant |
|---|---|---|
| `ModelDemandTrackerProofs` | `TypeCorrect`, `OwnershipNeverChanges`, `SlotsAreRight` (from `AtMostOneSlot`, `OnlyOwnSlotWritten`, `DroppedOnlyWhenPoolExhausted`), `NoFalseMarker` | `SlotInv` = `OneSlotPerThread` ∧ `WritesOwnSlotOnly` ∧ `DropOnlyWhenFull`, together inductive: that a thread claims at most one slot rests on the part of `DropOnlyWhenFull` about a search under way, which owns nothing yet and has passed only taken slots. `NoFalseInFlight` is inductive over `SlotInv`, because only the owner's own calls clear or overwrite an entry |
| | `RecentRequestsReported`, `TrackerImplementsRecentRequests` | `RingInv`: `head` is the number of requests recorded, modulo `HeadMod`; a guard's index is that of its place in this order; a marked entry is one whose index no later request has taken. `ReportInv` says it of the reports, which stay as they were taken. The refinement maps each thread to the last `Capacity` entries of its ring and goes step by step: `Record` is a request that is noted, a request without a path or a slot one that is ignored, `Return` and `Unwind` leave one, `Crash` and `FaultInCopy` are the report; the search for a slot does not show. Both rest on lemmas about the modulus: since `Capacity` divides `HeadMod`, indices of places less than `Capacity` apart differ, and a wrap of `head` shifts none |
| `CrashHandlerProofs` | `ControlInvariant`, `TypeCorrect`, `ReportsAreExclusive` (from `MutexAgrees`, `OneReportAtATime`), `LogInvariant`, `ReportsAreKept` | `ControlInv` = `TypeOK` ∧ `FramesOK` ∧ `MutexOK` ties frames and program counters to the owner and count of the mutex; `LogInv` = `ContentOK` ∧ `WrittenSectionsSurvive` ∧ `ClosedReportKept` adds that a section is in the buffer until it is flushed and that a closed report writes no more. `OneWriter` follows from the mutex |
| | `CrashHandlerImplementsCrashLog` | over `ControlInv`, `LogInv` and `BufferOK`: the buffer of a report holds the section that is being written and nothing else, which is why a flush puts exactly the next section on disk and the notice of a failure at most one besides. The mapping takes the thread in the `try` block, if there is one, for the writer, and every thread in a catch clause for a report that failed; one lemma per action says which step of `CrashLog` it is, and `HiddenStep` that the others are none |
| `ThreadDumpProofs` | `DumpInvariant`, `TypeCorrect`, `ThreadsAreResumed`, `DumpsArePressed`, `LogIsRight` (from `SectionsAreSorted`, `LogIsComplete`) | `DumpInv`: a visit is a visit to the thread at `pos`, suspend counts follow `visiting`, and a press not yet answered pays for the next dump. `OrderInv`: every section written is better than everything left, from which sortedness follows without induction over the list. `RoundsInv`: after the first round the threads visited are those collected and those skipped; in the second, sections and `left` share out what was collected, and their numbers are counted by cardinality |
| `LogRetentionProofs` | `RetentionInvariant`, `TypeCorrect`, `CurrentLogStays`, `DumpsGoWithLogs` | `CrashOK`: the current log is there and open, so that no delete can succeed on it. `OrphanInv`: a minidump without its log is the file whose turn is next or in `stranded`, over all crashes; with it, that the cleaning of minidumps has no logs to delete and the file whose turn is next is none; by `CrashOK` the minidump about to be written has its log |
| | `CleaningStopsAtLimit`, `LimitsAreKept` | `LimitsInv`, over cardinalities: what a call has listed to keep is as much as the limit, the user may take some of it but a call takes no more than it listed; what holds when a call ends holds until the report unless something failed |
| `IntrospectionProofs` | `TypeCorrect`, `TableInvariant`, `DescriptionsAreRight` (from `FiltersRunOnce`, `NothingOldIsTold`), `ReferencesAreRight` | `TableInv`: once the table has been reset an entry is never a reference and never old, and its label leads to its object (`SeenOK`); the filters of an object have started only if its entry is there (`DescribedOK`, `FillingOK`); so every result printed from the table names its object (`ResultsOK`) |
| | `PrintInvariant`, `BackfillIsComplete`, `PrintedReferencesAreRight` (from `ReferencesAreRight`, `NearReferencesAreDescribed`), `RelevantAreListed` | `PrintInv` = `TableInv` ∧ `TellingInv` ∧ `CollectedRight` relates the two passes: an entry of the table that describes was told at its place, an empty one has a worker inside the filters, a mere pointer is printed only where there is an address, and a form that was collected is described. `CollectedListed` adds that a collected call has its objects in the list, no further away, and `EntryRight` that the flag of an entry is that of its class once its filters are done (`FlagRight`). That a label of the first pass leads to the right place of the second needs `Block2 <= Block1` and the first `Block2` positions, which is finding 3 |
| `ReportProofs` | `ExceptionTypeCorrect`, `ExceptionIsTold` | `ReportInv`: a call waits at its end for the call it has made, and what announces a nested record is followed by it, by its failure, or by an exception that is on its way (`NestedFollows`, `HeaderFollows`) |
| | `RelevantTypeCorrect`, `NearestAreShown` | `ObjectsInv`: each address is kept once at its least distance, the sorted list has all of them, a position that was passed has its row or nothing to show |
| | `ModulesTypeCorrect`, `TableIsRight` | `ModulesInv`: before the last turn of `EnumProcessModules` the buffer is too small; modules that stayed are in front of those loaded since; after the last turn the handles are those of modules loaded all at once, or one is null and describing it faults, or an enumeration failed and what it left has the modules that stayed, a null handle, or nothing |
| | `CallStackTypeCorrect`, `CallStackIsRight` | `StackInv`: frames begin at the exception, what has been merged is complete, what has been printed has a row for each frame. That a merge is complete is shown of its loops one after the other (`ScannedRight`, `ProbablesRight`, `InsertedRight`, `MergeCompletes`): a frame is left out only if a limit is full, counted by the pigeonhole principle |
| | `SectionsAreContained` (with `SectionsTypeCorrect`) | `SectionInv`: before a step what the routine's table says is held is held, and what is held besides is what an exception passed by or the clipboard refused (`HeldOK`), an exception that left a routine came from an unguarded step (`EscapedOK`), a step that must not be lost is passed only after it was tried (`KeptOK`), and the upload ends with the address or a notice (`AnswerOK`). That it is inductive is shown once, for any routine each of whose steps is `Balanced`, `Careful` and leads somewhere (`StepOK`); that each step of each routine is, is one lemma per routine |
| | `ReportRunsItsParts`, `ReportTypeCorrect` | a behaviour of `ReportSpec` is one of each part's specification, so that the theorems above hold of the instance that TLC checks |
| `LookupProofs` | `PipelineTypeCorrect`, `UploadsAreRight`, `StagedIsFresh`, `InstallerIsRight` | `PipelineInv`: the task that is polled was submitted for the runtime at hand and reads a program no older than what was asked for; no PDB is older than the number on record, which is why it may be skipped; a runtime is staged, bad or still to be staged; a version is created only by a run that was refused nothing |
| | `SessionTypeCorrect`, `ComIsBalanced`, `SymcacheIsRight`, `SessionsAreRight` | `SessionInv`: a session that initialised COM has one initialisation more than the game made, in a multithreaded apartment; what a thread has read or is about to store of the cache flags is so. `AnswersRight`: an answer is the fold of the code's loop over what DIA found, whose value is then shown place by place |
| | `PathTypeCorrect`, `PathsAreRight` | `PathInv`: a record that one writer holds and that nobody touched after the search had read it has no id while its path is being copied and the path of its id otherwise; the map has what was read, and every id read so far has its hit unless the limit is reached |
| | `MastersTypeCorrect`, `DiagnosisIsRight` | `MastersInv`: the path is a chain of masters without repetition; who is blamed leads to a missing file; without circles a plugin done and not affected has only masters like itself; what was checked is still to start, on the path or done |
| | `LookupsRunTheirParts`, `LookupTypeCorrect` | the same for `LookupSpec` |
| `WellOrders` | `LeastPair`, `FoldExists` | from the library's well-founded induction, used through `WFMin` so that no theorem with an operator parameter is needed. `LeastPair` gives the choice of the next section of a dump; `FoldExists` that the recursion behind a fold from the left has a solution, by the least length at which it would not: with it the loops of `CallStack` and `PdbSession` are computed one iteration at a time |

In each case the strengthening says what a thread *between* two steps relies on: that
a slot it passed stays taken, that a frame inside the `try` holds the mutex, that the
thread suspended is the one the monitor will resume, that the log being written stays
open, that an entry of the table once made is not taken back, that a record read while a
writer was at it is known to be touched.

What the proofs assume of the constants, beyond their kinds: that `Capacity` divides `HeadMod` (8
and 2^32), that images do not overlap and lie below `Top`,
that the set of plugins is finite and a missing file is none of them, that no class of forms is filtered out as irrelevant, that runtimes are listed once
each, and that the blocks of the second pass are no larger than those of the first (256 and 1000).

## 6. Only model-checked, and why

- **Liveness and `ENABLED`**: `DumpEndsOrLockKept`, and the invariant `HandlersGoOn`, which says that
  steps are possible (both are out of the prover's reach).
- What is stated only under a condition stays so in the theorems: `DiagnosisIsRight` promises
  completeness for graphs without circles, `PathsAreRight` the paths of records that no writer reached
  meanwhile, `PrintedReferencesAreRight` descriptions near the start of a block. The runs show why.

## 7. Plan

Done: the modules of section 2 with their runs, the refinements of `RecentRequests` and of `CrashLog`,
and the proofs of section 5. Next: the composition of a thread dump with a crash. Both use
`seen_objects`, which only a crash resets, and the global label generator; the composed module would
give the two hazards without a property theirs.

## 8. Not modelled

- What the sections print, formatting, symbol contents, the game's data structures: data, not
  control. Introspection's filters are one step.
- `waitForDebugger`, patching of the hooks, `SetThreadStackGuarantee`: before or outside the
  behaviour that the properties are about.
- `StopHotkeyMonitoring` and `dump_symbols`: nothing calls them.
- The minidump and the messages at the end of a thread dump; locks needed outside a visit, and two
  locks at once in a visit (`ThreadDump`; it may need one after the other in two visits).
- In `Introspection`: the fallback when the second pass throws, objects behind heap pointers, a
  thread dump that runs during a crash.
- Disassembly, the reading of signatures, the unwinder, DIA and COM themselves, the parsing of
  plugin headers, the network and the clipboard: external, modelled by their outcomes. What
  `Next(i > 1)` of `IDiaEnumLineNumbers` writes beyond one line is left out.
- Problematic modules (a table of names compared once), heap analysis (a loop over what the system
  hands out, behind one guard), settings (read once; its values are constants here), start-up (the
  state it leaves is `Init`), the probe tool and `archive_artifacts.py` (they print and copy): no
  state of their own that could go wrong; see the notes in `PROJECT.json`.
