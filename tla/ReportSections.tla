--------------------------- MODULE ReportSections ---------------------------
(***************************************************************************)
(* The sections of a crash report that ask the system for facts, and the   *)
(* upload of the finished log (CrashHandler.cpp, CommonHeader.cpp).  Each  *)
(* is a routine of steps that may be refused by the system or may throw    *)
(* (the handler turns access violations into exceptions, so that any step  *)
(* may), with what it acquires, releases and tells.  The facts themselves  *)
(* are left out.                                                           *)
(*                                                                         *)
(* A step leads to the next one.  When it is refused it tells so or is     *)
(* silent, releases what "undo" says and goes on at "go"; when it throws,  *)
(* the catch clause around it tells so or is silent, releases what         *)
(* "rescue" says and the routine goes on at "catch", or, without a clause, *)
(* is left.                                                                *)
(***************************************************************************)
EXTENDS Naturals, Sequences, FiniteSets

VARIABLES
  routine,      \* the routine that is being executed
  pc,           \* its step, or End
  tried,        \* items whose step was begun
  told,         \* items with a line of their own
  noted,        \* items with a line that says they failed
  held,         \* what was acquired and not released
  passed,       \* history: what was held when an exception passed its releases by
  escaped       \* the items whose exception left the routine

sectionVars == <<routine, pc, tried, told, noted, held, passed, escaped>>

End == 99
Leaves == 0     \* no catch clause in the routine

-----------------------------------------------------------------------------
(* The forms of a step.                                                    *)

Step(item, refused, go, catch) ==
  [item |-> item, refused |-> refused, go |-> go, catch |-> catch, caught |-> "told", next |-> 0,
   gets |-> {}, frees |-> {}, undo |-> {}, rescue |-> {}]

\* No result is looked at, or there is none.
Sure(item, catch) == Step(item, "never", 0, catch)

\* What a step acquires and releases, when it is refused and when it throws.
Gets(step, resources) == [step EXCEPT !.gets = resources]
Frees(step, resources) == [step EXCEPT !.frees = resources]
Undoes(step, resources) == [step EXCEPT !.undo = resources]
Rescues(step, resources) == [step EXCEPT !.rescue = resources]

\* Nothing tells of an exception of the step; it leads elsewhere than to the next one.
Silently(step) == [step EXCEPT !.caught = "silent"]
LeadsTo(step, next) == [step EXCEPT !.next = next]

-----------------------------------------------------------------------------
(* The sections.                                                           *)

\* Defect: the early return without an adapter keeps the factory.
SystemInfo_KeepsFactory == <<
  Sure("os", Leaves), Sure("cpu", Leaves), Sure("cores", 4), Sure("gpus", Leaves), Sure("memory", Leaves),
  Step("process_memory", "silent", 7, 7),
  Gets(Step("factory", "told", End, 10), {"factory"}),
  Gets(Step("adapter", "told", End, 10), {"adapter"}),
  Undoes(Frees(Step("video_memory", "told", 10, 10), {"adapter", "factory"}), {"adapter", "factory"}),
  Step("virtual_machine", "silent", End, Leaves)>>

SystemInfo == <<
  Sure("os", Leaves), Sure("cpu", Leaves), Sure("cores", 4), Sure("gpus", Leaves), Sure("memory", Leaves),
  Step("process_memory", "silent", 7, 7),
  Gets(Step("factory", "told", End, 10), {"factory"}),
  Undoes(Gets(Step("adapter", "told", End, 10), {"adapter"}), {"factory"}),
  Undoes(Frees(Step("video_memory", "told", 10, 10), {"adapter", "factory"}), {"adapter", "factory"}),
  Step("virtual_machine", "silent", End, Leaves)>>

\* get_file_md5 tells its failures in place of the sum; either way step "to" follows.
FileMd5(to) == <<
  Step("file", "told", to, to),
  Gets(Step("provider", "told", to, to), {"provider"}),
  Undoes(Gets(Step("hash", "told", to, to), {"hash"}), {"provider"}),
  Undoes(Step("data", "told", to, to), {"hash", "provider"}),
  Undoes(Frees(Step("sum", "told", to, to), {"hash", "provider"}), {"hash", "provider"})>>

ProcessFacts == <<
  Sure("ids", Leaves), Step("uptime", "silent", 3, 3), Step("directory", "silent", 4, 4),
  Step("command_line", "silent", 5, 14), Step("executable", "silent", 14, 14)>>
FileFacts == <<
  Sure("md5", 14), Step("size", "silent", 13, 14), Step("modified", "silent", 14, 14),
  Gets(Step("token", "silent", End, End), {"token"}),
  Undoes(Frees(Step("elevated", "silent", End, End), {"token"}), {"token"})>>
ProcessInfo == ProcessFacts \o FileMd5(11) \o FileFacts

ThreadContext == <<
  Step("call_stack", "told", End, Leaves), Step("frames", "told", End, Leaves), Sure("heuristics", Leaves),
  Sure("priority", Leaves), Step("role", "told", End, Leaves)>>

VrInfo == <<
  Step("library", "silent", End, Leaves), Step("entry_points", "silent", End, Leaves),
  Step("runtime", "told", End, Leaves), Step("device", "silent", 5, Leaves),
  Step("model", "told", 6, 6), Step("manufacturer", "told", 7, 7), Step("hardware_revision", "told", 8, 8),
  Step("driver", "told", 9, 9), Step("render_model", "told", 10, 10), Step("tracking_system", "told", 11, 11),
  Step("frequency", "told", 12, 12), Step("ipd", "told", 13, 13), Step("render_target", "told", End, End)>>

\* For each module; the row of a plugin follows after the last one.
XsePlugins == <<
  Sure("names", Leaves), Step("exists", "silent", End, End),
  LeadsTo(Silently(Sure("version", 4)), 5),
  Step("version_text", "silent", 5, End), Sure("plugin", Leaves)>>

Plugins == <<Step("data_handler", "silent", End, Leaves), Sure("counts", Leaves),
             Sure("regular_files", Leaves), Sure("light_files", Leaves)>>

ModuleList == <<Sure("width", Leaves), Sure("modules", Leaves)>>

GameStateLines == <<Sure("state", Leaves)>>

MissingMasterLines == <<Step("diagnosis", "silent", End, Leaves), Sure("masters", Leaves)>>

\* Sections that are only for diagnosis swallow their exceptions.
ModelDemands == <<Silently(Step("requests", "silent", End, End)), Silently(Sure("demands", End))>>

ModelPaths == <<Silently(Step("stack", "silent", End, End)), Silently(Step("hits", "silent", End, End)),
                Silently(Sure("paths", End))>>

\* copy_to_clipboard from step 16 of the upload on; its catch clause closes the clipboard.
\* Whether the clipboard took the copy is not looked at, and nothing releases a copy that
\* it refused.
Clipboard(to) == <<
  Rescues(Gets(Step("clipboard", "told", to, to), {"clipboard"}), {"clipboard"}),
  Rescues(Undoes(Gets(Step("copy", "told", to, to), {"copy"}), {"clipboard"}), {"clipboard"}),
  Rescues(Undoes(Step("lock", "told", to, to), {"copy", "clipboard"}), {"clipboard"}),
  Rescues(Frees(Step("set", "silent", 20, to), {"copy"}), {"clipboard"}),
  Rescues(Frees(Sure("close", to), {"clipboard"}), {"clipboard"})>>

Handles == {"session", "connection", "request"}

\* upload_log_to_pastebin.  Steps 10 and 11 are the loop that reads the response; with
\* the address in hand it goes on with the clipboard and the browser.
UploadLog == <<
  Step("key", "told", End, End), Step("log", "told", End, End), Sure("content", End),
  Gets(Step("open", "told", End, End), {"session"}),
  Undoes(Gets(Step("connect", "told", End, End), {"connection"}), {"session"}),
  Undoes(Gets(Step("open_request", "told", End, End), {"request"}), {"connection", "session"}),
  Step("headers", "silent", 8, End),
  Undoes(Step("send", "told", End, End), Handles), Undoes(Step("receive", "told", End, End), Handles),
  Step("available", "silent", 12, End), LeadsTo(Step("read", "silent", 10, End), 10),
  Frees(Sure("close", End), Handles),
  Step("accepted", "told", End, End), Step("url", "told", End, End), Sure("uploaded", End)>>
ShowUrl == <<Step("browser", "told", 22, End), Sure("return", End)>>
Upload == UploadLog \o Clipboard(21) \o ShowUrl

Routines ==
  [system |-> SystemInfo, process |-> ProcessInfo, thread |-> ThreadContext, vr |-> VrInfo,
   xse |-> XsePlugins, plugins |-> Plugins, modules |-> ModuleList, game |-> GameStateLines,
   masters |-> MissingMasterLines, demands |-> ModelDemands, paths |-> ModelPaths, upload |-> Upload]

-----------------------------------------------------------------------------
SectionsInit ==
  /\ routine \in DOMAIN Routines /\ pc = 1
  /\ tried = {} /\ told = {} /\ noted = {} /\ held = {} /\ passed = {} /\ escaped = {}

Running == pc # End
Current == Routines[routine][pc]
After(step) == IF step.next # 0 THEN step.next ELSE IF pc = Len(Routines[routine]) THEN End ELSE pc + 1

Works ==
  /\ Running
  /\ pc' = After(Current)
  /\ tried' = tried \cup {Current.item} /\ told' = told \cup {Current.item}
  /\ held' = (held \cup Current.gets) \ Current.frees
  /\ UNCHANGED <<routine, noted, passed, escaped>>

Refused ==
  /\ Running /\ Current.refused # "never"
  /\ pc' = Current.go
  /\ tried' = tried \cup {Current.item}
  /\ noted' = IF Current.refused = "told" THEN noted \cup {Current.item} ELSE noted
  /\ held' = held \ Current.undo
  /\ UNCHANGED <<routine, told, passed, escaped>>

Throws ==
  /\ Running
  /\ pc' = IF Current.catch = Leaves THEN End ELSE Current.catch
  /\ escaped' = IF Current.catch = Leaves THEN {Current.item} ELSE {}
  /\ tried' = tried \cup {Current.item}
  /\ noted' = IF Current.catch # Leaves /\ Current.caught = "told" THEN noted \cup {Current.item} ELSE noted
  /\ held' = held \ Current.rescue
  /\ passed' = passed \cup (held \ Current.rescue)
  /\ UNCHANGED <<routine, told>>

SectionsNext == Works \/ Refused \/ Throws
SectionsSpec == SectionsInit /\ [][SectionsNext]_sectionVars

-----------------------------------------------------------------------------
Resources == Handles \cup {"factory", "adapter", "provider", "hash", "token", "clipboard", "copy"}

SectionsTypeOK ==
  /\ routine \in DOMAIN Routines /\ (pc = End \/ pc \in 1 .. Len(Routines[routine]))
  /\ told \cup noted \cup escaped \subseteq tried /\ held \cup passed \subseteq Resources

\* The copy that the clipboard did not take (CommonHeader.cpp:185).
Lost == IF "set" \in tried \ told THEN {"copy"} ELSE {}

\* On every path through a section and through the upload, what is released is held, and
\* what is still held at the end is what an exception passed by or what the clipboard
\* refused; the clipboard itself is always closed.
ResourcesRight ==
  /\ Running => Current.undo \subseteq held /\ Current.frees \subseteq held \cup Current.gets
  /\ ~Running => held \subseteq passed \cup Lost
  /\ "clipboard" \in held => Running

\* What is asked for whatever becomes of the rest of its section.
Independent == [r \in DOMAIN Routines |->
  CASE r = "process" -> {"uptime", "directory", "command_line", "token"}
    [] r = "system"  -> {"cores", "memory", "process_memory", "factory"}
    [] r = "vr"      -> IF "runtime" \in told THEN {"model", "driver", "frequency", "ipd", "render_target"} ELSE {}
    [] r = "xse"     -> IF "exists" \in told /\ noted = {} THEN {"plugin"} ELSE {}
    [] r = "upload"  -> IF "uploaded" \in told /\ noted \subseteq {"clipboard", "copy", "lock", "set", "close", "browser"}
                        THEN {"browser"} ELSE {}
    [] OTHER         -> {}]

\* One failure does not cost the others their lines: the independent items of a section
\* are tried at its end unless an exception left it, which only those of the unguarded
\* items of system, process and VR specs and the listings can; the upload and the sections
\* that are only for diagnosis let none out, and an address that was uploaded and lost is noted.
FailuresContained == ~Running =>
  /\ escaped = {} => Independent[routine] \subseteq tried
  /\ routine \in {"upload", "demands", "paths"} => escaped = {}
  /\ routine = "process" => escaped \subseteq {"ids"}
  /\ routine = "system" => escaped \subseteq {"os", "cpu", "gpus", "memory", "virtual_machine"}
  /\ routine = "vr" => escaped \subseteq {"library", "entry_points", "runtime", "device"}
  /\ routine = "upload" /\ "return" \notin told => noted # {}

\* A step that is refused costs no resource but a copy that the clipboard refuses, one that
\* throws none but what is held then and its catch clause leaves, and neither costs the
\* lines that do not depend on it.
SectionsContained == ResourcesRight /\ FailuresContained
=============================================================================
