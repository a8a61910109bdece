------------------------------ MODULE CrashLog ------------------------------
(***************************************************************************)
(* What CrashHandler promises the reader of the crash logs, without        *)
(* threads, mutexes, buffers or exceptions (src/Crash/CrashHandler.cpp):   *)
(* one report at a time is written, its sections reach the file in their   *)
(* order and each by itself, a report that fails says so, and neither a    *)
(* report that is over nor a process that has ended writes anything more.  *)
(*                                                                         *)
(* Logs are named after the second in which they are created, so that a    *)
(* report may lose its log to a later one of the same second; and a report *)
(* that dies of a second crash is abandoned with what it has in the file.  *)
(***************************************************************************)
EXTENDS Naturals

CONSTANTS Reports, NoReport, NumSections, Seconds, NoName

VARIABLES
  clock,
  file,     \* second |-> what the log of that name holds
  author,   \* second |-> the report that created it last
  begun,    \* the reports that were begun: none is begun again
  writer,   \* the report being written, the name of its log, its sections in it
  failing,  \* reports that have failed and not yet said so
  closed,   \* reports that are over, complete or with the notice of their failure
  over      \* the process has ended

logVars == <<clock, file, author, begun, writer, failing, closed, over>>

Failure == 0
Nobody == [report |-> NoReport, name |-> NoName, written |-> 0]
Draft(r) == [report |-> r, name |-> NoName, written |-> 0]

Init ==
  /\ clock = 0 /\ over = FALSE
  /\ file = [n \in Seconds |-> {}] /\ author = [n \in Seconds |-> NoReport]
  /\ begun = {} /\ failing = {} /\ closed = {} /\ writer = Nobody

Begin(r) ==
  /\ ~over /\ writer = Nobody /\ r \notin begun
  /\ begun' = begun \cup {r} /\ writer' = Draft(r)
  /\ UNCHANGED <<clock, file, author, failing, closed, over>>

\* A report that cannot even be begun has only its failure to tell.
CannotBegin(r) ==
  /\ ~over /\ writer = Nobody /\ r \notin begun
  /\ begun' = begun \cup {r} /\ failing' = failing \cup {Draft(r)}
  /\ UNCHANGED <<clock, file, author, writer, closed, over>>

Create ==
  /\ ~over /\ writer # Nobody /\ writer.name = NoName
  /\ writer' = [writer EXCEPT !.name = clock]
  /\ file' = [file EXCEPT ![clock] = {}]
  /\ author' = [author EXCEPT ![clock] = writer.report]
  /\ UNCHANGED <<clock, begun, failing, closed, over>>

\* The next section reaches the file.
Add ==
  /\ ~over /\ writer.name # NoName /\ writer.written < NumSections
  /\ writer' = [writer EXCEPT !.written = @ + 1]
  /\ file' = [file EXCEPT ![writer.name] = @ \cup {<<writer.report, writer.written + 1>>}]
  /\ UNCHANGED <<clock, author, begun, failing, closed, over>>

Complete ==
  /\ ~over /\ writer.name # NoName /\ writer.written = NumSections
  /\ closed' = closed \cup {[report |-> writer.report, name |-> writer.name, ok |-> TRUE]}
  /\ writer' = Nobody
  /\ UNCHANGED <<clock, file, author, begun, failing, over>>

Fail ==
  /\ ~over /\ writer # Nobody
  /\ failing' = failing \cup {writer} /\ writer' = Nobody
  /\ UNCHANGED <<clock, file, author, begun, closed, over>>

\* The report, or what was left of it to do, is lost to another crash.
Abandon ==
  /\ ~over /\ writer # Nobody /\ writer' = Nobody
  /\ UNCHANGED <<clock, file, author, begun, failing, closed, over>>

Forget(f) ==
  /\ ~over /\ failing' = failing \ {f}
  /\ UNCHANGED <<clock, file, author, begun, writer, closed, over>>

\* The failure is noted, in a log made for it if there is none; with it comes the
\* section that was being written, if it was ready.
Notice(f) ==
  \E ready \in {{}, {<<f.report, f.written + 1>>}} :
    LET name == IF f.name = NoName THEN clock ELSE f.name IN
    /\ ~over
    /\ f.written = NumSections => ready = {}
    /\ failing' = failing \ {f}
    /\ file' = [file EXCEPT ![name] =
                  (IF f.name = NoName THEN {} ELSE @) \cup ready \cup {<<f.report, Failure>>}]
    /\ author' = IF f.name = NoName THEN [author EXCEPT ![clock] = f.report] ELSE author
    /\ closed' = closed \cup {[report |-> f.report, name |-> name, ok |-> FALSE]}
    /\ UNCHANGED <<clock, begun, writer, over>>

Tick ==
  /\ ~over /\ clock + 1 \in Seconds /\ clock' = clock + 1
  /\ UNCHANGED <<file, author, begun, writer, failing, closed, over>>

End ==
  /\ ~over /\ over' = TRUE
  /\ UNCHANGED <<clock, file, author, begun, writer, failing, closed>>

Next ==
  \/ \E r \in Reports : Begin(r) \/ CannotBegin(r)
  \/ Create \/ Add \/ Complete \/ Fail \/ Abandon
  \/ \E f \in failing : Notice(f) \/ Forget(f)
  \/ Tick \/ End

Spec == Init /\ [][Next]_logVars
=============================================================================
