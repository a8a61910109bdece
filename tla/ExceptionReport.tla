-------------------------- MODULE ExceptionReport --------------------------
(***************************************************************************)
(* print_exception (CrashHandler.cpp) and CppException.cpp: the report on  *)
(* an exception record and, by recursion, on the records nested in it.     *)
(* Records are read from the memory of a broken process: their chain may   *)
(* be long or run in a circle, and any part of the report may throw.       *)
(***************************************************************************)
EXTENDS Naturals, Sequences, FiniteSets

CONSTANTS
  Records,      \* exception records
  NoRecord,     \* a null ExceptionRecord
  MaxDepth,     \* MAX_EXCEPTION_DEPTH
  MaxReports    \* bound of the model: reports made by the thread

ASSUME RecordsAssumption == NoRecord \notin Records
ASSUME DepthAssumption == MaxDepth \in Nat \ {0} /\ MaxReports \in Nat

VARIABLES
  chain,        \* ExceptionRecord of every record
  kind,         \* what kind of exception a record is of
  levels,       \* the calls of print_exception, outermost first
  depth,        \* exception_depth of the thread
  lines,        \* lines of the report: what each says, of which level and record
  details,      \* the lines on the record that was last looked into
  throwing,     \* an exception is unwinding the calls
  reports,      \* number of reports begun
  left          \* the last report was left by an exception

exceptionVars == <<chain, kind, levels, depth, lines, details, throwing, reports, left>>

Kinds == {"access", "null call", "page", "C++", "parameters", "plain"}
Depth == Len(levels)
Here == levels[Depth]
Line(what, level, record) == [what |-> what, level |-> level, record |-> record]
Tell(what) == lines' = lines \cup {Line(what, Depth, Here.record)}
Goes(at) == levels' = [levels EXCEPT ![Depth].at = at]
Call(record) == [record |-> record, at |-> "header"]

ExceptionInit ==
  /\ chain \in [Records -> Records \cup {NoRecord}] /\ kind \in [Records -> Kinds]
  /\ levels = <<>> /\ depth = 0 /\ lines = {} /\ details = {} /\ throwing = FALSE
  /\ reports = 0 /\ left = FALSE

-----------------------------------------------------------------------------
(* CppException.cpp: chains of reads that may fault.                       *)

\* ExtractTypeName: the reads on the way from the ThrowInfo to the name of the type, each
\* of which may fault or find something impossible, and what is returned then.
Reads == <<"ThrowInfo", "count", "type RVA", "type_info RVA", "name">>
FirstBad(outcome) == {i \in 1 .. Len(Reads) : outcome[i] # "ok" /\ \A j \in 1 .. i - 1 : outcome[j] = "ok"}

\* DemangleTypeName: the name as it is, if it cannot be demangled.
TypeName(base, outcome, demangled) ==
  IF ~base THEN "no module base"
  ELSE IF FirstBad(outcome) # {} THEN Reads[CHOOSE i \in FirstBad(outcome) : TRUE]
  ELSE IF demangled THEN "type" ELSE "mangled type"

\* TryGetExceptionWhat: the message, if all of the object can be read and the message is
\* text, or else the first offset that holds what looks like an HRESULT.
What(readable, text, results) ==
  IF readable /\ text THEN "message"
  ELSE IF \E i \in 1 .. Len(results) : results[i] THEN "HRESULT" ELSE "none"

-----------------------------------------------------------------------------
(* print_exception.                                                        *)

Begin == \E record \in Records :
  /\ levels = <<>> /\ ~throwing /\ reports < MaxReports
  /\ levels' = <<Call(record)>>
  /\ lines' = {} /\ details' = {} /\ left' = FALSE /\ reports' = reports + 1
  /\ UNCHANGED <<chain, kind, depth, throwing>>

Busy == levels # <<>> /\ ~throwing

Header ==
  /\ Busy /\ Here.at = "header"
  /\ Tell("header") /\ Goes("details")
  /\ UNCHANGED <<chain, kind, depth, throwing, reports, left, details>>

Looked(said) == details' = said /\ Goes("nested")

\* The outermost call alone has a context to analyse an access violation with.
AccessViolation ==
  /\ Busy /\ Here.at = "details" /\ kind[Here.record] \in {"access", "null call"}
  /\ \E analysis \in IF Depth > 1 THEN {"none"}
                     ELSE IF kind[Here.record] = "null call" THEN {"null call"}
                     ELSE {"not decoded", "not readable", "instruction"} : Looked({"access", analysis})
  /\ UNCHANGED <<chain, kind, depth, lines, throwing, reports, left>>

InPageError ==
  /\ Busy /\ Here.at = "details" /\ kind[Here.record] = "page"
  /\ Looked({"page"})
  /\ UNCHANGED <<chain, kind, depth, lines, throwing, reports, left>>

Otherwise ==
  /\ Busy /\ Here.at = "details" /\ kind[Here.record] = "plain"
  /\ Looked({})
  /\ UNCHANGED <<chain, kind, depth, lines, throwing, reports, left>>

\* Every parameter has its line, also if analysing it throws.
Parameters ==
  /\ Busy /\ Here.at = "details" /\ kind[Here.record] = "parameters"
  /\ \E fails \in BOOLEAN : Looked({IF fails THEN "parameter failed" ELSE "parameter"})
  /\ UNCHANGED <<chain, kind, depth, lines, throwing, reports, left>>

\* ParseCppException, the analysis of the object, or the name of its type if it gives
\* nothing or throws, and the lines that follow, each guarded for itself.
CppException ==
  /\ Busy /\ Here.at = "details" /\ kind[Here.record] = "C++"
  /\ \E analysed, base, demangled, readable, text, result, located \in BOOLEAN,
        bad \in 0 .. Len(Reads) :
       LET name == TypeName(base, [i \in 1 .. Len(Reads) |-> IF i = bad THEN "fault" ELSE "ok"], demangled)
           what == What(readable, text, <<result>>)
       IN Looked({IF analysed THEN "analysis" ELSE name}
                 \cup (IF what = "none" THEN {} ELSE {what})
                 \cup (IF located /\ Depth = 1 THEN {"throw location"} ELSE {}))
  /\ UNCHANGED <<chain, kind, depth, lines, throwing, reports, left>>

\* The outer catch clauses around all of it.
CppExceptionFails ==
  /\ Busy /\ Here.at = "details" /\ kind[Here.record] = "C++"
  /\ Looked({"failed"})
  /\ UNCHANGED <<chain, kind, depth, lines, throwing, reports, left>>

Nested ==
  LET record == chain[Here.record] IN
  /\ Busy /\ Here.at = "nested" /\ record # NoRecord /\ depth < MaxDepth
  /\ Tell("nested")
  /\ depth' = depth + 1
  /\ levels' = Append([levels EXCEPT ![Depth].at = "return"], Call(record))
  /\ UNCHANGED <<chain, kind, throwing, reports, left, details>>

LimitReached ==
  /\ Busy /\ Here.at = "nested" /\ chain[Here.record] # NoRecord /\ depth >= MaxDepth
  /\ Tell("limit") /\ Goes("return")
  /\ UNCHANGED <<chain, kind, depth, throwing, reports, left, details>>

NotNested ==
  /\ Busy /\ Here.at = "nested" /\ chain[Here.record] = NoRecord
  /\ Goes("return")
  /\ UNCHANGED <<chain, kind, depth, lines, throwing, reports, left, details>>

Return ==
  /\ Busy /\ Here.at = "return"
  /\ levels' = SubSeq(levels, 1, Depth - 1)
  /\ depth' = IF Depth > 1 THEN depth - 1 ELSE depth
  /\ UNCHANGED <<chain, kind, lines, throwing, reports, left, details>>

\* The header and the details that no clause guards.
Throw ==
  /\ Busy
  /\ \/ Here.at = "header"
     \/ Here.at = "details" /\ kind[Here.record] \in {"access", "null call", "page"}
  /\ throwing' = TRUE
  /\ levels' = SubSeq(levels, 1, Depth - 1)
  /\ left' = (Depth = 1)
  /\ UNCHANGED <<chain, kind, depth, lines, reports, details>>

\* Defect: the depth is not restored after an exception.
Caught_KeepsDepth ==
  /\ throwing /\ levels # <<>>
  /\ lines' = lines \cup {Line("nested failed", depth, Here.record)}
  /\ throwing' = FALSE
  /\ UNCHANGED <<chain, kind, levels, depth, reports, left, details>>

Caught ==
  /\ throwing /\ levels # <<>>
  /\ lines' = lines \cup {Line("nested failed", depth, Here.record)}
  /\ depth' = depth - 1
  /\ throwing' = FALSE
  /\ UNCHANGED <<chain, kind, levels, reports, left, details>>

Uncaught ==
  /\ throwing /\ levels = <<>>
  /\ throwing' = FALSE
  /\ UNCHANGED <<chain, kind, levels, depth, lines, reports, left, details>>

ExceptionNext ==
  \/ Begin \/ Header \/ AccessViolation \/ InPageError \/ Otherwise \/ Parameters
  \/ CppException \/ CppExceptionFails \/ Nested \/ LimitReached \/ NotNested
  \/ Return \/ Throw \/ Caught \/ Uncaught

ExceptionSpec == ExceptionInit /\ [][ExceptionNext]_exceptionVars

-----------------------------------------------------------------------------
ExceptionTypeOK ==
  /\ chain \in [Records -> Records \cup {NoRecord}] /\ kind \in [Records -> Kinds]
  /\ \A i \in 1 .. Depth : levels[i] \in [record : Records, at : {"header", "details", "nested", "return"}]
  /\ lines \subseteq [what : {"header", "nested", "nested failed", "limit"}, level : 1 .. MaxDepth + 1, record : Records]
  /\ depth \in 0 .. MaxDepth /\ throwing \in BOOLEAN /\ reports \in 0 .. MaxReports /\ left \in BOOLEAN

\* The depth is that of the calls, also while an exception unwinds them and after: no
\* report of this thread starts with some of its depth used up.
DepthRight ==
  depth = IF throwing THEN Depth ELSE IF levels = <<>> THEN 0 ELSE Depth - 1

\* However long the chain is, and if it is a circle, a report that is not left by an
\* exception tells every nested record to the limit, in the order of the chain, or says at
\* its own depth that it failed, and says so if the limit cut the chain off.
NestedTold == levels = <<>> /\ ~throwing /\ ~left /\ reports > 0 =>
  /\ \A l \in lines : l.level <= MaxDepth + 1
  /\ \A l \in lines : l.what = "nested" =>
       \/ Line("nested failed", l.level, l.record) \in lines
       \/ Line("header", l.level + 1, chain[l.record]) \in lines
  /\ \A l \in lines : l.what = "header" /\ chain[l.record] # NoRecord =>
       \/ Line("nested", l.level, l.record) \in lines
       \/ l.level = MaxDepth + 1 /\ Line("limit", l.level, l.record) \in lines
       \/ \E m \in lines : m.what = "nested failed" /\ m.level = l.level - 1

\* The chain of nested exceptions is told whole or to the limit, at the depth of each.
ExceptionTold == DepthRight /\ NestedTold
=============================================================================
