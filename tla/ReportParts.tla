----------------------------- MODULE ReportParts -----------------------------
(***************************************************************************)
(* The call stack with the table of modules, the sections of a report, the *)
(* report on the exception and the relevant objects share no variable: a   *)
(* behaviour of this model is one of one of them, the others staying at an *)
(* initial state.                                                          *)
(***************************************************************************)
EXTENDS ReportSections, ExceptionReport, RelevantObjects, CallStack

VARIABLE part

ReportInit ==
  /\ part \in {"call_stack", "sections", "exception", "objects"}
  /\ SectionsInit /\ (part # "sections" => routine = "game")
  /\ ExceptionInit
  /\ part # "exception" => \A r \in Records : chain[r] = NoRecord /\ kind[r] = "plain"
  /\ RelevantInit
  /\ CallStackInit /\ (part # "call_stack" => loaded = <<CHOOSE m \in Images : TRUE>>)

ReportNext ==
  \/ part = "sections" /\ SectionsNext /\ UNCHANGED <<part, exceptionVars, relevantVars, moduleVars, stackVars>>
  \/ part = "exception" /\ ExceptionNext /\ UNCHANGED <<part, sectionVars, relevantVars, moduleVars, stackVars>>
  \/ part = "objects" /\ RelevantNext /\ UNCHANGED <<part, sectionVars, exceptionVars, moduleVars, stackVars>>
  \/ part = "call_stack" /\ CallStackNext /\ UNCHANGED <<part, sectionVars, exceptionVars, relevantVars>>

ReportSpec ==
  ReportInit /\ [][ReportNext]_<<part, sectionVars, exceptionVars, relevantVars, moduleVars, stackVars>>

\* Whatever part of the report is written, every variable holds a value of its kind.
ReportTypeOK == SectionsTypeOK /\ ExceptionTypeOK /\ RelevantTypeOK /\ CallStackTypeOK
=============================================================================
