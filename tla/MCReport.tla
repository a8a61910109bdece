------------------------------ MODULE MCReport ------------------------------
(***************************************************************************)
(* The instance of ReportParts that TLC checks.                            *)
(***************************************************************************)
EXTENDS ReportParts, MCCallStack

\* Analyses that keep their place in the list, and one that has too little to be shown.
Analysis(type, fields) ==
  [detailed |-> TRUE, type |-> type, fields |-> fields, stack |-> <<>>,
   introspected |-> TRUE, formId |-> FALSE, reference |-> FALSE]
TwoAnalyses == {Analysis("NativeFunctionBase", {"Object"}), Analysis("TESQuest", {"Name", "FormID"})}
=============================================================================
