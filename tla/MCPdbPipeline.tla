---------------------------- MODULE MCPdbPipeline ----------------------------
(***************************************************************************)
(* The instance of PdbPipeline that TLC checks: two runtimes, and the      *)
(* command lines that lead to different paths through the scripts.         *)
(***************************************************************************)
EXTENDS PdbPipeline

CONSTANTS Newer, Older

MCRuntimes == <<Newer, Older>>

CommandLine(keys, regenerate, upload) ==
  [runtimes |-> keys, regenerate |-> regenerate, force |-> FALSE, fresh |-> FALSE,
   upload |-> upload, forceUpload |-> FALSE]
All == {Newer, Older}
MCOptions ==
  {CommandLine(All, TRUE, TRUE),
   CommandLine({Older}, TRUE, FALSE),
   CommandLine({Older}, FALSE, TRUE),
   [CommandLine(All, FALSE, TRUE) EXCEPT !.fresh = TRUE],
   [CommandLine(All, FALSE, TRUE) EXCEPT !.forceUpload = TRUE],
   [CommandLine(All, TRUE, TRUE) EXCEPT !.force = TRUE]}
=============================================================================
