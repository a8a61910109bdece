---------------------------- MODULE MCThreadDump ----------------------------
(***************************************************************************)
(* The instances of ThreadDump that TLC checks.                            *)
(***************************************************************************)
EXTENDS ThreadDump
=============================================================================
