--------------------------- MODULE MCCrashHandler ---------------------------
(***************************************************************************)
(* The instances of CrashHandler that TLC checks.                          *)
(***************************************************************************)
EXTENDS CrashHandler
=============================================================================
