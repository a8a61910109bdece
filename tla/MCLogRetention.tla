--------------------------- MODULE MCLogRetention ---------------------------
(***************************************************************************)
(* The instances of LogRetention that TLC checks.                          *)
(***************************************************************************)
EXTENDS LogRetention
=============================================================================
