------------------------ MODULE MCModelDemandTracker ------------------------
(***************************************************************************)
(* The instances of ModelDemandTracker that TLC checks: one busy thread    *)
(* that fills its ring several times over, and others that compete with it *)
(* for the slots.                                                          *)
(***************************************************************************)
EXTENDS ModelDemandTracker, TLC

CONSTANTS Busy, Rivals, BusyDepth, BusyCalls

MCThreads == Rivals \cup {Busy}
MCMaxDepth == [t \in MCThreads |-> IF t = Busy THEN BusyDepth ELSE 1]
MCMaxCalls == [t \in MCThreads |-> IF t = Busy THEN BusyCalls ELSE 1]

Symmetry == Permutations(Rivals)
=============================================================================
