-------------------------- MODULE MCIntrospection --------------------------
(* Small instances of Introspection for TLC.                                *)
EXTENDS Introspection, TLC

CONSTANTS
  Object,           \* the form that the ids in Forms stand for
  RegisterInputs    \* bound: the values that occur in the registers

MCFormObject == [f \in Forms |-> Object]

\* Bound: all objects exist at the crash, or only those of the game, or the others.
MCInit ==
  /\ Init
  /\ registers \in [0 .. NumRegs - 1 -> RegisterInputs]
  /\ alive \in {Objects, Game, Foreign}
MCSpec == MCInit /\ [][Next]_vars
=============================================================================
