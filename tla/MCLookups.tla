------------------------------ MODULE MCLookups ------------------------------
(***************************************************************************)
(* The instance of Lookups that TLC checks.                                *)
(***************************************************************************)
EXTENDS Lookups

Symbol(decorated, lines, told) ==
  [decorated |-> decorated, undecorates |-> TRUE, length |-> TRUE, enumerated |-> TRUE,
   lines |-> lines, source |-> told, line |-> told, named_by_rva |-> FALSE]
ThreeSymbols == {Symbol(TRUE, 4, TRUE), Symbol(FALSE, 0, FALSE),
                 [Symbol(TRUE, 1, TRUE) EXCEPT !.enumerated = FALSE]}
Child(parameter, named, type) == [parameter |-> parameter, named |-> named, type |-> type]
ThreeChildren == {Child(TRUE, TRUE, <<"const pointer", "int">>), Child(TRUE, FALSE, <<"array", "UDT">>),
                  Child(FALSE, TRUE, <<"int">>)}

Symmetry == Permutations(Recorders) \cup Permutations(Ids) \cup Permutations(Plugins)
=============================================================================
