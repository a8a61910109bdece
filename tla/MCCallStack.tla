----------------------------- MODULE MCCallStack -----------------------------
\* Two modules side by side, one of them of the system.
EXTENDS CallStack
Game == [base |-> 1, size |-> 3]
Dll == [base |-> 4, size |-> 2]
TwoImages == {Game, Dll}
DllOnly == {Dll}
Code == {2, 3, 5}
Words == {1, 2, 5}
=============================================================================
