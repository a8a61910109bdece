------------------------------- MODULE Lookups -------------------------------
(***************************************************************************)
(* The search for model paths, the diagnosis of missing masters and the    *)
(* symbol sessions share no variable: a behaviour of this model is one of  *)
(* one of them, the others staying at an initial state.                    *)
(***************************************************************************)
EXTENDS ModelPathLookup, MissingMasters, PdbSession

VARIABLE part

LookupInit ==
  /\ part \in {"paths", "masters", "symbols"}
  /\ PathInit /\ (part # "paths" => \A i \in 1 .. StackSize : stack[i] = [here |-> NoId, behind |-> NoId])
  /\ MastersInit /\ (part # "masters" => enabled = {} /\ readable /\ \A p \in Plugins : masters[p] = {})
  /\ PdbInit /\ (part # "symbols" => directory /\ \A t \in Threads : com[t].apartment = "none")

LookupNext ==
  \/ part = "paths" /\ PathNext /\ UNCHANGED <<part, masterVars, pdbVars>>
  \/ part = "masters" /\ MastersNext /\ UNCHANGED <<part, pathVars, pdbVars>>
  \/ part = "symbols" /\ PdbNext /\ UNCHANGED <<part, pathVars, masterVars>>

LookupSpec == LookupInit /\ [][LookupNext]_<<part, pathVars, masterVars, pdbVars>>

\* Whatever is looked up, every variable holds a value of its kind.
LookupTypeOK == PathTypeOK /\ MastersTypeOK /\ PdbTypeOK
=============================================================================
