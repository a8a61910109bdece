---------------------------- MODULE ModuleTable ----------------------------
(***************************************************************************)
(* Modules/ModuleHandler.cpp and the lookup of Introspection.cpp: the      *)
(* table of loaded modules that a report is made with.  The modules are    *)
(* enumerated with a buffer that is enlarged until it suffices, described  *)
(* in parallel from the headers in memory and sorted by address, while     *)
(* other threads load and unload modules.  Whether the enumeration worked  *)
(* is not looked at.                                                       *)
(***************************************************************************)
EXTENDS Naturals, Sequences, FiniteSets, SequencesExt

CONSTANTS
  Images,       \* modules that may be loaded, records with a base and a size
  Top,          \* highest address
  MaxChanges    \* bound of the model: modules loaded and unloaded meanwhile

ASSUME ImagesAssumption ==
  /\ Top \in Nat /\ MaxChanges \in Nat
  /\ Images \subseteq [base : 1 .. Top, size : 1 .. Top]
  /\ \A m, n \in Images : m # n => m.base + m.size <= n.base \/ n.base + n.size <= m.base

VARIABLES
  loaded,       \* the modules of the process, in the order they were loaded
  handles,      \* modules: the handles enumerated
  needed,       \* needed, counted in handles
  results,      \* results: per handle the module described, or none yet
  table,        \* what get_loaded_modules returns
  modulesAt,    \* the step it is at
  steady,       \* history: modules that were loaded all the time
  enumFailed,   \* history: K32EnumProcessModules failed
  changes       \* history: number of changes

moduleVars == <<loaded, handles, needed, results, table, modulesAt, steady, enumFailed, changes>>

Null == [base |-> 0, size |-> 0]   \* no module
Members(s) == {s[i] : i \in 1 .. Len(s)}

ModulesInit ==
  /\ loaded \in {s \in SeqOf(Images, Cardinality(Images)) : IsInjective(s) /\ s # <<>>}
  /\ handles = <<>> /\ needed = 0 /\ results = <<>> /\ table = <<>>
  /\ modulesAt = "enumerate"
  /\ steady = Members(loaded)
  /\ enumFailed = FALSE /\ changes = 0

-----------------------------------------------------------------------------
(* The loader, on other threads of the game.                               *)

Load == \E m \in Images \ Members(loaded) :
  /\ modulesAt \in {"enumerate", "describe"} /\ changes < MaxChanges
  /\ loaded' = Append(loaded, m) /\ changes' = changes + 1
  /\ UNCHANGED <<handles, needed, results, table, modulesAt, steady, enumFailed>>

Unload == \E i \in 1 .. Len(loaded) :
  /\ modulesAt \in {"enumerate", "describe"} /\ changes < MaxChanges
  /\ loaded' = RemoveAt(loaded, i) /\ changes' = changes + 1
  /\ steady' = steady \ {loaded[i]}
  /\ UNCHANGED <<handles, needed, results, table, modulesAt, enumFailed>>

-----------------------------------------------------------------------------
(* get_loaded_modules.                                                     *)

Resized == [i \in 1 .. needed |-> IF i <= Len(handles) THEN handles[i] ELSE Null]

\* One turn of the loop.  EnumProcessModules fills what fits and leaves the rest of
\* the buffer alone, and tells how much it would have needed.
Filled == [i \in 1 .. needed |-> IF i <= Len(loaded) THEN loaded[i] ELSE Resized[i]]

\* Defect: the size that the first call asks for is never provided.
Enumerate_Once ==
  /\ modulesAt = "enumerate"
  /\ handles' = Filled /\ needed' = Len(loaded)
  /\ modulesAt' = "describe"
  /\ results' = [i \in 1 .. needed |-> Null]
  /\ UNCHANGED <<loaded, table, steady, enumFailed, changes>>

Enumerate ==
  /\ modulesAt = "enumerate"
  /\ handles' = Filled /\ needed' = Len(loaded)
  /\ modulesAt' = IF needed < Len(loaded) THEN "enumerate" ELSE "describe"
  /\ results' = [i \in 1 .. needed |-> Null]
  /\ UNCHANGED <<loaded, table, steady, enumFailed, changes>>

\* The call fails, as it may while modules come and go: it has filled some of the buffer
\* and tells nothing, so that what was needed before stands and the loop ends.
EnumerateFails == \E filled \in 0 .. Len(loaded) :
  /\ modulesAt = "enumerate" /\ filled <= needed
  /\ handles' = [i \in 1 .. needed |-> IF i <= filled THEN loaded[i] ELSE Resized[i]]
  /\ enumFailed' = TRUE
  /\ modulesAt' = "describe"
  /\ results' = [i \in 1 .. needed |-> Null]
  /\ UNCHANGED <<loaded, needed, table, steady, changes>>

\* Factory::create on one of the parallel workers, in any order.
Describe == \E i \in 1 .. Len(handles) :
  /\ modulesAt = "describe" /\ results[i] = Null
  /\ handles[i] \in Members(loaded)
  /\ results' = [results EXCEPT ![i] = handles[i]]
  /\ UNCHANGED <<loaded, handles, needed, table, modulesAt, steady, enumFailed, changes>>

\* The header of a module that has gone, or of a null handle, cannot be read.
DescribeFaults == \E i \in 1 .. Len(handles) :
  /\ modulesAt = "describe" /\ results[i] = Null
  /\ handles[i] \notin Members(loaded)
  /\ modulesAt' = "fault"
  /\ UNCHANGED <<loaded, handles, needed, results, table, steady, enumFailed, changes>>

Described == modulesAt = "describe" /\ \A i \in 1 .. Len(handles) : results[i] # Null

\* std::sort: the modules described, rearranged by their addresses.
SortModules ==
  /\ Described
  /\ \E place \in Bijection(1 .. Len(results), 1 .. Len(results)) :
       table' = [i \in 1 .. Len(results) |-> results[place[i]]]
  /\ \A i, j \in 1 .. Len(table') : i < j => table'[i].base <= table'[j].base
  /\ handles' = <<>> /\ needed' = 0 /\ results' = <<>>
  /\ modulesAt' = "done"
  /\ UNCHANGED <<loaded, steady, enumFailed, changes>>

ModulesNext ==
  Load \/ Unload \/ Enumerate \/ EnumerateFails \/ Describe \/ DescribeFaults \/ SortModules

-----------------------------------------------------------------------------
(* get_module_for_pointer: std::lower_bound from the top of the table with *)
(* "address() >= a_ptr" finds the last module whose address is less.       *)

InRange(m, ptr) == m.base <= ptr /\ ptr < m.base + m.size

Lookup(ptr) ==
  LET below == {i \in 1 .. Len(table) : table[i].base < ptr}
      last  == CHOOSE i \in below : \A j \in below : j <= i
  IN IF below # {} /\ InRange(table[last], ptr) THEN table[last] ELSE Null

-----------------------------------------------------------------------------
ModulesTypeOK ==
  /\ Members(loaded) \subseteq Images /\ Members(handles) \subseteq Images \cup {Null}
  /\ needed \in 0 .. Cardinality(Images) /\ Members(results) \subseteq Images \cup {Null}
  /\ Members(table) \subseteq Images /\ steady \subseteq Images
  /\ modulesAt \in {"enumerate", "describe", "done", "fault"}
  /\ enumFailed \in BOOLEAN /\ changes \in 0 .. MaxChanges

\* However modules come and go, the table is in the order of addresses, no module
\* twice, and has every module that was there all the time, or it is empty because the
\* first enumeration failed; with it the module of an address is found, unless the
\* address is that of the module itself.  Making it faults only if the modules changed
\* meanwhile or an enumeration failed.
TableRight ==
  /\ modulesAt = "fault" => changes > 0 \/ enumFailed
  /\ modulesAt = "done" =>
       /\ \A i, j \in 1 .. Len(table) : i < j => table[i].base < table[j].base
       /\ steady \subseteq Members(table) \/ (enumFailed /\ table = <<>>)
       /\ \A m \in Members(table) : \A ptr \in 1 .. Top :
            ptr # m.base /\ InRange(m, ptr) => Lookup(ptr) = m

\* ModuleHandler.h:24, in_range: an address belongs to the module whose image holds it,
\* the first byte included, and CrashHandler.cpp:799 looks up the module base of a C++
\* exception to name its module.
ModuleOfBaseFound == modulesAt = "done" =>
  \A m \in Members(table) : Lookup(m.base) = m
=============================================================================
