----------------------------- MODULE PdbSession -----------------------------
(***************************************************************************)
(* PDB/PdbHandler.cpp: the two functions that ask DIA about an address,    *)
(* each behind a mutex of its own, so that two threads may be at it, one   *)
(* in each.  A session initialises COM on its thread, which the game may   *)
(* have done already in its own way, and shares with all others what is    *)
(* known of the symbol cache.  DIA may refuse any step or fault in it (the *)
(* handler turns faults into exceptions), and the destructor runs on every *)
(* way out.  Texts are sequences of their parts.                           *)
(***************************************************************************)
EXTENDS Naturals, Sequences, FiniteSets, SequencesExt

CONSTANTS
  Threads,      \* threads that print frames
  Free,         \* no thread
  Symbols,      \* symbols that DIA finds
  NoSymbol,     \* none found
  Children,     \* data of a function, parameters and others
  MaxParams,    \* 8 in pdb_function_parameters
  MaxChildren,  \* bound of the model: children of a function
  MaxCalls      \* bound of the model: calls of the two functions

ASSUME SessionAssumption ==
  /\ Free \notin Threads /\ NoSymbol \notin Symbols
  /\ {MaxParams, MaxChildren, MaxCalls} \subseteq Nat

VARIABLES
  directory,    \* the symcache of the settings is a directory that exists
  checked,      \* symcacheChecked
  valid,        \* symcacheValid
  sync,         \* sync of each function: the thread that holds it
  session,      \* per thread: the call it is executing
  com,          \* per thread: its apartment and the initialisations not undone
  before,       \* history: com at the start
  answers,      \* per thread: what DIA found and the result made from it
  calls         \* history: number of calls

pdbVars == <<directory, checked, valid, sync, session, com, before, answers, calls>>

Functions == {"details", "parameters"}
NotOpen == [at |-> "idle", function |-> "details", initialized |-> FALSE, objects |-> {}, paths |-> <<>>, cached |-> FALSE]
NoAnswer == [public |-> NoSymbol, private |-> NoSymbol, children |-> <<>>, result |-> <<>>]

PdbInit ==
  /\ directory \in BOOLEAN /\ checked = FALSE /\ valid = FALSE
  /\ sync = [f \in Functions |-> Free]
  /\ session = [t \in Threads |-> NotOpen]
  /\ com \in [Threads -> {[apartment |-> "none", count |-> 0], [apartment |-> "multi", count |-> 1],
                          [apartment |-> "single", count |-> 1]}]
  /\ before = com
  /\ answers = [t \in Threads |-> NoAnswer]
  /\ calls = 0

-----------------------------------------------------------------------------
(* Names and texts.                                                        *)

\* demangle: a name that is decorated is given undecorated, with the decorated one behind
\* it in brackets, and alone if the library cannot undecorate it.
Demangled(s) == IF s.decorated /\ s.undecorates THEN <<"name", "[decorated]">> ELSE <<"name">>

\* The loop asks for 0, 1, 2, 3, 4 line numbers in turn and looks at those of a
\* request that got just one: at the first line, and at one more at most.
Before(i) == (i * (i - 1)) \div 2
LinesLooked(n) == {i \in 1 .. 4 : Before(i) < n /\ (i = 1 \/ n = Before(i) + 1)}

\* What is told of one of these lines: its file, its number, or nothing of it.
LineText(s) == (IF s.source THEN <<"file">> ELSE IF s.line THEN <<"unk_">> ELSE <<>>)
               \o (IF s.line THEN <<"line">> ELSE <<>>)
               \o (IF s.source \/ s.line THEN Demangled(s) ELSE <<>>)

\* The text that processSymbol appends to its result.
Processed(s) ==
  LET looked == LinesLooked(s.lines)
      told == s.source \/ s.line
  IN IF ~s.length \/ ~s.enumerated THEN <<>>
     ELSE IF looked = {} \/ ~told
          THEN Demangled(s) \o (IF Len(Demangled(s)) > 1 \/ s.named_by_rva THEN <<>> ELSE <<"_rva">>)
          ELSE IF looked = {1} THEN LineText(s) ELSE LineText(s) \o LineText(s)

\* pdb_details: both calls of processSymbol append to the same result, so that the
\* private text has the public one in front of it.
Details(public, private) ==
  LET publicResult == Processed(public)
      privateResult == publicResult \o Processed(private)
  IN IF public = NoSymbol THEN <<>>
     ELSE IF private = NoSymbol \/ privateResult = <<>> THEN publicResult
     ELSE IF publicResult # <<>> THEN privateResult \o <<"tab">> \o publicResult
     ELSE privateResult

\* get_type_name of a type, which is a base type under pointers and arrays.
TypeText(type) ==
  FoldRight(LAMBDA part, text :
              CASE part = "pointer" -> Append(text, "*")
                [] part = "const pointer" ->
                     Append(IF text # <<>> /\ text[1] = "const" THEN text ELSE <<"const">> \o text, "*")
                [] part = "array" -> Append(text, "[count]")
                [] OTHER -> <<part>>, type, <<>>)

ParameterText(c) == (IF c.named THEN <<"name:">> ELSE <<>>) \o TypeText(c.type)

\* The loop of pdb_function_parameters: children that are no parameters are passed over,
\* and the list is broken off with dots when it is full.
AddParameter(list, c) ==
  IF ~c.parameter \/ Len(list) > MaxParams THEN list
  ELSE IF Len(list) + 1 = MaxParams THEN list \o <<ParameterText(c), <<"...">>>>
  ELSE Append(list, ParameterText(c))

ParameterList(children) == FoldLeft(AddParameter, <<>>, children)

-----------------------------------------------------------------------------
(* A session.                                                              *)

Goes(t, at) == session' = [session EXCEPT ![t].at = at]
Keeps(t) == UNCHANGED <<directory, before, calls>>

Call(t) == \E f \in Functions :
  /\ session[t].at = "idle" /\ sync[f] = Free /\ calls < MaxCalls
  /\ sync' = [sync EXCEPT ![f] = t]
  /\ session' = [session EXCEPT ![t] = [NotOpen EXCEPT !.at = "initialize", !.function = f]]
  /\ answers' = [answers EXCEPT ![t] = NoAnswer]
  /\ calls' = calls + 1
  /\ UNCHANGED <<directory, checked, valid, com, before>>

\* CoInitializeEx: RPC_E_CHANGED_MODE on a thread of a single-threaded apartment.
Initialize(t) ==
  /\ session[t].at = "initialize"
  /\ com' = IF com[t].apartment = "single" THEN com
            ELSE [com EXCEPT ![t] = [apartment |-> "multi", count |-> @.count + 1]]
  /\ session' = [session EXCEPT ![t].at = "create", ![t].initialized = (com[t].apartment # "single")]
  /\ UNCHANGED <<checked, valid, sync, answers>> /\ Keeps(t)

InitializeFails(t) ==
  /\ session[t].at = "initialize"
  /\ Goes(t, "close")
  /\ UNCHANGED <<checked, valid, sync, com, answers>> /\ Keeps(t)

\* From the library beside the plugin, or the registered one.
CreateSource(t) ==
  /\ session[t].at = "create"
  /\ session' = [session EXCEPT ![t].at = "cache", ![t].objects = {"source"}]
  /\ UNCHANGED <<checked, valid, sync, com, answers>> /\ Keeps(t)

\* Defect: the check is marked as made before its result is stored.
CheckCache_Marks(t) ==
  /\ session[t].at = "cache"
  /\ Goes(t, IF checked THEN "paths" ELSE IF directory THEN "valid" ELSE "checked")
  /\ checked' = TRUE
  /\ UNCHANGED <<valid, sync, com, answers>> /\ Keeps(t)

CheckCache(t) ==
  /\ session[t].at = "cache"
  /\ Goes(t, IF checked THEN "paths" ELSE IF directory THEN "valid" ELSE "checked")
  /\ UNCHANGED <<checked, valid, sync, com, answers>> /\ Keeps(t)

StoreValid(t) ==
  /\ session[t].at = "valid"
  /\ valid' = TRUE
  /\ Goes(t, "checked")
  /\ UNCHANGED <<checked, sync, com, answers>> /\ Keeps(t)

StoreChecked(t) ==
  /\ session[t].at = "checked"
  /\ checked' = TRUE
  /\ Goes(t, "paths")
  /\ UNCHANGED <<valid, sync, com, answers>> /\ Keeps(t)

SearchPaths(t) ==
  /\ session[t].at = "paths"
  /\ session' = [session EXCEPT ![t].at = "load", ![t].cached = valid,
                                ![t].paths = IF valid THEN <<"plugins", "cache">> ELSE <<"plugins">>]
  /\ UNCHANGED <<checked, valid, sync, com, answers>> /\ Keeps(t)

\* loadDataForExe with the next search path.
Load(t) ==
  /\ session[t].at = "load" /\ session[t].paths # <<>>
  /\ \/ Goes(t, "open")
     \/ session' = [session EXCEPT ![t].paths = Tail(@)]
  /\ UNCHANGED <<checked, valid, sync, com, answers>> /\ Keeps(t)

NoPdb(t) ==
  /\ session[t].at = "load" /\ session[t].paths = <<>>
  /\ Goes(t, "close")
  /\ UNCHANGED <<checked, valid, sync, com, answers>> /\ Keeps(t)

OpenSession(t) ==
  /\ session[t].at = "open"
  /\ session' = [session EXCEPT ![t].at = "query", ![t].objects = @ \cup {"session", "global"}]
  /\ UNCHANGED <<checked, valid, sync, com, answers>> /\ Keeps(t)

\* Any of the calls of DIA on the way is refused, or a fault in it unwinds the function.
DiaRefuses(t) ==
  /\ session[t].at \in {"create", "open", "query"}
  /\ Goes(t, "close")
  /\ UNCHANGED <<checked, valid, sync, com, answers>> /\ Keeps(t)

Throws(t) ==
  /\ session[t].at \in {"create", "cache", "load", "open", "query"}
  /\ Goes(t, "close")
  /\ UNCHANGED <<checked, valid, sync, com, answers>> /\ Keeps(t)

QueryDetails(t) == \E public, private \in Symbols \cup {NoSymbol} :
  /\ session[t].at = "query" /\ session[t].function = "details"
  /\ public = NoSymbol => private = NoSymbol
  /\ answers' = [answers EXCEPT ![t] = [NoAnswer EXCEPT !.public = public, !.private = private,
                                                        !.result = Details(public, private)]]
  /\ Goes(t, "close")
  /\ UNCHANGED <<checked, valid, sync, com>> /\ Keeps(t)

QueryParameters(t) == \E children \in SeqOf(Children, MaxChildren) :
  /\ session[t].at = "query" /\ session[t].function = "parameters"
  /\ answers' = [answers EXCEPT ![t] = [NoAnswer EXCEPT !.children = children,
                                                        !.result = ParameterList(children)]]
  /\ Goes(t, "close")
  /\ UNCHANGED <<checked, valid, sync, com>> /\ Keeps(t)

\* Defect: COM is uninitialised also where it was not initialised.
Uninitialize_Always(t) ==
  /\ session[t].at = "close"
  /\ com' = [com EXCEPT ![t].count = @ - 1,
                        ![t].apartment = IF com[t].count = 1 THEN "none" ELSE @]
  /\ Goes(t, "release")
  /\ UNCHANGED <<checked, valid, sync, answers>> /\ Keeps(t)

\* ~PdbSession: the body of the destructor comes before the pointers are released.
Uninitialize(t) ==
  /\ session[t].at = "close"
  /\ com' = IF ~session[t].initialized THEN com
            ELSE [com EXCEPT ![t].count = @ - 1,
                             ![t].apartment = IF com[t].count = 1 THEN "none" ELSE @]
  /\ Goes(t, "release")
  /\ UNCHANGED <<checked, valid, sync, answers>> /\ Keeps(t)

Release(t) ==
  /\ session[t].at = "release"
  /\ session' = [session EXCEPT ![t] = NotOpen]
  /\ sync' = [sync EXCEPT ![session[t].function] = Free]
  /\ UNCHANGED <<checked, valid, com, answers>> /\ Keeps(t)

PdbNext == \E t \in Threads :
  \/ Call(t) \/ Initialize(t) \/ InitializeFails(t) \/ CreateSource(t) \/ CheckCache(t)
  \/ StoreValid(t) \/ StoreChecked(t) \/ SearchPaths(t) \/ Load(t) \/ NoPdb(t) \/ OpenSession(t)
  \/ DiaRefuses(t) \/ Throws(t) \/ QueryDetails(t) \/ QueryParameters(t) \/ Uninitialize(t) \/ Release(t)

PdbSpec == PdbInit /\ [][PdbNext]_pdbVars

-----------------------------------------------------------------------------
Apartment == [apartment : {"none", "multi", "single"}, count : 0 .. 2]
Steps == {"idle", "initialize", "create", "cache", "valid", "checked", "paths", "load", "open",
          "query", "close", "release"}

PdbTypeOK ==
  /\ directory \in BOOLEAN /\ checked \in BOOLEAN /\ valid \in BOOLEAN
  /\ sync \in [Functions -> Threads \cup {Free}]
  /\ com \in [Threads -> Apartment] /\ before \in [Threads -> Apartment]
  /\ \A t \in Threads : /\ session[t].at \in Steps /\ session[t].function \in Functions
                        /\ session[t].initialized \in BOOLEAN /\ session[t].cached \in BOOLEAN
                        /\ session[t].objects \subseteq {"source", "session", "global"}
                        /\ Len(session[t].paths) <= 2
  /\ calls \in 0 .. MaxCalls

\* However a session ends, its thread's apartment is again what the game made it, and the
\* session's own initialisation is the only one in between: no initialisation of the game
\* is undone.
ComBalanced == \A t \in Threads :
  LET mine == session[t].initialized /\ session[t].at # "release" IN
  /\ com[t].count = before[t].count + (IF mine THEN 1 ELSE 0)
  /\ ~mine => com[t] = before[t]
  /\ \A f \in Functions : sync[f] = t <=> session[t].at # "idle" /\ session[t].function = f

\* Every session that searches for a PDB searches the symbol cache if there is one,
\* whichever of the threads found it out and whether they are still at it.
SymcacheRight == \A t \in Threads :
  session[t].at \in {"load", "open", "query"} => session[t].cached = directory

Includes(text, part) ==
  \E i \in 0 .. Len(text) - Len(part) : SubSeq(text, i + 1, i + Len(part)) = part

\* The parameters among the first k children.
Parameters(children, k) == {j \in 1 .. k : children[j].parameter}

\* What DIA tells of an address is in the result: the lines of the private function and of
\* the public symbol, and at the end the public ones; and the parameters, in their order
\* and up to the limit, with dots if there may be more.
AnswersComplete == \A t \in Threads :
  LET a == answers[t]
      parameters == Parameters(a.children, Len(a.children))
      Place(k) == Cardinality(Parameters(a.children, k))
  IN /\ a.public # NoSymbol /\ Processed(a.public) # <<>> => IsSuffix(Processed(a.public), a.result)
     /\ a.private # NoSymbol => Includes(a.result, Processed(a.private))
     /\ a.public = NoSymbol /\ a.result # <<>> =>
          /\ Len(a.result) = IF Cardinality(parameters) < MaxParams THEN Cardinality(parameters)
                             ELSE MaxParams + 1
          /\ \A k \in parameters : Place(k) <= MaxParams =>
               a.result[Place(k)] = ParameterText(a.children[k])

\* Two threads asking for symbols leave their apartments alone, use the same cache and
\* get all there is.
SessionsRight == ComBalanced /\ SymcacheRight /\ AnswersComplete
=============================================================================
