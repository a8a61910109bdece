--------------------------- MODULE Introspection ---------------------------
(***************************************************************************)
(* What a crash report says about the values in the registers and on the   *)
(* stack (src/Crash/Introspection/Introspection.cpp, driven by             *)
(* UnhandledExceptions).                                                   *)
(*                                                                         *)
(* A value may be the address of an object of the game, of an object of    *)
(* another module, an address in a module, or the id of a form.  They are  *)
(* analysed in two passes: the first collects the relevant objects, the    *)
(* second is printed.  A pass is a sequence of calls of analyze_data, one  *)
(* for the registers and one for each block of the stack.  The elements    *)
(* of a call are analysed in parallel and share the table seen_objects: an *)
(* object is described where it is met first, and everywhere else by a     *)
(* reference, "See <label>", to that place.                                *)
(*                                                                         *)
(* The other threads of the game go on during the analysis, so that an     *)
(* object may be freed, or created, at an address between two looks.       *)
(***************************************************************************)
EXTENDS Naturals, FiniteSets

CONSTANTS
  Game,         \* addresses of objects of the game
  Foreign,      \* addresses of polymorphic objects of other modules
  Internal,     \* the objects of classes that is_game_relevant_type filters out
  InModule,     \* addresses in the code or data of a module
  Forms,        \* ids of forms
  FormObject,   \* form id |-> address of the form
  Zero,         \* a value that points to nothing
  Inputs,       \* bound: the values that occur
  NumRegs,      \* registers
  StackSize,    \* the part of the stack that is scanned, MAX_SCAN
  Block1,       \* BLOCK_SIZE of the first pass
  Block2,       \* blockSize of the second
  MaxChanges    \* bound: objects that are freed or created meanwhile

Objects == Game \cup Foreign
Addresses == Objects \cup InModule
Values == Addresses \cup Forms \cup {Zero}

ASSUME IntrospectionAssumption ==
  /\ Game \cap Foreign = {}
  /\ Internal \subseteq Objects
  /\ Objects \cap InModule = {}
  /\ Forms \cap Addresses = {}
  /\ Zero \notin Addresses \cup Forms
  /\ FormObject \in [Forms -> Game \ Internal]    \* no class of forms is filtered out
  /\ Inputs \subseteq Values
  /\ {NumRegs, StackSize, Block1, Block2} \subseteq Nat \ {0}
  /\ Block2 <= Block1    \* 256 and 1000
  /\ MaxChanges \in Nat

-----------------------------------------------------------------------------
(* The calls of analyze_data                                                *)

Blocks(size) == (StackSize + size - 1) \div size
BlockLength(k, size) ==
  IF (k + 1) * size > StackSize THEN StackSize - k * size ELSE size

\* Calls FirstStack .. LastOfPass1 are the blocks of the first pass, and so on.
LastOfPass1 == 1 + Blocks(Block1)
RegsOfPass2 == LastOfPass1 + 1
LastOfPass2 == RegsOfPass2 + Blocks(Block2)
Calls == 1 .. LastOfPass2
RegisterCalls == {1, RegsOfPass2}

Offset(c) == IF c <= LastOfPass1 THEN (c - 2) * Block1 ELSE (c - RegsOfPass2 - 1) * Block2
Length(c) == IF c \in RegisterCalls THEN NumRegs
             ELSE IF c <= LastOfPass1 THEN BlockLength(c - 2, Block1)
             ELSE BlockLength(c - RegsOfPass2 - 1, Block2)
Positions(c) == 0 .. Length(c) - 1

MaxLength == CHOOSE n \in {NumRegs, Block1, Block2} : \A m \in {NumRegs, Block1, Block2} : m <= n

Labels == {<<"reg", i>> : i \in 0 .. NumRegs - 1} \cup {<<"rsp", i>> : i \in 0 .. StackSize - 1}
NoLabel == <<"none", 0>>

\* What is printed for a value: the description of an object, a reference to
\* one, "(void* ...", or something else (a number, a string).  of is the address
\* or the form id that led to the object; a text from before the crash is old.
Text(kind, of, label, old) == [kind |-> kind, of |-> of, label |-> label, old |-> old]
Full(v) == Text("full", v, NoLabel, FALSE)
See(v, label) == Text("see", v, label, FALSE)
Void == Text("void", Zero, NoLabel, FALSE)
Plain == Text("plain", Zero, NoLabel, FALSE)
Reserved == Text("empty", Zero, NoLabel, FALSE)
NoText == Text("none", Zero, NoLabel, FALSE)
Old(a) == Text("full", a, NoLabel, TRUE)

\* is_game_relevant_type of the class of an object: not one of the STL's or of the
\* implementation, whichever module it belongs to.
GameRelevant(a) == a \in Objects \ Internal

NotSeen == [text |-> NoText, pos |-> 0, label |-> NoLabel, game |-> FALSE]
NotRelevant == [text |-> NoText, label |-> NoLabel, distance |-> 0]

VARIABLES
  registers,      \* position |-> value
  stack,          \* position |-> value
  alive,          \* objects that exist
  changes,        \* bound: how often alive changed
  seen,           \* seen_objects: address |-> SeenObjectInfo
  call,           \* the call of analyze_data under way
  state,          \* position |-> how far the analysis of it is
  results,        \* call |-> position |-> text
  relevant,       \* RelevantObjectsCollection: value |-> RelevantObject
  collected,      \* history: the calls whose results it has been given
  described       \* history: address |-> how often its filters were started

dataVars == <<registers, stack>>
gameVars == <<alive, changes>>
vars == <<dataVars, gameVars, seen, call, state, results, relevant, collected,
          described>>

\* call is 0 until the state of the last analysis is reset, and LastOfPass2 + 1
\* when the report is printed.
Init ==
  /\ registers \in [0 .. NumRegs - 1 -> Inputs]
  /\ stack \in [0 .. StackSize - 1 -> Inputs]
  /\ alive \in SUBSET Objects
  /\ changes = 0
  /\ seen \in {[a \in Addresses |->
                 IF a \in S THEN [text |-> Old(a), pos |-> 0, label |-> NoLabel, game |-> GameRelevant(a)]
                            ELSE NotSeen] : S \in {{}, Objects}}
  /\ call = 0
  /\ state = [p \in 0 .. MaxLength - 1 |-> "done"]
  /\ results = [c \in Calls |-> [p \in Positions(c) |-> NoText]]
  /\ relevant = [v \in Values |-> NotRelevant]
  /\ collected = {}
  /\ described = [a \in Addresses |-> 0]

Value(c, p) == IF c \in RegisterCalls THEN registers[p] ELSE stack[Offset(c) + p]
ObjectOf(v) == IF v \in Forms THEN FormObject[v] ELSE v

\* Defect: the generator of the registers stays installed.
LabelOf_KeepsFirst(c, p) == <<"reg", p>>

\* Defect: counted from one.
LabelOf_OneBased(c, p) ==
  IF c \in RegisterCalls THEN <<"reg", p>> ELSE <<"rsp", Offset(c) + p + 1>>

\* label_generator of the call
LabelOf(c, p) == IF c \in RegisterCalls THEN <<"reg", p>> ELSE <<"rsp", Offset(c) + p>>

-----------------------------------------------------------------------------
(* The analysis of one element                                              *)

Working == call \in Calls
Todo(p) == Working /\ p \in Positions(call) /\ state[p] = "todo"

Printed(p, text) ==
  /\ results' = [results EXCEPT ![call][p] = text]
  /\ state' = [state EXCEPT ![p] = "done"]

Entry(p, text, game) ==
  [text |-> text, pos |-> p, label |-> LabelOf(call, p), game |-> game]

\* The object is in the table: its description if this is the place where it
\* was met first (or looks like it: only the position is compared), otherwise
\* a reference.
Again(v, p) ==
  LET entry == seen[ObjectOf(v)] IN
  IF entry.pos = p /\ entry.text.kind # "empty" THEN entry.text
                                               ELSE See(v, entry.label)

\* Defect: nothing is entered before the description is complete.
Meet_NotReserved(p) ==
  LET v == Value(call, p)
      a == ObjectOf(v)
  IN
  /\ Todo(p)
  /\ a \in Game \cap alive
  /\ \/ /\ seen[a] = NotSeen
        /\ state' = [state EXCEPT ![p] = "filling"]
        /\ described' = [described EXCEPT ![a] = @ + 1]
        /\ UNCHANGED <<seen, results>>
     \/ /\ seen[a] # NotSeen
        /\ Printed(p, Again(v, p))
        /\ UNCHANGED <<seen, described>>
  /\ UNCHANGED <<dataVars, gameVars, call, relevant, collected>>

\* F4Polymorphic::name: look up and reserve
Meet(p) ==
  LET v == Value(call, p)
      a == ObjectOf(v)
  IN
  /\ Todo(p)
  /\ a \in Game \cap alive
  /\ \/ /\ seen[a] = NotSeen
        /\ seen' = [seen EXCEPT ![a] = Entry(p, Reserved, TRUE)]
        /\ state' = [state EXCEPT ![p] = "filling"]
        /\ described' = [described EXCEPT ![a] = @ + 1]
        /\ UNCHANGED results
     \/ /\ seen[a] # NotSeen
        /\ Printed(p, Again(v, p))
        /\ UNCHANGED <<seen, described>>
  /\ UNCHANGED <<dataVars, gameVars, call, relevant, collected>>

\* Defect: the flag of the reservation is kept.
Complete_KeepsFlag(p) ==
  LET v == Value(call, p) IN
  /\ Working
  /\ p \in Positions(call)
  /\ state[p] = "filling"
  /\ seen' = [seen EXCEPT ![ObjectOf(v)] = [@ EXCEPT !.text = Full(v)]]
  /\ Printed(p, Full(v))
  /\ UNCHANGED <<dataVars, gameVars, call, relevant, collected, described>>

\* ... run the filters, and complete the entry, whose flag was only a guess.
Complete(p) ==
  LET v == Value(call, p)
      a == ObjectOf(v)
  IN
  /\ Working
  /\ p \in Positions(call)
  /\ state[p] = "filling"
  /\ seen' = [seen EXCEPT ![a] = [@ EXCEPT !.text = Full(v), !.game = GameRelevant(a)]]
  /\ Printed(p, Full(v))
  /\ UNCHANGED <<dataVars, gameVars, call, relevant, collected, described>>

\* Polymorphic::name
MeetForeign(p) ==
  LET a == Value(call, p) IN
  /\ Todo(p)
  /\ a \in Foreign \cap alive
  /\ \/ /\ seen[a] = NotSeen
        /\ seen' = [seen EXCEPT ![a] = Entry(p, Full(a), GameRelevant(a))]
        /\ Printed(p, Full(a))
     \/ /\ seen[a] # NotSeen
        /\ Printed(p, Again(a, p))
        /\ UNCHANGED seen
  /\ UNCHANGED <<dataVars, gameVars, call, relevant, collected, described>>

\* Pointer::name of an address in a module: look up, look up symbols, store.
MeetPointer(p) ==
  LET a == Value(call, p) IN
  /\ Todo(p)
  /\ a \in InModule
  /\ \/ /\ seen[a] # NotSeen
        /\ Printed(p, seen[a].text)
     \/ /\ seen[a] = NotSeen
        /\ state' = [state EXCEPT ![p] = "filling pointer"]
        /\ UNCHANGED results
  /\ UNCHANGED <<dataVars, gameVars, seen, call, relevant, collected, described>>

StorePointer(p) ==
  LET a == Value(call, p) IN
  /\ Working
  /\ p \in Positions(call)
  /\ state[p] = "filling pointer"
  /\ seen' = IF seen[a] = NotSeen
               THEN [seen EXCEPT ![a] = Entry(p, Void, FALSE)]
               ELSE seen
  /\ Printed(p, Void)
  /\ UNCHANGED <<dataVars, gameVars, call, relevant, collected, described>>

\* Any other value: "(void*)" if it can be read, a string, or a number.  The
\* form of an id may be inactive.
MeetPlain(p) ==
  LET a == ObjectOf(Value(call, p)) IN
  /\ Todo(p)
  /\ a \notin alive \cup InModule \/ Value(call, p) \in Forms
  /\ \E text \in (IF Value(call, p) \in Objects THEN {Void, Plain} ELSE {Plain}) :
       Printed(p, text)
  /\ UNCHANGED <<dataVars, gameVars, seen, call, relevant, collected, described>>

-----------------------------------------------------------------------------
(* The calls                                                                *)

Begin(c) ==
  /\ call' = c
  /\ state' = [p \in 0 .. MaxLength - 1 |->
                IF c \in Calls /\ p < Length(c) THEN "todo" ELSE "done"]

\* reset_analysis_state, once for the crash
Reset ==
  /\ call = 0
  /\ seen' = [a \in Addresses |-> NotSeen]
  /\ Begin(1)
  /\ UNCHANGED <<dataVars, gameVars, results, relevant, collected, described>>

AllDone == Working /\ \A p \in Positions(call) : state[p] = "done"

\* backfill_void_pointers on the results of the calls cs
Backfilled(cs) ==
  [c \in Calls |-> IF c \notin cs THEN results[c] ELSE
    [p \in Positions(c) |->
      LET a == Value(c, p) IN
      IF results[c][p].kind = "void" /\ a \in Addresses /\ seen[a] # NotSeen
        THEN seen[a].text ELSE results[c][p]]]

WasIntrospected(v) == v \in Addresses /\ seen[v] # NotSeen /\ seen[v].game

Distance(c, p) == IF c \in RegisterCalls THEN 0 ELSE 1000 + 8 * (Offset(c) + p)

\* Defect: references are taken as well.
Occurrences_WithReferences(v, cs, texts) ==
  {o \in {<<c, p>> : c \in cs, p \in 0 .. MaxLength - 1} :
     /\ o[2] \in Positions(o[1])
     /\ Value(o[1], o[2]) = v
     /\ \/ texts[o[1]][o[2]].kind = "full" /\ texts[o[1]][o[2]].of \in Forms
        \/ WasIntrospected(v)}

\* The occurrences of v that RelevantObjectsCollection::add takes.
Occurrences(v, cs, texts) ==
  {o \in {<<c, p>> : c \in cs, p \in 0 .. MaxLength - 1} :
     /\ o[2] \in Positions(o[1])
     /\ Value(o[1], o[2]) = v
     /\ texts[o[1]][o[2]].kind # "see"
     /\ \/ texts[o[1]][o[2]].kind = "full" /\ texts[o[1]][o[2]].of \in Forms
        \/ WasIntrospected(v)}

\* add, for the elements of the calls cs in their order, which is that of their
\* distance: the closest one is kept.
Collected(cs, texts) ==
  [v \in Values |->
    LET os == Occurrences(v, cs, texts) IN
    IF os = {} \/ relevant[v] # NotRelevant
      THEN relevant[v]
      ELSE LET o == CHOOSE o \in os : \A q \in os :
                      o[1] < q[1] \/ (o[1] = q[1] /\ o[2] <= q[2])
           IN [text |-> texts[o[1]][o[2]], label |-> LabelOf(o[1], o[2]),
               distance |-> Distance(o[1], o[2])]]

\* analyze_registers
RegistersDone ==
  /\ AllDone
  /\ call \in RegisterCalls
  /\ results' = Backfilled({call})
  /\ \/ /\ call = 1
        /\ relevant' = Collected({1}, results')
        /\ collected' = {1}
     \/ /\ call # 1
        /\ UNCHANGED <<relevant, collected>>
  /\ Begin(call + 1)
  /\ UNCHANGED <<dataVars, gameVars, seen, described>>

BlockDone ==
  /\ AllDone
  /\ call \notin RegisterCalls \cup {LastOfPass1, LastOfPass2}
  /\ Begin(call + 1)
  /\ UNCHANGED <<dataVars, gameVars, seen, results, relevant, collected, described>>

\* The end of analyze_stack_blocks, and the collection of what it found
Pass1Done ==
  /\ AllDone
  /\ call = LastOfPass1
  /\ results' = Backfilled(2 .. LastOfPass1)
  /\ relevant' = Collected(2 .. LastOfPass1, results')
  /\ collected' = collected \cup 2 .. LastOfPass1
  /\ Begin(RegsOfPass2)
  /\ UNCHANGED <<dataVars, gameVars, seen, described>>

\* "If object collection fails, continue without it"
Pass1Fails ==
  /\ call \in 1 .. LastOfPass1
  /\ AllDone \/ \A p \in Positions(call) : state[p] = "todo"
  /\ Begin(RegsOfPass2)
  /\ UNCHANGED <<dataVars, gameVars, seen, results, relevant, collected, described>>

\* Defect: only the last block is filled in.
Pass2Done_LastBlock ==
  /\ AllDone
  /\ call = LastOfPass2
  /\ results' = Backfilled({LastOfPass2})
  /\ Begin(LastOfPass2 + 1)
  /\ UNCHANGED <<dataVars, gameVars, seen, relevant, collected, described>>

\* "Backfill all analyzed data uniformly", then print.
Pass2Done ==
  /\ AllDone
  /\ call = LastOfPass2
  /\ results' = Backfilled(RegsOfPass2 .. LastOfPass2)
  /\ Begin(LastOfPass2 + 1)
  /\ UNCHANGED <<dataVars, gameVars, seen, relevant, collected, described>>

\* Another thread frees or creates an object.
GameChanges ==
  /\ changes < MaxChanges
  /\ changes' = changes + 1
  /\ \E a \in Objects : alive' = IF a \in alive THEN alive \ {a} ELSE alive \cup {a}
  /\ UNCHANGED <<dataVars, seen, call, state, results, relevant, collected,
                 described>>

Analyse(p) == \/ Meet(p)
              \/ Complete(p)
              \/ MeetForeign(p)
              \/ MeetPointer(p)
              \/ StorePointer(p)
              \/ MeetPlain(p)

Next ==
  \/ Reset
  \/ \E p \in 0 .. MaxLength - 1 : Analyse(p)
  \/ RegistersDone
  \/ BlockDone
  \/ Pass1Done
  \/ Pass1Fails
  \/ Pass2Done
  \/ GameChanges

Spec == Init /\ [][Next]_vars
-----------------------------------------------------------------------------
(* Properties                                                               *)

Texts == [kind : {"full", "see", "void", "plain", "empty", "none"}, of : Values,
          label : Labels \cup {NoLabel}, old : BOOLEAN]

\* Every variable holds a value of its kind.
TypeOK ==
  /\ registers \in [0 .. NumRegs - 1 -> Values]
  /\ stack \in [0 .. StackSize - 1 -> Values]
  /\ alive \subseteq Objects
  /\ changes \in 0 .. MaxChanges
  /\ seen \in [Addresses -> [text : Texts, pos : Nat, label : Labels \cup {NoLabel},
                             game : BOOLEAN]]
  /\ call \in 0 .. LastOfPass2 + 1
  /\ state \in [0 .. MaxLength - 1 -> {"todo", "filling", "filling pointer", "done"}]
  /\ DOMAIN results = Calls
  /\ \A c \in Calls : results[c] \in [Positions(c) -> Texts]
  /\ relevant \in [Values -> [text : Texts, label : Labels \cup {NoLabel}, distance : Nat]]
  /\ collected \subseteq Calls
  /\ described \in [Addresses -> Nat]

\* The value and the printed text at a label.
ValueAt(label) == IF label[1] = "reg" THEN registers[label[2]] ELSE stack[label[2]]
PrintedAt(label) ==
  IF label[1] = "reg" THEN results[RegsOfPass2][label[2]]
  ELSE results[RegsOfPass2 + 1 + label[2] \div Block2][label[2] % Block2]

\* The filters of an object, which follow its pointers, run at most once in a
\* crash, however many workers meet the object at once and in both passes.
DescribedOnce == \A a \in Addresses : described[a] <= 1

\* Nothing that was found out before the crash, in a thread dump for instance,
\* is told of the crash.
NothingOld ==
  /\ \A c \in Calls : \A p \in Positions(c) : ~results[c][p].old
  /\ \A v \in Values : ~relevant[v].text.old

\* What is told of an object was found out once, in this crash.
DescriptionsRight == DescribedOnce /\ NothingOld

\* "See <label>" names a register or a place on the stack that refers to the
\* object, in every block of both passes and for every order of the workers.
ReferencesNameTheObject ==
  \A c \in Calls : \A p \in Positions(c) :
    LET text == results[c][p] IN
    text.kind = "see" =>
      text.label \in Labels /\ ObjectOf(ValueAt(text.label)) = ObjectOf(text.of)

Described(a, text) == text.kind = "full" /\ ObjectOf(text.of) = a

\* In the printed report a reference to a register, or to the first block of the
\* stack, leads to the description of the object, unless it is no object any
\* more.
ReferencesDescribedNear ==
  call = LastOfPass2 + 1 =>
    \A c \in RegsOfPass2 .. LastOfPass2 : \A p \in Positions(c) :
      LET text == results[c][p] IN
      text.kind = "see" /\ (text.label[1] = "reg" \/ text.label[2] < Block2) =>
        \/ Described(ObjectOf(text.of), PrintedAt(text.label))
        \/ PrintedAt(text.label).kind = "plain"

\* A printed reference leads to its object, and where the positions are those of
\* the first pass, to its description.
ReferencesRight == ReferencesNameTheObject /\ ReferencesDescribedNear

\* The relevant objects are exactly those they should be: an object of a class that
\* counts, of the game or of another module, that was described in the first pass is
\* among them, no further from the crash than where it was described, and as long as
\* memory does not change with its description; one of another class is not, though
\* its entry counts until the filters are done.
RelevantListed ==
  /\ \A c \in collected : \A p \in Positions(c) :
       LET a == ObjectOf(results[c][p].of) IN
       results[c][p].kind = "full" /\ GameRelevant(a) =>
         \E v \in Values :
           /\ ObjectOf(v) = a
           /\ relevant[v] # NotRelevant
           /\ relevant[v].distance <= Distance(c, p)
           /\ changes = 0 => Described(a, relevant[v].text)
  /\ \A v \in Values : relevant[v] # NotRelevant => v \in Forms \/ GameRelevant(v)

\* No value is printed as a mere pointer if an object, of the game or not, was found
\* at its address, before it in the analysis or after.
BackfillComplete ==
  call = LastOfPass2 + 1 =>
    \A c \in RegsOfPass2 .. LastOfPass2 : \A p \in Positions(c) :
      results[c][p].kind = "void" =>
        Value(c, p) \notin Addresses \/ seen[Value(c, p)].text.kind # "full"

\* "If we're at the same position where it was first seen, return the stored
\* result (This happens on the second analysis pass for printing)": every
\* reference in the printed report leads to a description.
ReferencesDescribed ==
  call = LastOfPass2 + 1 /\ changes = 0 =>
    \A c \in RegsOfPass2 .. LastOfPass2 : \A p \in Positions(c) :
      results[c][p].kind = "see" =>
        Described(ObjectOf(results[c][p].of), PrintedAt(results[c][p].label))
=============================================================================
