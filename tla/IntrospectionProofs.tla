------------------------ MODULE IntrospectionProofs ------------------------
(***************************************************************************)
(* What Introspection promises for any number of registers, any size of    *)
(* the stack and of the blocks, and any objects: types, that the filters   *)
(* of an object run once, that nothing old is told, that every reference   *)
(* names a place that refers to the object and, near enough to the start   *)
(* of a block, leads to its description, that backfilling leaves no        *)
(* element open, and that the objects worth listing are listed.            *)
(***************************************************************************)
EXTENDS Introspection, WellOrders

USE IntrospectionAssumption

-----------------------------------------------------------------------------
(* Calls, positions and labels                                              *)

\* The number of blocks is a natural number.
LEMMA BlocksNat ==
  ASSUME NEW size \in Nat \ {0}
  PROVE Blocks(size) \in Nat
<1>1. StackSize + size - 1 \in Nat
  OBVIOUS
<1> QED BY <1>1 DEF Blocks

\* The calls come in the order registers, stack, registers, stack.
LEMMA CallOrder ==
  /\ LastOfPass1 \in Nat /\ 1 <= LastOfPass1
  /\ RegsOfPass2 \in Nat /\ RegsOfPass2 = LastOfPass1 + 1
  /\ LastOfPass2 \in Nat /\ RegsOfPass2 <= LastOfPass2
  /\ Calls = 1 .. LastOfPass2
<1>1. Blocks(Block1) \in Nat /\ Blocks(Block2) \in Nat
  BY BlocksNat
<1> QED BY <1>1 DEF LastOfPass1, RegsOfPass2, LastOfPass2, Calls

\* A call is under way when call is one of them.
LEMMA CallNotZero == \A c \in Calls : c # 0
BY CallOrder

\* A block lies inside the stack, and is no longer than its size.
LEMMA InBlock ==
  ASSUME NEW k \in Nat, NEW size \in Nat \ {0},
         NEW p \in 0 .. BlockLength(k, size) - 1
  PROVE /\ k * size + p \in 0 .. StackSize - 1
        /\ p < size
<1>1. k * size \in Nat /\ (k + 1) * size = k * size + size
  OBVIOUS
<1> DEFINE m == k * size
<1>2. m \in Nat
  BY <1>1
<1>3. BlockLength(k, size) = IF m + size > StackSize THEN StackSize - m ELSE size
  BY <1>1 DEF BlockLength
<1> HIDE DEF m
<1>4. /\ m + p \in 0 .. StackSize - 1
      /\ p < size
  BY <1>2, <1>3
<1> QED BY <1>4 DEF m

\* Every call is of the registers, or of a block of one of the passes.
LEMMA StackCall ==
  ASSUME NEW c \in Calls, c \notin RegisterCalls
  PROVE \E k \in Nat, size \in {Block1, Block2} :
          Offset(c) = k * size /\ Length(c) = BlockLength(k, size)
<1>1. CASE c <= LastOfPass1
  <2>1. c - 2 \in Nat
    BY <1>1, CallOrder DEF RegisterCalls
  <2> QED BY <1>1, <2>1 DEF Offset, Length
<1>2. CASE ~(c <= LastOfPass1)
  <2>1. c - RegsOfPass2 - 1 \in Nat
    BY <1>2, CallOrder DEF RegisterCalls
  <2> QED BY <1>2, <2>1 DEF Offset, Length
<1> QED BY <1>1, <1>2

\* MaxLength is a bound on the positions of all calls.
LEMMA MaxLengthBounds ==
  /\ MaxLength \in Nat
  /\ \A c \in Calls : Positions(c) \subseteq 0 .. MaxLength - 1
<1>1. /\ MaxLength \in Nat
      /\ NumRegs <= MaxLength /\ Block1 <= MaxLength /\ Block2 <= MaxLength
  <2> DEFINE S == {NumRegs, Block1, Block2}
  <2>1. \E n \in S : \A m \in S : m <= n
    OBVIOUS
  <2>2. MaxLength \in S /\ \A m \in S : m <= MaxLength
    BY <2>1 DEF MaxLength
  <2> QED BY <2>2
<1>2. ASSUME NEW c \in Calls, NEW p \in Positions(c)
      PROVE p \in 0 .. MaxLength - 1
  <2>1. CASE c \in RegisterCalls
    BY <1>1, <2>1 DEF Positions, Length
  <2>2. CASE c \notin RegisterCalls
    <3>1. PICK k \in Nat, size \in {Block1, Block2} :
            Offset(c) = k * size /\ Length(c) = BlockLength(k, size)
      BY <2>2, StackCall
    <3>2. p < size /\ p \in Nat
      BY <3>1, InBlock DEF Positions
    <3> QED BY <1>1, <3>2
  <2> QED BY <2>1, <2>2
<1> QED BY <1>1, <1>2

\* The label of a position leads to its value.
LEMMA LabelOfPosition ==
  ASSUME NEW c \in Calls, NEW p \in Positions(c)
  PROVE /\ LabelOf(c, p) \in Labels
        /\ ValueAt(LabelOf(c, p)) = Value(c, p)
        /\ c \in RegisterCalls => p \in 0 .. NumRegs - 1
        /\ c \notin RegisterCalls => Offset(c) + p \in 0 .. StackSize - 1
        /\ Distance(c, p) \in Nat
<1>1. CASE c \in RegisterCalls
  <2>1. p \in 0 .. NumRegs - 1
    BY <1>1 DEF Positions, Length
  <2> QED BY <1>1, <2>1 DEF LabelOf, Labels, ValueAt, Value, Distance
<1>2. CASE c \notin RegisterCalls
  <2>1. PICK k \in Nat, size \in {Block1, Block2} :
          Offset(c) = k * size /\ Length(c) = BlockLength(k, size)
    BY <1>2, StackCall
  <2>2. Offset(c) + p \in 0 .. StackSize - 1 /\ p \in Nat
    <3>1. p \in 0 .. BlockLength(k, size) - 1 /\ size \in Nat \ {0}
      BY <2>1 DEF Positions
    <3>2. k * size + p \in 0 .. StackSize - 1
      BY <3>1, InBlock
    <3> QED BY <2>1, <3>1, <3>2
  <2>3. LabelOf(c, p) = <<"rsp", Offset(c) + p>> /\ "rsp" # "reg"
    BY <1>2 DEF LabelOf
  <2>4. 8 * (Offset(c) + p) \in Nat
    BY <2>2
  <2> QED BY <1>2, <2>2, <2>3, <2>4 DEF Labels, ValueAt, Value, Distance
<1> QED BY <1>1, <1>2

\* A label is not the one of an entry that is not there.
LEMMA NoLabelIsNone == NoLabel \notin Labels
BY DEF NoLabel, Labels

-----------------------------------------------------------------------------
(* Types                                                                    *)

Entries == [text : Texts, pos : Nat, label : Labels \cup {NoLabel}, game : BOOLEAN]
Relevants == [text : Texts, label : Labels \cup {NoLabel}, distance : Nat]

\* The texts are texts.
LEMMA TextTypes ==
  /\ \A v \in Values : Full(v) \in Texts /\ Old(v) \in Texts
  /\ \A v \in Values, l \in Labels \cup {NoLabel} : See(v, l) \in Texts
  /\ {Void, Plain, Reserved, NoText} \subseteq Texts
BY DEF Texts, Text, Full, Old, See, Void, Plain, Reserved, NoText, Values

\* An entry that does not exist has no text, and no label.
LEMMA NotSeenType ==
  /\ NotSeen \in Entries
  /\ NotSeen.text = NoText
  /\ NotSeen.label = NoLabel
  /\ NotRelevant \in Relevants
BY TextTypes DEF NotSeen, NotRelevant, Entries, Relevants

\* A value is a value, and the object it stands for has an address.
LEMMA ValueTypes ==
  ASSUME TypeOK, NEW c \in Calls, NEW p \in Positions(c)
  PROVE Value(c, p) \in Values /\ ObjectOf(Value(c, p)) \in Values
<1>1. Value(c, p) \in Values
  BY LabelOfPosition DEF TypeOK, Value
<1> QED BY <1>1 DEF ObjectOf, Values, Addresses, Objects

\* A new entry.
LEMMA EntryType ==
  ASSUME NEW p \in Positions(call), call \in Calls, NEW text \in Texts, NEW game \in BOOLEAN
  PROVE Entry(p, text, game) \in Entries
<1>1. LabelOf(call, p) \in Labels /\ p \in Nat
  BY LabelOfPosition DEF Positions
<1> QED BY <1>1 DEF Entry, Entries

\* Whether a class counts is a question of yes and no.
LEMMA RelevantBoolean == \A a : GameRelevant(a) \in BOOLEAN
BY DEF GameRelevant

\* Beginning a call.
LEMMA BeginType ==
  ASSUME NEW c \in 0 .. LastOfPass2 + 1, Begin(c)
  PROVE /\ call' = c
        /\ state' \in [0 .. MaxLength - 1 -> {"todo", "done"}]
BY DEF Begin

\* Printing a text.
LEMMA PrintedType ==
  ASSUME TypeOK, call \in Calls, NEW p \in Positions(call), NEW text \in Texts,
         Printed(p, text)
  PROVE /\ state' \in [0 .. MaxLength - 1 -> {"todo", "filling", "filling pointer", "done"}]
        /\ DOMAIN results' = Calls
        /\ \A c \in Calls : results'[c] \in [Positions(c) -> Texts]
BY DEF TypeOK, Printed

\* Filling in the pointers.
LEMMA BackfilledType ==
  ASSUME TypeOK, NEW cs
  PROVE /\ DOMAIN Backfilled(cs) = Calls
        /\ \A c \in Calls : Backfilled(cs)[c] \in [Positions(c) -> Texts]
<1>1. ASSUME NEW c \in Calls, NEW p \in Positions(c)
      PROVE LET a == Value(c, p) IN
            (IF results[c][p].kind = "void" /\ a \in Addresses /\ seen[a] # NotSeen
               THEN seen[a].text ELSE results[c][p]) \in Texts
  BY DEF TypeOK
<1>2. ASSUME NEW c \in Calls
      PROVE Backfilled(cs)[c] \in [Positions(c) -> Texts]
  BY <1>1 DEF Backfilled, TypeOK
<1> QED BY <1>2 DEF Backfilled

\* The occurrences of a value have a closest one.
LEMMA ClosestOccurrence ==
  ASSUME NEW v, NEW cs, NEW texts, cs \subseteq Calls, Occurrences(v, cs, texts) # {}
  PROVE LET o == CHOOSE o \in Occurrences(v, cs, texts) :
                   \A q \in Occurrences(v, cs, texts) :
                     o[1] < q[1] \/ (o[1] = q[1] /\ o[2] <= q[2])
        IN o[1] \in cs /\ o[2] \in Positions(o[1])
<1> DEFINE S == Occurrences(v, cs, texts)
           o == CHOOSE o \in S : \A q \in S : o[1] < q[1] \/ (o[1] = q[1] /\ o[2] <= q[2])
<1>1. S \in SUBSET (Nat \X Nat)
  BY CallOrder, MaxLengthBounds DEF Occurrences
<1>0. S # {}
  OBVIOUS
<1>2. \E m \in S : \A q \in S : m[1] < q[1] \/ (m[1] = q[1] /\ m[2] <= q[2])
  <2> HIDE DEF S
  <2> QED BY <1>0, <1>1, LeastPair
<1>3. o \in S
  <2> HIDE DEF S
  <2> QED BY <1>2
<1>4. ASSUME NEW q \in S PROVE q[1] \in cs /\ q[2] \in Positions(q[1])
  BY DEF Occurrences
<1> QED BY <1>3, <1>4

\* The relevant objects.
LEMMA CollectedType ==
  ASSUME TypeOK, NEW cs, NEW texts, cs \subseteq Calls,
         \A c \in Calls : texts[c] \in [Positions(c) -> Texts]
  PROVE Collected(cs, texts) \in [Values -> Relevants]
<1>1. ASSUME NEW v \in Values PROVE Collected(cs, texts)[v] \in Relevants
  <2>1. CASE Occurrences(v, cs, texts) = {} \/ relevant[v] # NotRelevant
    BY <2>1 DEF Collected, TypeOK, Relevants
  <2>2. CASE Occurrences(v, cs, texts) # {} /\ relevant[v] = NotRelevant
    <3> DEFINE o == CHOOSE o \in Occurrences(v, cs, texts) :
                      \A q \in Occurrences(v, cs, texts) :
                        o[1] < q[1] \/ (o[1] = q[1] /\ o[2] <= q[2])
    <3>1. o[1] \in cs /\ o[2] \in Positions(o[1])
      BY <2>2, ClosestOccurrence
    <3>2. Collected(cs, texts)[v] =
            [text |-> texts[o[1]][o[2]], label |-> LabelOf(o[1], o[2]),
             distance |-> Distance(o[1], o[2])]
      BY <2>2 DEF Collected
    <3> HIDE DEF o
    <3>3. /\ texts[o[1]][o[2]] \in Texts
          /\ LabelOf(o[1], o[2]) \in Labels
          /\ Distance(o[1], o[2]) \in Nat
      BY <3>1, LabelOfPosition
    <3> QED BY <3>2, <3>3 DEF Relevants
  <2> QED BY <2>1, <2>2
<1>2. DOMAIN Collected(cs, texts) = Values
  BY DEF Collected
<1> QED BY <1>1, <1>2 DEF Collected

\* TypeOK in the words of these proofs.
LEMMA TypeOKSplit ==
  TypeOK <=>
    /\ registers \in [0 .. NumRegs - 1 -> Values]
    /\ stack \in [0 .. StackSize - 1 -> Values]
    /\ alive \subseteq Objects
    /\ changes \in 0 .. MaxChanges
    /\ seen \in [Addresses -> Entries]
    /\ call \in 0 .. LastOfPass2 + 1
    /\ state \in [0 .. MaxLength - 1 -> {"todo", "filling", "filling pointer", "done"}]
    /\ DOMAIN results = Calls
    /\ \A c \in Calls : results[c] \in [Positions(c) -> Texts]
    /\ relevant \in [Values -> Relevants]
    /\ collected \subseteq Calls
    /\ described \in [Addresses -> Nat]
BY DEF TypeOK, Entries, Relevants

\* Types at the start.
LEMMA TypeInit == Init => TypeOK
<1> SUFFICES ASSUME Init PROVE TypeOK
  OBVIOUS
<1>1. registers \in [0 .. NumRegs - 1 -> Values] /\ stack \in [0 .. StackSize - 1 -> Values]
  BY DEF Init
<1>2. seen \in [Addresses -> Entries]
  <2>1. PICK S \in {{}, Objects} :
          seen = [a \in Addresses |->
                   IF a \in S THEN [text |-> Old(a), pos |-> 0, label |-> NoLabel, game |-> GameRelevant(a)]
                              ELSE NotSeen]
    BY DEF Init
  <2>2. ASSUME NEW a \in Addresses
        PROVE [text |-> Old(a), pos |-> 0, label |-> NoLabel, game |-> GameRelevant(a)] \in Entries
    <3>1. Old(a) \in Texts
      BY TextTypes DEF Values
    <3> QED BY <3>1, RelevantBoolean DEF Entries
  <2> QED BY <2>1, <2>2, NotSeenType
<1>3. call \in 0 .. LastOfPass2 + 1
  BY CallOrder DEF Init
<1>4. state \in [0 .. MaxLength - 1 -> {"todo", "filling", "filling pointer", "done"}]
  BY DEF Init
<1>5. DOMAIN results = Calls /\ \A c \in Calls : results[c] \in [Positions(c) -> Texts]
  BY TextTypes DEF Init
<1>6. relevant \in [Values -> Relevants]
  BY NotSeenType DEF Init
<1>7. /\ alive \subseteq Objects /\ changes \in 0 .. MaxChanges
      /\ collected \subseteq Calls /\ described \in [Addresses -> Nat]
  BY DEF Init
<1> QED BY <1>1, <1>2, <1>3, <1>4, <1>5, <1>6, <1>7, TypeOKSplit

\* What a step of the analysis of one element leaves alone.
LEMMA ElementStep ==
  ASSUME TypeOK, call \in Calls,
         seen' \in [Addresses -> Entries],
         state' \in [0 .. MaxLength - 1 -> {"todo", "filling", "filling pointer", "done"}],
         DOMAIN results' = Calls,
         \A c \in Calls : results'[c] \in [Positions(c) -> Texts],
         described' \in [Addresses -> Nat],
         UNCHANGED <<dataVars, gameVars, call, relevant, collected>>
  PROVE TypeOK'
<1>1. Calls' = Calls /\ \A c : Positions(c)' = Positions(c)
  OBVIOUS
<1> QED BY <1>1 DEF TypeOK, dataVars, gameVars, Entries

\* Types after every step.
LEMMA TypeNext == TypeOK /\ [Next]_vars => TypeOK'
<1> SUFFICES ASSUME TypeOK, [Next]_vars PROVE TypeOK'
  OBVIOUS
<1> DEFINE States == {"todo", "filling", "filling pointer", "done"}
<1>t. /\ seen \in [Addresses -> Entries]
      /\ state \in [0 .. MaxLength - 1 -> States]
      /\ DOMAIN results = Calls /\ \A c \in Calls : results[c] \in [Positions(c) -> Texts]
      /\ described \in [Addresses -> Nat]
      /\ relevant \in [Values -> Relevants]
      /\ collected \subseteq Calls
  BY TypeOKSplit
<1>again. ASSUME NEW v \in Values, ObjectOf(v) \in Addresses, NEW p PROVE Again(v, p) \in Texts
  <2>1. seen[ObjectOf(v)] \in Entries
    BY <1>again, <1>t
  <2>2. seen[ObjectOf(v)].text \in Texts /\ seen[ObjectOf(v)].label \in Labels \cup {NoLabel}
    BY <2>1 DEF Entries
  <2> QED BY <2>2, TextTypes DEF Again
<1>1. CASE Reset
  <2>1. seen' \in [Addresses -> Entries]
    BY <1>1, NotSeenType DEF Reset
  <2>2. 1 \in 0 .. LastOfPass2 + 1
    BY CallOrder
  <2>3. call' \in 0 .. LastOfPass2 + 1 /\ state' \in [0 .. MaxLength - 1 -> States]
    BY <1>1, <2>2, BeginType DEF Reset
  <2> QED BY <1>1, <2>1, <2>3 DEF Reset, TypeOK, Entries, dataVars, gameVars
<1>2. ASSUME NEW p \in 0 .. MaxLength - 1, Meet(p) PROVE TypeOK'
  <2> DEFINE v == Value(call, p)
             a == ObjectOf(v)
  <2>1. call \in Calls /\ p \in Positions(call)
    BY <1>2 DEF Meet, Todo, Working
  <2>2. v \in Values /\ a \in Addresses
    BY <1>2, <2>1, ValueTypes DEF Meet, Addresses, Objects
  <2>3. CASE seen[a] = NotSeen
    <3>1. /\ seen' = [seen EXCEPT ![a] = Entry(p, Reserved, TRUE)]
          /\ state' = [state EXCEPT ![p] = "filling"]
          /\ described' = [described EXCEPT ![a] = @ + 1]
          /\ UNCHANGED results
      BY <1>2, <2>3 DEF Meet
    <3>2. seen' \in [Addresses -> Entries]
      BY <1>t, <2>1, <2>2, <3>1, EntryType, TextTypes
    <3>3. state' \in [0 .. MaxLength - 1 -> States]
      BY <1>t, <3>1
    <3>4. described' \in [Addresses -> Nat]
      <4> HIDE DEF a
      <4>1. described[a] \in Nat
        BY <1>t, <2>2
      <4>2. described' = [described EXCEPT ![a] = described[a] + 1]
        BY <3>1
      <4>3. described[a] + 1 \in Nat
        BY <4>1
      <4>4. described \in [Addresses -> Nat]
        BY <1>t
      <4> QED BY <4>2, <4>3, <4>4
    <3> QED BY <1>2, <1>t, <2>1, <3>1, <3>2, <3>3, <3>4, ElementStep DEF Meet
  <2>4. CASE seen[a] # NotSeen
    <3>1. Printed(p, Again(v, p)) /\ UNCHANGED <<seen, described>>
      BY <1>2, <2>4 DEF Meet
    <3>2. Again(v, p) \in Texts
      BY <2>2, <1>again
    <3> QED BY <1>2, <1>t, <2>1, <3>1, <3>2, PrintedType, ElementStep DEF Meet
  <2> QED BY <2>3, <2>4
<1>3. ASSUME NEW p \in 0 .. MaxLength - 1, Complete(p) PROVE TypeOK'
  <2> DEFINE v == Value(call, p)
  <2>1. call \in Calls /\ p \in Positions(call)
    BY <1>3 DEF Complete, Working
  <2>2. Full(v) \in Texts
    BY <2>1, ValueTypes, TextTypes
  <2>3. ASSUME NEW e \in Entries
        PROVE [e EXCEPT !.text = Full(v), !.game = GameRelevant(ObjectOf(v))] \in Entries
    BY <2>2, RelevantBoolean DEF Entries
  <2>4. seen' \in [Addresses -> Entries]
    BY <1>3, <1>t, <2>3 DEF Complete
  <2>5. Printed(p, Full(v)) /\ UNCHANGED described
    BY <1>3 DEF Complete
  <2> QED BY <1>3, <1>t, <2>1, <2>2, <2>4, <2>5, PrintedType, ElementStep DEF Complete
<1>4. ASSUME NEW p \in 0 .. MaxLength - 1, MeetForeign(p) PROVE TypeOK'
  <2> DEFINE a == Value(call, p)
  <2>1. call \in Calls /\ p \in Positions(call)
    BY <1>4 DEF MeetForeign, Todo, Working
  <2>2. a \in Values /\ a \in Addresses /\ ObjectOf(a) = a
    BY <1>4, <2>1, ValueTypes DEF MeetForeign, Addresses, Objects, ObjectOf
  <2>3. CASE seen[a] = NotSeen
    <3>1. seen' = [seen EXCEPT ![a] = Entry(p, Full(a), GameRelevant(a))] /\ Printed(p, Full(a))
      BY <1>4, <2>3 DEF MeetForeign
    <3>2. Full(a) \in Texts
      BY <2>2, TextTypes
    <3>3. seen' \in [Addresses -> Entries]
      BY <1>t, <2>1, <2>2, <3>1, <3>2, EntryType, RelevantBoolean
    <3> QED BY <1>4, <1>t, <2>1, <3>1, <3>2, <3>3, PrintedType, ElementStep DEF MeetForeign
  <2>4. CASE seen[a] # NotSeen
    <3>1. Printed(p, Again(a, p)) /\ UNCHANGED seen
      BY <1>4, <2>4 DEF MeetForeign
    <3>2. Again(a, p) \in Texts
      BY <2>2, <1>again
    <3> QED BY <1>4, <1>t, <2>1, <3>1, <3>2, PrintedType, ElementStep DEF MeetForeign
  <2> QED BY <2>3, <2>4
<1>5. ASSUME NEW p \in 0 .. MaxLength - 1, MeetPointer(p) PROVE TypeOK'
  <2> DEFINE a == Value(call, p)
  <2>1. call \in Calls /\ p \in Positions(call)
    BY <1>5 DEF MeetPointer, Todo, Working
  <2>2. a \in Addresses
    BY <1>5 DEF MeetPointer, Addresses
  <2>3. CASE seen[a] # NotSeen
    <3>1. Printed(p, seen[a].text) /\ UNCHANGED <<seen, described>>
      BY <1>5, <2>3 DEF MeetPointer
    <3>2. seen[a].text \in Texts
      BY <1>t, <2>2 DEF Entries
    <3> QED BY <1>5, <1>t, <2>1, <3>1, <3>2, PrintedType, ElementStep DEF MeetPointer
  <2>4. CASE seen[a] = NotSeen
    <3>1. state' = [state EXCEPT ![p] = "filling pointer"] /\ UNCHANGED <<seen, results, described>>
      BY <1>5, <2>4 DEF MeetPointer
    <3>2. state' \in [0 .. MaxLength - 1 -> States]
      BY <1>t, <3>1
    <3> QED BY <1>5, <1>t, <2>1, <3>1, <3>2, ElementStep DEF MeetPointer
  <2> QED BY <2>3, <2>4
<1>6. ASSUME NEW p \in 0 .. MaxLength - 1, StorePointer(p) PROVE TypeOK'
  <2> DEFINE a == Value(call, p)
  <2>1. call \in Calls /\ p \in Positions(call)
    BY <1>6 DEF StorePointer, Working
  <2>2. Printed(p, Void) /\ UNCHANGED described
    BY <1>6 DEF StorePointer
  <2>3. Void \in Texts
    BY TextTypes
  <2>4. Entry(p, Void, FALSE) \in Entries
    BY <2>1, <2>3, EntryType
  <2>5. seen' \in [Addresses -> Entries]
    BY <1>6, <1>t, <2>4 DEF StorePointer
  <2> QED BY <1>6, <1>t, <2>1, <2>2, <2>3, <2>5, PrintedType, ElementStep DEF StorePointer
<1>7. ASSUME NEW p \in 0 .. MaxLength - 1, MeetPlain(p) PROVE TypeOK'
  <2>1. call \in Calls /\ p \in Positions(call)
    BY <1>7 DEF MeetPlain, Todo, Working
  <2>2. PICK text \in {Void, Plain} : Printed(p, text)
    BY <1>7 DEF MeetPlain
  <2>3. text \in Texts
    BY TextTypes
  <2>4. UNCHANGED <<seen, described>>
    BY <1>7 DEF MeetPlain
  <2> QED BY <1>7, <1>t, <2>1, <2>2, <2>3, <2>4, PrintedType, ElementStep DEF MeetPlain
<1>8. CASE RegistersDone
  <2>1. call \in Calls
    BY <1>8 DEF RegistersDone, AllDone, Working
  <2>2. call + 1 \in 0 .. LastOfPass2 + 1
    BY <2>1, CallOrder
  <2>3. call' \in 0 .. LastOfPass2 + 1 /\ state' \in [0 .. MaxLength - 1 -> States]
    BY <1>8, <2>2, BeginType DEF RegistersDone
  <2>4. DOMAIN results' = Calls /\ \A c \in Calls : results'[c] \in [Positions(c) -> Texts]
    BY <1>8, BackfilledType DEF RegistersDone
  <2>5. 1 \in Calls
    BY CallOrder
  <2>6. Collected({1}, results') \in [Values -> Relevants]
    <3> DEFINE r == results'
    <3>1. \A c \in Calls : r[c] \in [Positions(c) -> Texts]
      BY <2>4
    <3>2. {1} \subseteq Calls
      BY <2>5
    <3> HIDE DEF r
    <3>3. Collected({1}, r) \in [Values -> Relevants]
      BY <3>1, <3>2, CollectedType
    <3> QED BY <3>3 DEF r
  <2>7. relevant' \in [Values -> Relevants] /\ collected' \subseteq Calls
    BY <1>8, <1>t, <2>5, <2>6 DEF RegistersDone
  <2> QED BY <1>8, <2>3, <2>4, <2>7 DEF RegistersDone, TypeOK, Relevants, dataVars, gameVars
<1>9. CASE BlockDone
  <2>1. call \in Calls
    BY <1>9 DEF BlockDone, AllDone, Working
  <2>2. call + 1 \in 0 .. LastOfPass2 + 1
    BY <2>1, CallOrder
  <2>3. call' \in 0 .. LastOfPass2 + 1 /\ state' \in [0 .. MaxLength - 1 -> States]
    BY <1>9, <2>2, BeginType DEF BlockDone
  <2> QED BY <1>9, <2>3 DEF BlockDone, TypeOK, dataVars, gameVars
<1>10. CASE Pass1Done
  <2>1. RegsOfPass2 \in 0 .. LastOfPass2 + 1 /\ 2 .. LastOfPass1 \subseteq Calls
    BY CallOrder
  <2>2. call' \in 0 .. LastOfPass2 + 1 /\ state' \in [0 .. MaxLength - 1 -> States]
    BY <1>10, <2>1, BeginType DEF Pass1Done
  <2>3. DOMAIN results' = Calls /\ \A c \in Calls : results'[c] \in [Positions(c) -> Texts]
    BY <1>10, BackfilledType DEF Pass1Done
  <2>4. Collected(2 .. LastOfPass1, results') \in [Values -> Relevants]
    <3> DEFINE r == results'
    <3>1. \A c \in Calls : r[c] \in [Positions(c) -> Texts]
      BY <2>3
    <3> HIDE DEF r
    <3>2. Collected(2 .. LastOfPass1, r) \in [Values -> Relevants]
      BY <2>1, <3>1, CollectedType
    <3> QED BY <3>2 DEF r
  <2>5. relevant' \in [Values -> Relevants] /\ collected' \subseteq Calls
    BY <1>10, <1>t, <2>1, <2>4 DEF Pass1Done
  <2> QED BY <1>10, <2>2, <2>3, <2>5 DEF Pass1Done, TypeOK, Relevants, dataVars, gameVars
<1>11. CASE Pass1Fails
  <2>1. RegsOfPass2 \in 0 .. LastOfPass2 + 1
    BY CallOrder
  <2>2. call' \in 0 .. LastOfPass2 + 1 /\ state' \in [0 .. MaxLength - 1 -> States]
    BY <1>11, <2>1, BeginType DEF Pass1Fails
  <2> QED BY <1>11, <2>2 DEF Pass1Fails, TypeOK, dataVars, gameVars
<1>12. CASE Pass2Done
  <2>1. LastOfPass2 + 1 \in 0 .. LastOfPass2 + 1
    BY CallOrder
  <2>2. call' \in 0 .. LastOfPass2 + 1 /\ state' \in [0 .. MaxLength - 1 -> States]
    BY <1>12, <2>1, BeginType DEF Pass2Done
  <2>3. DOMAIN results' = Calls /\ \A c \in Calls : results'[c] \in [Positions(c) -> Texts]
    BY <1>12, BackfilledType DEF Pass2Done
  <2> QED BY <1>12, <2>2, <2>3 DEF Pass2Done, TypeOK, dataVars, gameVars
<1>13. CASE GameChanges
  <2>1. changes' \in 0 .. MaxChanges
    <3>1. changes \in 0 .. MaxChanges /\ changes < MaxChanges /\ changes' = changes + 1
      BY <1>13, TypeOKSplit DEF GameChanges
    <3> QED BY <3>1
  <2>2. alive' \subseteq Objects
    BY <1>13 DEF GameChanges, TypeOK
  <2> QED BY <1>13, <2>1, <2>2 DEF GameChanges, TypeOK, dataVars
<1>14. CASE UNCHANGED vars
  BY <1>14 DEF vars, TypeOK, dataVars, gameVars
<1> QED BY <1>1, <1>2, <1>3, <1>4, <1>5, <1>6, <1>7, <1>8, <1>9, <1>10, <1>11,
           <1>12, <1>13, <1>14 DEF Next, Analyse

\* Every variable keeps its type, for any sizes and any objects.
THEOREM TypeCorrect == Spec => []TypeOK
BY TypeInit, TypeNext, PTL DEF Spec

-----------------------------------------------------------------------------
(* What is in the table and what is printed                                 *)

\* A reference to a place that refers to the object.
NamesObject(text) ==
  text.kind = "see" =>
    text.label \in Labels /\ ObjectOf(ValueAt(text.label)) = ObjectOf(text.of)

\* Once the table has been reset an entry holds no reference and nothing old, and
\* its label leads to its object.
SeenOK ==
  call # 0 =>
    \A a \in Addresses :
      /\ seen[a].text.kind # "see" /\ ~seen[a].text.old
      /\ seen[a] # NotSeen =>
           seen[a].label \in Labels /\ ObjectOf(ValueAt(seen[a].label)) = a

\* The filters of an object start when its entry is made.
DescribedOK ==
  \A a \in Addresses :
    /\ described[a] <= 1
    /\ described[a] = 1 => call # 0 /\ seen[a] # NotSeen

\* A worker that is inside the filters has made the entry of its object.
FillingOK ==
  \A p \in 0 .. MaxLength - 1 :
    state[p] = "filling" =>
      /\ call # 0
      /\ ObjectOf(Value(call, p)) \in Addresses
      /\ seen[ObjectOf(Value(call, p))] # NotSeen

ResultsOK == \A c \in Calls : \A p \in Positions(c) :
  ~results[c][p].old /\ NamesObject(results[c][p])

RelevantOK == \A v \in Values : ~relevant[v].text.old

TableInv == /\ TypeOK
            /\ SeenOK
            /\ DescribedOK
            /\ FillingOK
            /\ ResultsOK
            /\ RelevantOK

\* The texts that are neither old nor references.
LEMMA HarmlessTexts ==
  /\ \A v : ~Full(v).old /\ NamesObject(Full(v)) /\ Full(v).kind # "see"
  /\ ~Void.old /\ NamesObject(Void) /\ Void.kind # "see"
  /\ ~Plain.old /\ NamesObject(Plain)
  /\ ~Reserved.old /\ Reserved.kind # "see"
  /\ ~NoText.old /\ NamesObject(NoText) /\ NoText.kind # "see"
  /\ \A v, l : ~See(v, l).old
BY DEF Full, Void, Plain, Reserved, NoText, See, Text, NamesObject

\* An address stands for itself.
LEMMA AddressObject == \A a \in Addresses : ObjectOf(a) = a
BY DEF ObjectOf

\* What is printed at the second meeting with an object.
LEMMA AgainOK ==
  ASSUME TableInv, call # 0, NEW v, ObjectOf(v) \in Addresses,
         seen[ObjectOf(v)] # NotSeen, NEW p
  PROVE ~Again(v, p).old /\ NamesObject(Again(v, p))
<1> DEFINE e == seen[ObjectOf(v)]
<1>1. /\ e.text.kind # "see" /\ ~e.text.old
      /\ e.label \in Labels /\ ObjectOf(ValueAt(e.label)) = ObjectOf(v)
  BY DEF TableInv, SeenOK
<1>2. NamesObject(e.text)
  BY <1>1 DEF NamesObject
<1>3. ~See(v, e.label).old /\ NamesObject(See(v, e.label))
  BY <1>1 DEF See, Text, NamesObject
<1>4. Again(v, p) \in {e.text, See(v, e.label)}
  BY DEF Again
<1> QED BY <1>1, <1>2, <1>3, <1>4

\* A new entry fits its object.
LEMMA EntryOK ==
  ASSUME call \in Calls, NEW p \in Positions(call), NEW text,
         text.kind # "see", ~text.old,
         NEW a, ObjectOf(Value(call, p)) = a,
         NEW game, NEW e, e = Entry(p, text, game)
  PROVE /\ e.text.kind # "see" /\ ~e.text.old
        /\ e # NotSeen
        /\ e.label \in Labels /\ ObjectOf(ValueAt(e.label)) = a
<1>1. e.text = text /\ e.label = LabelOf(call, p)
  BY DEF Entry
<1>2. e.label \in Labels /\ ValueAt(e.label) = Value(call, p)
  BY <1>1, LabelOfPosition
<1>3. e # NotSeen
  BY <1>2, NoLabelIsNone DEF NotSeen
<1> QED BY <1>1, <1>2, <1>3

\* Printing a harmless text keeps the results harmless.
LEMMA PrintedOK ==
  ASSUME TypeOK, ResultsOK, call \in Calls, NEW p \in Positions(call), NEW text,
         Printed(p, text), ~text.old, NamesObject(text), UNCHANGED dataVars
  PROVE ResultsOK'
<1>1. ASSUME NEW c \in Calls, NEW q \in Positions(c)
      PROVE ~results'[c][q].old /\ NamesObject(results'[c][q])
  <2>1. results'[c][q] \in {text, results[c][q]}
    BY DEF TypeOK, Printed
  <2> QED BY <2>1 DEF ResultsOK
<1>3. \A l : ValueAt(l)' = ValueAt(l)
  BY DEF ValueAt, dataVars
<1>4. Calls' = Calls /\ \A c : Positions(c)' = Positions(c)
  OBVIOUS
<1> QED BY <1>1, <1>3, <1>4 DEF ResultsOK, NamesObject

\* Filling in pointers, too.
LEMMA BackfilledOK ==
  ASSUME TableInv, call # 0, NEW cs, NEW c \in Calls, NEW p \in Positions(c)
  PROVE ~Backfilled(cs)[c][p].old /\ NamesObject(Backfilled(cs)[c][p])
<1> DEFINE a == Value(c, p)
<1>1. \/ Backfilled(cs)[c][p] = results[c][p]
      \/ a \in Addresses /\ Backfilled(cs)[c][p] = seen[a].text
  <2>1. CASE c \notin cs
    <3>1. Backfilled(cs)[c] = results[c]
      BY <2>1 DEF Backfilled
    <3> QED BY <3>1
  <2>2. CASE c \in cs
    <3>1. Backfilled(cs)[c] =
            [q \in Positions(c) |->
              IF results[c][q].kind = "void" /\ Value(c, q) \in Addresses
                 /\ seen[Value(c, q)] # NotSeen
                THEN seen[Value(c, q)].text ELSE results[c][q]]
      BY <2>2 DEF Backfilled
    <3>2. Backfilled(cs)[c][p] =
            IF results[c][p].kind = "void" /\ a \in Addresses /\ seen[a] # NotSeen
              THEN seen[a].text ELSE results[c][p]
      BY <3>1
    <3>3. CASE results[c][p].kind = "void" /\ a \in Addresses /\ seen[a] # NotSeen
      BY <3>2, <3>3
    <3>4. CASE ~(results[c][p].kind = "void" /\ a \in Addresses /\ seen[a] # NotSeen)
      BY <3>2, <3>4
    <3> QED BY <3>3, <3>4
  <2> QED BY <2>1, <2>2
<1>2. ~results[c][p].old /\ NamesObject(results[c][p])
  BY DEF TableInv, ResultsOK
<1>3. a \in Addresses => ~seen[a].text.old /\ NamesObject(seen[a].text)
  BY DEF TableInv, SeenOK, NamesObject
<1> QED BY <1>1, <1>2, <1>3

\* What is collected is what was printed.
LEMMA CollectedOK ==
  ASSUME RelevantOK, NEW cs, NEW texts, cs \subseteq Calls,
         \A c \in Calls : \A p \in Positions(c) : ~texts[c][p].old
  PROVE \A v \in Values : ~Collected(cs, texts)[v].text.old
<1>1. ASSUME NEW v \in Values PROVE ~Collected(cs, texts)[v].text.old
  <2>1. CASE Occurrences(v, cs, texts) = {} \/ relevant[v] # NotRelevant
    BY <2>1 DEF Collected, RelevantOK
  <2>2. CASE Occurrences(v, cs, texts) # {} /\ relevant[v] = NotRelevant
    <3> DEFINE o == CHOOSE o \in Occurrences(v, cs, texts) :
                      \A q \in Occurrences(v, cs, texts) :
                        o[1] < q[1] \/ (o[1] = q[1] /\ o[2] <= q[2])
    <3>1. o[1] \in cs /\ o[2] \in Positions(o[1])
      BY <2>2, ClosestOccurrence
    <3>2. Collected(cs, texts)[v] =
            [text |-> texts[o[1]][o[2]], label |-> LabelOf(o[1], o[2]),
             distance |-> Distance(o[1], o[2])]
      BY <2>2 DEF Collected
    <3> HIDE DEF o
    <3> QED BY <3>1, <3>2
  <2> QED BY <2>1, <2>2
<1> QED BY <1>1

\* The table before the reset may hold anything.
LEMMA TableInit == Init => TableInv
<1> SUFFICES ASSUME Init PROVE TableInv
  OBVIOUS
<1>1. TypeOK
  BY TypeInit
<1>2. SeenOK /\ DescribedOK /\ FillingOK
  BY DEF Init, SeenOK, DescribedOK, FillingOK
<1>3. ResultsOK
  BY HarmlessTexts DEF Init, ResultsOK
<1>4. RelevantOK
  BY DEF Init, RelevantOK, NotRelevant, NoText, Text
<1> QED BY <1>1, <1>2, <1>3, <1>4 DEF TableInv

\* A step of one element that leaves the table alone keeps the invariant if what
\* it prints is harmless and it does not enter the filters.
LEMMA TableAlone ==
  ASSUME TableInv, TypeOK', ResultsOK',
         UNCHANGED <<registers, stack, seen, call, relevant, described>>,
         \A p \in 0 .. MaxLength - 1 : state'[p] = "filling" => state[p] = "filling"
  PROVE TableInv'
<1>1. /\ \A l : ValueAt(l)' = ValueAt(l)
      /\ \A c, p : Value(c, p)' = Value(c, p)
  BY DEF ValueAt, Value
<1>2. SeenOK'
  BY <1>1 DEF TableInv, SeenOK
<1>3. DescribedOK'
  BY DEF TableInv, DescribedOK
<1>4. FillingOK'
  BY <1>1 DEF TableInv, FillingOK
<1>5. RelevantOK'
  BY DEF TableInv, RelevantOK
<1> QED BY <1>2, <1>3, <1>4, <1>5 DEF TableInv

\* A step that makes or changes one entry.
LEMMA TableChanged ==
  ASSUME TableInv, TypeOK', ResultsOK', call \in Calls,
         UNCHANGED <<registers, stack, call, relevant>>,
         NEW a \in Addresses, NEW e,
         seen' = [seen EXCEPT ![a] = e],
         e.text.kind # "see", ~e.text.old, e # NotSeen,
         e.label \in Labels, ObjectOf(ValueAt(e.label)) = a,
         \/ UNCHANGED described
         \/ described' = [described EXCEPT ![a] = @ + 1] /\ seen[a] = NotSeen,
         \A p \in 0 .. MaxLength - 1 :
           state'[p] = "filling" => state[p] = "filling" \/ ObjectOf(Value(call, p)) = a
  PROVE TableInv'
<1>1. /\ \A l : ValueAt(l)' = ValueAt(l)
      /\ \A c, p : Value(c, p)' = Value(c, p)
  BY DEF ValueAt, Value
<1>0. call # 0
  BY CallOrder
<1>2. \A b \in Addresses : seen'[b] = IF b = a THEN e ELSE seen[b]
  BY DEF TableInv, TypeOK
<1>3. SeenOK'
  BY <1>0, <1>1, <1>2 DEF TableInv, SeenOK
<1>4. DescribedOK'
  <2>1. ASSUME NEW b \in Addresses
        PROVE described'[b] <= 1 /\ (described'[b] = 1 => seen'[b] # NotSeen)
    <3>1. described \in [Addresses -> Nat]
      BY TypeOKSplit DEF TableInv
    <3>2. described[b] \in Nat /\ described[b] <= 1
          /\ (described[b] = 1 => seen[b] # NotSeen)
      BY <3>1 DEF TableInv, DescribedOK
    <3>3. \/ described'[b] = described[b]
          \/ b = a /\ seen[a] = NotSeen /\ described'[b] = described[b] + 1
      <4>1. CASE UNCHANGED described
        BY <4>1
      <4>2. CASE described' = [described EXCEPT ![a] = @ + 1] /\ seen[a] = NotSeen
        BY <3>1, <4>2
      <4> QED BY <4>1, <4>2
    <3> QED BY <1>2, <3>2, <3>3
  <2> QED BY <1>0, <2>1 DEF DescribedOK
<1>5. FillingOK'
  BY <1>0, <1>1, <1>2 DEF TableInv, FillingOK
<1>6. RelevantOK'
  BY DEF TableInv, RelevantOK
<1> QED BY <1>3, <1>4, <1>5, <1>6 DEF TableInv

\* Between two calls no worker is inside the filters.
LEMMA TableBegin ==
  ASSUME TableInv, TypeOK', ResultsOK', RelevantOK', call # 0,
         UNCHANGED <<registers, stack, seen, described>>,
         NEW c \in 1 .. LastOfPass2 + 1, Begin(c)
  PROVE TableInv'
<1>1. \A l : ValueAt(l)' = ValueAt(l)
  BY DEF ValueAt
<1>2. call' # 0 /\ state' \in [0 .. MaxLength - 1 -> {"todo", "done"}]
  <2>1. c \in 0 .. LastOfPass2 + 1 /\ c # 0
    BY CallOrder
  <2> QED BY <2>1, BeginType
<1>3. SeenOK'
  BY <1>1 DEF TableInv, SeenOK
<1>4. DescribedOK'
  BY <1>2 DEF TableInv, DescribedOK
<1>5. FillingOK'
  BY <1>2 DEF FillingOK
<1> QED BY <1>3, <1>4, <1>5 DEF TableInv

\* Steps that print leave the other workers where they are.
LEMMA PrintedState ==
  ASSUME TypeOK, NEW p, NEW text, Printed(p, text)
  PROVE \A q \in 0 .. MaxLength - 1 : state'[q] = "filling" => state[q] = "filling"
BY DEF TypeOK, Printed

\* Every step keeps the table and what is printed right.
LEMMA TableNext == TableInv /\ [Next]_vars => TableInv'
<1> SUFFICES ASSUME TableInv, [Next]_vars PROVE TableInv'
  OBVIOUS
<1>t. TypeOK /\ TypeOK' /\ ResultsOK /\ RelevantOK
  BY TypeNext DEF TableInv
<1>same. ASSUME UNCHANGED <<registers, stack, results>> PROVE ResultsOK'
  <2>1. \A l : ValueAt(l)' = ValueAt(l)
    BY <1>same DEF ValueAt
  <2> QED BY <1>t, <1>same, <2>1 DEF ResultsOK, NamesObject
<1>1. CASE Reset
  <2>1. /\ \A a \in Addresses : seen'[a] = NotSeen
        /\ \A p \in 0 .. MaxLength - 1 : state'[p] # "filling"
        /\ UNCHANGED <<registers, stack, results, relevant, described>>
    <3>1. 1 \in 0 .. LastOfPass2 + 1
      BY CallOrder
    <3> QED BY <1>1, <3>1, BeginType DEF Reset, dataVars
  <2>2. SeenOK'
    BY <2>1, HarmlessTexts, NotSeenType DEF SeenOK
  <2>3. DescribedOK'
    <3>1. call = 0
      BY <1>1 DEF Reset
    <3> QED BY <2>1, <3>1 DEF TableInv, DescribedOK
  <2>4. FillingOK'
    BY <2>1 DEF FillingOK
  <2>5. RelevantOK'
    BY <1>t, <2>1 DEF RelevantOK
  <2> QED BY <1>t, <1>same, <2>1, <2>2, <2>3, <2>4, <2>5 DEF TableInv
<1>2. ASSUME NEW p \in 0 .. MaxLength - 1, Meet(p) PROVE TableInv'
  <2> DEFINE v == Value(call, p)
             a == ObjectOf(v)
  <2>0. call \in Calls /\ p \in Positions(call)
    BY <1>2 DEF Meet, Todo, Working
  <2>1. call \in Calls /\ p \in Positions(call) /\ call # 0
    BY <2>0, CallNotZero
  <2>2. a \in Addresses /\ UNCHANGED <<registers, stack, call, relevant>> /\ UNCHANGED dataVars
    BY <1>2 DEF Meet, Addresses, Objects, dataVars
  <2>3. CASE seen[a] = NotSeen
    <3> DEFINE e == Entry(p, Reserved, TRUE)
    <3>1. /\ seen' = [seen EXCEPT ![a] = e]
          /\ state' = [state EXCEPT ![p] = "filling"]
          /\ described' = [described EXCEPT ![a] = @ + 1]
          /\ UNCHANGED results
      BY <1>2, <2>3 DEF Meet
    <3>2. /\ e.text.kind # "see" /\ ~e.text.old /\ e # NotSeen
          /\ e.label \in Labels /\ ObjectOf(ValueAt(e.label)) = a
      BY <2>1, EntryOK, HarmlessTexts
    <3>3. \A q \in 0 .. MaxLength - 1 :
            state'[q] = "filling" => state[q] = "filling" \/ ObjectOf(Value(call, q)) = a
      BY <3>1, <1>t DEF TypeOK
    <3>4. ResultsOK'
      BY <1>same, <2>2, <3>1
    <3> HIDE DEF a, e
    <3> QED BY <1>t, <2>1, <2>2, <2>3, <3>1, <3>2, <3>3, <3>4, TableChanged
  <2>4. CASE seen[a] # NotSeen
    <3>1. Printed(p, Again(v, p)) /\ UNCHANGED <<seen, described>>
      BY <1>2, <2>4 DEF Meet
    <3>2. ~Again(v, p).old /\ NamesObject(Again(v, p))
      BY <2>1, <2>2, <2>4, AgainOK
    <3>3. ResultsOK'
      BY <1>t, <2>1, <2>2, <3>1, <3>2, PrintedOK
    <3>4. \A q \in 0 .. MaxLength - 1 : state'[q] = "filling" => state[q] = "filling"
      BY <1>t, <3>1, PrintedState
    <3> QED BY <1>t, <2>2, <3>1, <3>3, <3>4, TableAlone
  <2> QED BY <2>3, <2>4
<1>3. ASSUME NEW p \in 0 .. MaxLength - 1, Complete(p) PROVE TableInv'
  <2> DEFINE v == Value(call, p)
             a == ObjectOf(v)
             e == [seen[a] EXCEPT !.text = Full(v), !.game = GameRelevant(a)]
  <2>1. /\ call \in Calls /\ p \in Positions(call) /\ call # 0
        /\ state[p] = "filling"
    BY <1>3, CallOrder DEF Complete, Working
  <2>2. a \in Addresses /\ seen[a] # NotSeen
    BY <2>1 DEF TableInv, FillingOK
  <2>3. /\ seen' = [seen EXCEPT ![a] = e]
        /\ Printed(p, Full(v))
        /\ UNCHANGED <<registers, stack, call, relevant, described>> /\ UNCHANGED dataVars
    BY <1>3 DEF Complete, dataVars
  <2>4. seen[a].label \in Labels /\ ObjectOf(ValueAt(seen[a].label)) = a
    BY <2>1, <2>2 DEF TableInv, SeenOK
  <2>5. seen[a] \in Entries
    BY <1>t, <2>2, TypeOKSplit
  <2>6. e.text = Full(v) /\ e.label = seen[a].label
    BY <2>5 DEF Entries
  <2>7. e # NotSeen
    BY <2>4, <2>6, NoLabelIsNone, NotSeenType
  <2>8. e.text.kind # "see" /\ ~e.text.old
    BY <2>6, HarmlessTexts
  <2>9. ResultsOK'
    BY <1>t, <2>1, <2>3, PrintedOK, HarmlessTexts
  <2>10. \A q \in 0 .. MaxLength - 1 : state'[q] = "filling" => state[q] = "filling"
    BY <1>t, <2>3, PrintedState
  <2> HIDE DEF a, e
  <2> QED BY <1>t, <2>1, <2>2, <2>3, <2>4, <2>6, <2>7, <2>8, <2>9, <2>10, TableChanged
<1>4. ASSUME NEW p \in 0 .. MaxLength - 1, MeetForeign(p) PROVE TableInv'
  <2> DEFINE a == Value(call, p)
  <2>0. call \in Calls /\ p \in Positions(call)
    BY <1>4 DEF MeetForeign, Todo, Working
  <2>1. call \in Calls /\ p \in Positions(call) /\ call # 0
    BY <2>0, CallNotZero
  <2>2. /\ a \in Addresses /\ ObjectOf(a) = a
        /\ UNCHANGED <<registers, stack, call, relevant, described>> /\ UNCHANGED dataVars
    BY <1>4, AddressObject DEF MeetForeign, Addresses, Objects, dataVars
  <2>3. CASE seen[a] = NotSeen
    <3> DEFINE e == Entry(p, Full(a), GameRelevant(a))
    <3>1. seen' = [seen EXCEPT ![a] = e] /\ Printed(p, Full(a))
      BY <1>4, <2>3 DEF MeetForeign
    <3>2. /\ e.text.kind # "see" /\ ~e.text.old /\ e # NotSeen
          /\ e.label \in Labels /\ ObjectOf(ValueAt(e.label)) = a
      BY <2>1, <2>2, EntryOK, HarmlessTexts
    <3>3. \A q \in 0 .. MaxLength - 1 : state'[q] = "filling" => state[q] = "filling"
      BY <1>t, <3>1, PrintedState
    <3>4. ResultsOK'
      BY <1>t, <2>1, <2>2, <3>1, PrintedOK, HarmlessTexts
    <3> HIDE DEF a, e
    <3> QED BY <1>t, <2>1, <2>2, <3>1, <3>2, <3>3, <3>4, TableChanged
  <2>4. CASE seen[a] # NotSeen
    <3>1. Printed(p, Again(a, p)) /\ UNCHANGED seen
      BY <1>4, <2>4 DEF MeetForeign
    <3>2. ~Again(a, p).old /\ NamesObject(Again(a, p))
      BY <2>1, <2>2, <2>4, AgainOK
    <3>3. ResultsOK'
      BY <1>t, <2>1, <2>2, <3>1, <3>2, PrintedOK
    <3>4. \A q \in 0 .. MaxLength - 1 : state'[q] = "filling" => state[q] = "filling"
      BY <1>t, <3>1, PrintedState
    <3> QED BY <1>t, <2>2, <3>1, <3>3, <3>4, TableAlone
  <2> QED BY <2>3, <2>4
<1>5. ASSUME NEW p \in 0 .. MaxLength - 1, MeetPointer(p) PROVE TableInv'
  <2> DEFINE a == Value(call, p)
  <2>0. call \in Calls /\ p \in Positions(call)
    BY <1>5 DEF MeetPointer, Todo, Working
  <2>1. call \in Calls /\ p \in Positions(call) /\ call # 0
    BY <2>0, CallNotZero
  <2>2. /\ a \in Addresses
        /\ UNCHANGED <<registers, stack, seen, call, relevant, described>> /\ UNCHANGED dataVars
    BY <1>5 DEF MeetPointer, Addresses, dataVars
  <2>3. CASE seen[a] # NotSeen
    <3>1. Printed(p, seen[a].text)
      BY <1>5, <2>3 DEF MeetPointer
    <3>2. ~seen[a].text.old /\ NamesObject(seen[a].text)
      BY <2>1, <2>2 DEF TableInv, SeenOK, NamesObject
    <3>3. ResultsOK'
      BY <1>t, <2>1, <2>2, <3>1, <3>2, PrintedOK
    <3>4. \A q \in 0 .. MaxLength - 1 : state'[q] = "filling" => state[q] = "filling"
      BY <1>t, <3>1, PrintedState
    <3> QED BY <1>t, <2>2, <3>3, <3>4, TableAlone
  <2>4. CASE seen[a] = NotSeen
    <3>1. state' = [state EXCEPT ![p] = "filling pointer"] /\ UNCHANGED results
      BY <1>5, <2>4 DEF MeetPointer
    <3>2. \A q \in 0 .. MaxLength - 1 : state'[q] = "filling" => state[q] = "filling"
      BY <1>t, <3>1 DEF TypeOK
    <3>3. ResultsOK'
      BY <1>same, <2>2, <3>1
    <3> QED BY <1>t, <2>2, <3>2, <3>3, TableAlone
  <2> QED BY <2>3, <2>4
<1>6. ASSUME NEW p \in 0 .. MaxLength - 1, StorePointer(p) PROVE TableInv'
  <2> DEFINE a == Value(call, p)
             e == Entry(p, Void, FALSE)
  <2>0. call \in Calls /\ p \in Positions(call)
    BY <1>6 DEF StorePointer, Working
  <2>1. call \in Calls /\ p \in Positions(call) /\ call # 0
    BY <2>0, CallNotZero
  <2>2. /\ Printed(p, Void)
        /\ UNCHANGED <<registers, stack, call, relevant, described>> /\ UNCHANGED dataVars
    BY <1>6 DEF StorePointer, dataVars
  <2>3. ResultsOK'
    BY <1>t, <2>1, <2>2, PrintedOK, HarmlessTexts
  <2>4. \A q \in 0 .. MaxLength - 1 : state'[q] = "filling" => state[q] = "filling"
    BY <1>t, <2>2, PrintedState
  <2>5. CASE a \in Addresses /\ seen[a] = NotSeen
    <3>1. seen' = [seen EXCEPT ![a] = e]
      BY <1>6, <2>5 DEF StorePointer
    <3>2. ObjectOf(a) = a
      BY <2>5, AddressObject
    <3>3. /\ e.text.kind # "see" /\ ~e.text.old /\ e # NotSeen
          /\ e.label \in Labels /\ ObjectOf(ValueAt(e.label)) = a
      <4>1. PICK f : f = e
        OBVIOUS
      <4>2. Void.kind # "see" /\ ~Void.old
        BY HarmlessTexts
      <4>3. f.text.kind # "see" /\ ~f.text.old /\ f # NotSeen
            /\ f.label \in Labels /\ ObjectOf(ValueAt(f.label)) = a
        BY <2>1, <3>2, <4>1, <4>2, EntryOK
      <4> QED BY <4>1, <4>3
    <3> HIDE DEF a, e
    <3> QED BY <1>t, <2>1, <2>2, <2>3, <2>4, <2>5, <3>1, <3>3, TableChanged
  <2>6. CASE ~(a \in Addresses /\ seen[a] = NotSeen)
    <3>1. UNCHANGED seen
      <4>1. CASE seen[a] # NotSeen
        BY <1>6, <4>1 DEF StorePointer
      <4>2. CASE a \notin Addresses
        <5>1. seen' = seen \/ seen' = [seen EXCEPT ![a] = e]
          BY <1>6 DEF StorePointer
        <5>2. seen \in [Addresses -> Entries]
          BY <1>t, TypeOKSplit
        <5> HIDE DEF a, e
        <5> QED BY <4>2, <5>1, <5>2
      <4> QED BY <2>6, <4>1, <4>2
    <3> QED BY <1>t, <2>2, <2>3, <2>4, <3>1, TableAlone
  <2> QED BY <2>5, <2>6
<1>7. ASSUME NEW p \in 0 .. MaxLength - 1, MeetPlain(p) PROVE TableInv'
  <2>1. call \in Calls /\ p \in Positions(call)
    BY <1>7 DEF MeetPlain, Todo, Working
  <2>2. PICK text \in {Void, Plain} : Printed(p, text)
    BY <1>7 DEF MeetPlain
  <2>3. UNCHANGED <<registers, stack, seen, call, relevant, described>> /\ UNCHANGED dataVars
    BY <1>7 DEF MeetPlain, dataVars
  <2>4. ResultsOK'
    BY <1>t, <2>1, <2>2, <2>3, PrintedOK, HarmlessTexts
  <2>5. \A q \in 0 .. MaxLength - 1 : state'[q] = "filling" => state[q] = "filling"
    BY <1>t, <2>2, PrintedState
  <2> QED BY <1>t, <2>3, <2>4, <2>5, TableAlone
<1>back. ASSUME NEW cs, results' = Backfilled(cs), UNCHANGED <<registers, stack>>,
                call # 0
         PROVE ResultsOK'
  <2>1. \A l : ValueAt(l)' = ValueAt(l)
    BY <1>back DEF ValueAt
  <2>2. \A c \in Calls : \A p \in Positions(c) :
          ~results'[c][p].old /\ NamesObject(results'[c][p])
    BY <1>back, BackfilledOK
  <2> QED BY <2>1, <2>2 DEF ResultsOK, NamesObject
<1>8. CASE RegistersDone
  <2>1. /\ call \in Calls /\ call # 0
        /\ call + 1 \in 1 .. LastOfPass2 + 1
        /\ 1 \in Calls
    BY <1>8, CallOrder DEF RegistersDone, AllDone, Working
  <2>2. /\ results' = Backfilled({call}) /\ Begin(call + 1)
        /\ UNCHANGED <<registers, stack, seen, described>>
        /\ UNCHANGED relevant \/ relevant' = Collected({1}, results')
    BY <1>8 DEF RegistersDone, dataVars
  <2>3. ResultsOK'
    BY <1>back, <2>1, <2>2
  <2>4. RelevantOK'
    <3> DEFINE r == results'
    <3>1. \A c \in Calls : \A p \in Positions(c) : ~r[c][p].old
      BY <2>3 DEF ResultsOK
    <3>2. {1} \subseteq Calls
      BY <2>1
    <3> HIDE DEF r
    <3>3. \A v \in Values : ~Collected({1}, r)[v].text.old
      BY <1>t, <3>1, <3>2, CollectedOK
    <3> QED BY <1>t, <2>2, <3>3 DEF r, RelevantOK
  <2> QED BY <1>t, <2>1, <2>2, <2>3, <2>4, TableBegin
<1>9. CASE BlockDone
  <2>1. call # 0 /\ call + 1 \in 1 .. LastOfPass2 + 1
    BY <1>9, CallOrder DEF BlockDone, AllDone, Working
  <2>2. /\ Begin(call + 1)
        /\ UNCHANGED <<registers, stack, seen, results, relevant, described>>
    BY <1>9 DEF BlockDone, dataVars
  <2>3. ResultsOK' /\ RelevantOK'
    BY <1>t, <1>same, <2>2 DEF RelevantOK
  <2> QED BY <1>t, <2>1, <2>2, <2>3, TableBegin
<1>10. CASE Pass1Done
  <2>1. /\ call # 0 /\ RegsOfPass2 \in 1 .. LastOfPass2 + 1
        /\ 2 .. LastOfPass1 \subseteq Calls
    BY <1>10, CallOrder DEF Pass1Done, AllDone, Working
  <2>2. /\ results' = Backfilled(2 .. LastOfPass1) /\ Begin(RegsOfPass2)
        /\ UNCHANGED <<registers, stack, seen, described>>
        /\ relevant' = Collected(2 .. LastOfPass1, results')
    BY <1>10 DEF Pass1Done, dataVars
  <2>3. ResultsOK'
    BY <1>back, <2>1, <2>2
  <2>4. RelevantOK'
    <3> DEFINE r == results'
    <3>1. \A c \in Calls : \A p \in Positions(c) : ~r[c][p].old
      BY <2>3 DEF ResultsOK
    <3> HIDE DEF r
    <3>2. \A v \in Values : ~Collected(2 .. LastOfPass1, r)[v].text.old
      BY <1>t, <2>1, <3>1, CollectedOK
    <3> QED BY <2>2, <3>2 DEF r, RelevantOK
  <2> QED BY <1>t, <2>1, <2>2, <2>3, <2>4, TableBegin
<1>11. CASE Pass1Fails
  <2>1. call # 0 /\ RegsOfPass2 \in 1 .. LastOfPass2 + 1
    BY <1>11, CallOrder DEF Pass1Fails
  <2>2. /\ Begin(RegsOfPass2)
        /\ UNCHANGED <<registers, stack, seen, results, relevant, described>>
    BY <1>11 DEF Pass1Fails, dataVars
  <2>3. ResultsOK' /\ RelevantOK'
    BY <1>t, <1>same, <2>2 DEF RelevantOK
  <2> QED BY <1>t, <2>1, <2>2, <2>3, TableBegin
<1>12. CASE Pass2Done
  <2>1. call # 0 /\ LastOfPass2 + 1 \in 1 .. LastOfPass2 + 1
    BY <1>12, CallOrder DEF Pass2Done, AllDone, Working
  <2>2. /\ results' = Backfilled(RegsOfPass2 .. LastOfPass2) /\ Begin(LastOfPass2 + 1)
        /\ UNCHANGED <<registers, stack, seen, relevant, described>>
    BY <1>12 DEF Pass2Done, dataVars
  <2>3. ResultsOK' /\ RelevantOK'
    BY <1>t, <1>back, <2>1, <2>2 DEF RelevantOK
  <2> QED BY <1>t, <2>1, <2>2, <2>3, TableBegin
<1>13. CASE GameChanges
  <2>1. UNCHANGED <<registers, stack, seen, call, relevant, described, state, results>>
    BY <1>13 DEF GameChanges, dataVars
  <2> QED BY <1>t, <1>same, <2>1, TableAlone
<1>14. CASE UNCHANGED vars
  <2>1. UNCHANGED <<registers, stack, seen, call, relevant, described, state, results>>
    BY <1>14 DEF vars, dataVars
  <2> QED BY <1>t, <1>same, <2>1, TableAlone
<1> QED BY <1>1, <1>2, <1>3, <1>4, <1>5, <1>6, <1>7, <1>8, <1>9, <1>10, <1>11,
           <1>12, <1>13, <1>14 DEF Next, Analyse

\* The inductive invariant: the table leads to its objects, and what is printed
\* is taken from it.
THEOREM TableInvariant == Spec => []TableInv
BY TableInit, TableNext, PTL DEF Spec

\* However many workers meet an object at once, and in both passes, its filters
\* start once.
THEOREM FiltersRunOnce == Spec => []DescribedOnce
<1>1. TableInv => DescribedOnce
  BY DEF TableInv, DescribedOK, DescribedOnce
<1> QED BY <1>1, TableInvariant, PTL

\* Nothing from before the crash is told of it, for any table left behind.
THEOREM NothingOldIsTold == Spec => []NothingOld
<1>1. TableInv => NothingOld
  BY DEF TableInv, ResultsOK, RelevantOK, NothingOld
<1> QED BY <1>1, TableInvariant, PTL

\* For any sizes of blocks and any order of the workers, a reference names a
\* place that refers to the object.
THEOREM ReferencesAreRight == Spec => []ReferencesNameTheObject
<1>1. TableInv => ReferencesNameTheObject
  BY DEF TableInv, ResultsOK, NamesObject, ReferencesNameTheObject
<1> QED BY <1>1, TableInvariant, PTL

\* However many workers and objects there are, a description is made once and in
\* this crash.
THEOREM DescriptionsAreRight == Spec => []DescriptionsRight
<1>1. DescribedOnce /\ NothingOld => DescriptionsRight
  BY DEF DescriptionsRight
<1>2. QED
  BY <1>1, FiltersRunOnce, NothingOldIsTold, PTL

-----------------------------------------------------------------------------
(* What the printed report rests on                                         *)

\* The labels of the registers and of the first block that is printed: the places
\* whose position is the same in both passes.
Near(label) == label[1] = "reg" \/ label[2] < Block2

\* The object that the value at a position leads to.
ObjectAt(c, p) == ObjectOf(Value(c, p))

\* The entry of an object of the game is reserved or describes it, that of another
\* object describes it, and that of an address in a module is a mere pointer.
EntryPlaced(a, e) ==
  /\ a \in Game => e.text.kind \in {"empty", "full"}
  /\ a \in Foreign => e.text.kind = "full"
  /\ a \in InModule => e.text.kind = "void"
  /\ e.text.kind = "full" => ObjectOf(e.text.of) = a
  /\ Near(e.label) => e.pos = e.label[2]

\* Where there is more than a reservation the flag says whether the object counts.
FlagRight(a, e) ==
  /\ e.text.kind = "full" => (e.game <=> GameRelevant(a))
  /\ e.text.kind = "void" => ~e.game

EntryRight(a, e) == EntryPlaced(a, e) /\ FlagRight(a, e)

EntriesRight == call # 0 => \A a \in Addresses : seen[a] # NotSeen => EntryRight(a, seen[a])

\* A worker is inside the filters of the object of every reserved entry.
ReservedRight ==
  call # 0 =>
    \A a \in Addresses : seen[a].text.kind = "empty" =>
      /\ call \in Calls /\ seen[a].pos \in Positions(call)
      /\ state[seen[a].pos] = "filling" /\ ObjectAt(call, seen[a].pos) = a

\* The text is told where the position has the very value it was made from.
ToldAt(c, p, text) ==
  /\ p \in Positions(c)
  /\ results[c][p].kind = "full" /\ Value(c, p) = text.of

\* A description in the table is told at its position, in a call that has begun.
EntriesTold ==
  call # 0 =>
    \A a \in Addresses : seen[a].text.kind = "full" =>
      \E c \in Calls : c <= call /\ ToldAt(c, seen[a].pos, seen[a].text)

\* Workers are busy with positions of the call, inside the filters with an object of
\* the game whose entry they have made, at the symbols with an address in a module.
WorkersRight ==
  \A p \in 0 .. MaxLength - 1 :
    /\ state[p] # "done" => call \in Calls /\ p \in Positions(call)
    /\ state[p] = "filling" => ObjectAt(call, p) \in Game /\ seen[ObjectAt(call, p)].pos = p
    /\ state[p] = "filling pointer" => Value(call, p) \in InModule

\* A description is of the object of its position, a mere pointer is at an address,
\* and a reference leads to the entry of the object; in the first two calls of the
\* second pass it leads to another place.
TextRight(c, p, text, e) ==
  /\ text.kind # "empty"
  /\ text.kind = "void" => Value(c, p) \in Addresses
  /\ text.kind \in {"full", "see"} =>
       ObjectOf(text.of) = ObjectAt(c, p) /\ ObjectAt(c, p) \in Objects /\ e # NotSeen
  /\ text.kind = "see" =>
       /\ text.label = e.label
       /\ c \in {RegsOfPass2, RegsOfPass2 + 1} => text.label # LabelOf(c, p)

ResultsRight ==
  \A c \in Calls : \A p \in Positions(c) : TextRight(c, p, results[c][p], seen[ObjectAt(c, p)])

\* A form is described from its own id, or as it was where the position had the value
\* that the description was made from.
FormsTold ==
  \A c \in Calls : \A p \in Positions(c) :
    results[c][p].kind = "full" /\ Value(c, p) \in Forms =>
      \E d \in Calls : d <= c /\ ToldAt(d, p, results[c][p])

\* Nothing is printed before a worker is done, and something is when it is; calls of
\* the first pass may have been left out once it is over.
PrintedRight ==
  \A c \in Calls : \A p \in Positions(c) :
    /\ call < c \/ (c = call /\ state[p] # "done") => results[c][p].kind = "none"
    /\ (c < call \/ (c = call /\ state[p] = "done")) /\ (call <= LastOfPass1 \/ RegsOfPass2 <= c) =>
         results[c][p].kind # "none"

\* While memory does not change the objects in the table exist, and an object that
\* exists is described or referred to.
GameStays ==
  changes = 0 /\ call # 0 =>
    /\ \A a \in Objects : seen[a] # NotSeen => a \in alive
    /\ \A c \in Calls : \A p \in Positions(c) :
         Value(c, p) \in Objects \cap alive => results[c][p].kind \in {"full", "see", "none"}

\* The registers are collected before the stack; a relevant value is that of a form or
\* of an object that counts, a relevant form is described, and so is, as long as memory
\* does not change, a relevant object.
CollectedRight ==
  /\ \A c \in collected : c < call /\ c <= LastOfPass1
  /\ call \in 2 .. LastOfPass1 => 1 \in collected
  /\ call <= LastOfPass1 => \A v \in Values : relevant[v] # NotRelevant => relevant[v].distance = 0
  /\ \A v \in Values : relevant[v] # NotRelevant => v \in Forms \/ GameRelevant(v)
  /\ \A v \in Forms : relevant[v] # NotRelevant => Described(ObjectOf(v), relevant[v].text)
  /\ changes = 0 => \A v \in Objects : relevant[v] # NotRelevant => Described(v, relevant[v].text)

TellingInv ==
  /\ EntriesRight
  /\ ReservedRight
  /\ EntriesTold
  /\ WorkersRight
  /\ ResultsRight
  /\ FormsTold
  /\ PrintedRight
  /\ GameStays

\* Everything together.
PrintInv == TableInv /\ TellingInv /\ CollectedRight

\* A pass over the stack has at least one block.
LEMMA BlocksPositive ==
  ASSUME NEW size \in Nat \ {0}
  PROVE Blocks(size) >= 1
<1>1. StackSize + size - 1 \in Nat /\ StackSize + size - 1 >= size
  OBVIOUS
<1>2. ASSUME NEW n \in Nat, n >= size PROVE n \div size >= 1
  BY <1>2
<1>3. QED
  BY <1>1, <1>2 DEF Blocks

\* The first pass ends on the stack, and so does the second.
LEMMA PassesEnd ==
  /\ 2 <= LastOfPass1 /\ RegsOfPass2 < LastOfPass2
  /\ LastOfPass1 \notin RegisterCalls /\ LastOfPass2 \notin RegisterCalls
  /\ RegsOfPass2 \in Calls /\ RegsOfPass2 + 1 \in Calls
<1>1. Blocks(Block1) \in Nat /\ Blocks(Block2) \in Nat /\ Blocks(Block1) >= 1 /\ Blocks(Block2) >= 1
  BY BlocksNat, BlocksPositive
<1>2. 2 <= LastOfPass1 /\ RegsOfPass2 < LastOfPass2
  BY <1>1 DEF LastOfPass1, RegsOfPass2, LastOfPass2
<1>3. QED
  BY <1>2, CallOrder DEF RegisterCalls

\* Near labels have the position as their number.
LEMMA NearLabel ==
  ASSUME NEW c \in Calls, NEW p \in Positions(c)
  PROVE  /\ Near(LabelOf(c, p)) => LabelOf(c, p)[2] = p
         /\ c \in {RegsOfPass2, RegsOfPass2 + 1} => Near(LabelOf(c, p))
<1>1. CASE c \in RegisterCalls
  BY <1>1 DEF LabelOf, Near
<1>2. CASE c \notin RegisterCalls
  <2>1. PICK k \in Nat, size \in {Block1, Block2} :
          Offset(c) = k * size /\ Length(c) = BlockLength(k, size)
    BY <1>2, StackCall
  <2>2. /\ LabelOf(c, p)[1] = "rsp" /\ LabelOf(c, p)[2] = Offset(c) + p
        /\ "rsp" # "reg"
    BY <1>2 DEF LabelOf
  <2>3. p \in Nat /\ p \in 0 .. BlockLength(k, size) - 1 /\ size \in Nat \ {0} /\ Block2 <= size
    BY <2>1 DEF Positions
  <2>4. k * size \in Nat /\ (k # 0 => k * size >= size) /\ (k = 0 => k * size = 0)
    BY <2>3
  <2>5. Near(LabelOf(c, p)) => LabelOf(c, p)[2] = p
    BY <2>1, <2>2, <2>3, <2>4 DEF Near
  <2>6. ASSUME c \in {RegsOfPass2, RegsOfPass2 + 1} PROVE Near(LabelOf(c, p))
    <3>1. c = RegsOfPass2 + 1
      BY <1>2, <2>6 DEF RegisterCalls
    <3>2. Offset(c) = 0 * Block2 /\ Length(c) = BlockLength(0, Block2)
      BY <1>2, <3>1, CallOrder DEF Offset, Length
    <3>3. p \in 0 .. BlockLength(0, Block2) - 1
      BY <3>2 DEF Positions
    <3>4. p < Block2
      BY <3>3, InBlock
    <3>5. QED
      BY <2>2, <2>3, <3>2, <3>4 DEF Near
  <2>7. QED
    BY <2>5, <2>6
<1>3. QED
  BY <1>1, <1>2

\* A worker takes a step with its position p and the object of its value, which leaves
\* the position in the state s with the text, and the table with the entry e.
Steps(p, s, text, e) ==
  /\ call \in Calls /\ p \in Positions(call) /\ state[p] # "done"
  /\ UNCHANGED <<registers, stack, alive, changes, call>>
  /\ \A b \in Addresses : seen'[b] = IF b = ObjectAt(call, p) THEN e ELSE seen[b]
  /\ \A c \in Calls : \A q \in Positions(c) :
       results'[c][q] = IF c = call /\ q = p THEN text ELSE results[c][q]
  /\ \A q \in 0 .. MaxLength - 1 : state'[q] = IF q = p THEN s ELSE state[q]

\* The entry is right, keeps its place, and is reserved or told by the step if it is new.
EntryKept(p, s, text, e, a) ==
  a \in Addresses =>
    /\ e # NotSeen => EntryRight(a, e)
    /\ seen[a] # NotSeen => e # NotSeen /\ e.label = seen[a].label /\ e.pos = seen[a].pos
    /\ e.text.kind = "empty" => (s = "filling" /\ e.pos = p) \/ (e = seen[a] /\ state[p] = "todo")
    /\ e.text.kind = "full" =>
         e = seen[a] \/ (e.pos = p /\ text.kind = "full" /\ Value(call, p) = e.text.of)

\* The worker is done if and only if something is printed, and the entry of the object
\* whose filters it enters is its own.
StateKept(p, s, text, e) ==
  /\ s = "filling" => ObjectAt(call, p) \in Game /\ e.pos = p
  /\ s = "filling pointer" => Value(call, p) \in InModule
  /\ s = "done" <=> text.kind # "none"

\* The text is right, and while memory does not change the object exists.
TextKept(p, text, e) ==
  /\ TextRight(call, p, text, e)
  /\ text.kind = "full" /\ Value(call, p) \in Forms =>
       text.of = Value(call, p) \/ \E d \in Calls : d <= call /\ ToldAt(d, p, text)
  /\ changes = 0 =>
       /\ ObjectAt(call, p) \in Objects /\ e # NotSeen =>
            ObjectAt(call, p) \in alive \/ seen[ObjectAt(call, p)] # NotSeen
       /\ Value(call, p) \in Objects \cap alive => text.kind \in {"full", "see", "none"}

\* Such a step keeps what the report rests on.
LEMMA ElementKeeps ==
  ASSUME PrintInv, NEW p, NEW s, NEW text, NEW e, Steps(p, s, text, e),
         EntryKept(p, s, text, e, ObjectAt(call, p)), StateKept(p, s, text, e), TextKept(p, text, e)
  PROVE  TellingInv'
<1> DEFINE Told(c, q, t) == q \in Positions(c) /\ results'[c][q].kind = "full" /\ Value(c, q) = t.of
<1>a. PICK a : a = ObjectAt(call, p)
  OBVIOUS
<1>s. /\ call \in Calls /\ p \in Positions(call) /\ state[p] # "done"
      /\ UNCHANGED <<registers, stack>>
  BY DEF Steps
<1>seen. \A b \in Addresses : seen'[b] = IF b = a THEN e ELSE seen[b]
  BY <1>a DEF Steps
<1>results. \A c \in Calls : \A q \in Positions(c) :
              results'[c][q] = IF c = call /\ q = p THEN text ELSE results[c][q]
  BY DEF Steps
<1>state. \A q \in 0 .. MaxLength - 1 : state'[q] = IF q = p THEN s ELSE state[q]
  BY DEF Steps
<1>1. /\ \A c, q : Value(c, q)' = Value(c, q) /\ ObjectAt(c, q)' = ObjectAt(c, q)
      /\ \A v : ObjectOf(v)' = ObjectOf(v)
  BY <1>s DEF Value, ObjectAt, ObjectOf
<1>2. call # 0 /\ p \in 0 .. MaxLength - 1 /\ call' = call /\ alive' = alive /\ changes' = changes
  BY <1>s, CallNotZero, MaxLengthBounds DEF Steps
<1>0. call \in Nat /\ call <= call /\ ~(call < call)
  <2>1. \A c \in Calls : c \in Nat
    BY CallOrder
  <2>2. call \in Nat
    BY <1>s, <2>1
  <2>3. QED
    BY <2>2
<1>3. results[call][p].kind = "none"
  BY <1>s DEF PrintInv, TellingInv, PrintedRight
<1>4. ASSUME NEW c \in Calls, NEW q, NEW t, ToldAt(c, q, t) PROVE Told(c, q, t)
  <2>1. q \in Positions(c) /\ results[c][q].kind = "full" /\ Value(c, q) = t.of
    BY <1>4 DEF ToldAt
  <2>2. results'[c][q].kind = "full"
    BY <1>3, <1>results, <2>1
  <2>3. QED
    BY <2>1, <2>2
<1>5. EntriesRight'
  <2>1. ASSUME NEW b \in Addresses, seen'[b] # NotSeen PROVE EntryRight(b, seen'[b])
    BY <1>a, <1>2, <1>seen, <2>1 DEF PrintInv, TellingInv, EntriesRight, EntryKept
  <2>2. QED
    BY <2>1 DEF EntriesRight, EntryRight, EntryPlaced, FlagRight, Near, ObjectOf
<1>6. ReservedRight'
  <2>1. ASSUME NEW b \in Addresses, seen'[b].text.kind = "empty"
        PROVE  /\ seen'[b].pos \in Positions(call)
               /\ state'[seen'[b].pos] = "filling" /\ ObjectAt(call, seen'[b].pos) = b
    <3>1. seen[b].text.kind = "empty" =>
            /\ seen[b].pos \in Positions(call) /\ seen[b].pos \in 0 .. MaxLength - 1
            /\ state[seen[b].pos] = "filling" /\ ObjectAt(call, seen[b].pos) = b
      BY <1>2, MaxLengthBounds DEF PrintInv, TellingInv, ReservedRight
    <3>0. b = a => (s = "filling" /\ e.pos = p) \/ (e = seen[a] /\ state[p] = "todo")
      BY <1>a, <1>seen, <2>1 DEF EntryKept
    <3>2. CASE b = a /\ s = "filling" /\ e.pos = p
      BY <1>a, <1>s, <1>2, <1>seen, <1>state, <3>2
    <3>3. CASE b = a /\ e = seen[a] /\ state[p] = "todo"
      <4>1. seen'[b] = seen[b] /\ seen[b].pos # p
        BY <1>seen, <2>1, <3>1, <3>3
      <4>2. QED
        BY <1>state, <2>1, <3>1, <4>1
    <3>4. CASE b # a
      <4>1. seen'[b] = seen[b] /\ seen[b].pos # p
        BY <1>a, <1>seen, <2>1, <3>1, <3>4
      <4>2. QED
        BY <1>state, <2>1, <3>1, <4>1
    <3>5. QED
      BY <3>0, <3>2, <3>3, <3>4
  <2>2. QED
    BY <1>s, <1>1, <1>2, <2>1 DEF ReservedRight
<1>7. EntriesTold'
  <2>1. ASSUME NEW b \in Addresses, seen'[b].text.kind = "full"
        PROVE  \E c \in Calls : c <= call /\ Told(c, seen'[b].pos, seen'[b].text)
    <3>1. CASE seen'[b] = seen[b]
      <4>1. PICK c \in Calls : c <= call /\ ToldAt(c, seen[b].pos, seen[b].text)
        BY <1>2, <2>1, <3>1 DEF PrintInv, TellingInv, EntriesTold
      <4>2. Told(c, seen[b].pos, seen[b].text)
        BY <1>4, <4>1
      <4>3. QED
        BY <3>1, <4>1, <4>2
    <3>2. CASE seen'[b] # seen[b]
      <4>1. b = a /\ seen'[b] = e /\ e.pos = p /\ text.kind = "full" /\ Value(call, p) = e.text.of
        BY <1>a, <1>seen, <2>1, <3>2 DEF EntryKept
      <4>2. Told(call, seen'[b].pos, seen'[b].text)
        BY <1>s, <1>results, <4>1
      <4>3. QED
        BY <1>s, <1>0, <4>2
    <3>3. QED
      BY <3>1, <3>2
  <2>2. QED
    BY <1>1, <1>2, <2>1 DEF EntriesTold, ToldAt
<1>8. WorkersRight'
  <2>1. ASSUME NEW q \in 0 .. MaxLength - 1
        PROVE  /\ state'[q] # "done" => q \in Positions(call)
               /\ state'[q] = "filling" => ObjectAt(call, q) \in Game /\ seen'[ObjectAt(call, q)].pos = q
               /\ state'[q] = "filling pointer" => Value(call, q) \in InModule
    <3>1. CASE q = p
      <4>1. \A b \in Game : b \in Addresses
        BY DEF Addresses, Objects
      <4>2. QED
        BY <1>a, <1>s, <1>seen, <1>state, <3>1, <4>1 DEF StateKept
    <3>2. CASE q # p
      <4>1. /\ state'[q] = state[q]
            /\ state[q] # "done" => q \in Positions(call)
            /\ state[q] = "filling" => ObjectAt(call, q) \in Game /\ seen[ObjectAt(call, q)].pos = q
            /\ state[q] = "filling pointer" => Value(call, q) \in InModule
        BY <1>state, <3>2 DEF PrintInv, TellingInv, WorkersRight
      <4>2. ASSUME state[q] = "filling" PROVE seen'[ObjectAt(call, q)].pos = q
        <5>1. PICK b \in Addresses : b = ObjectAt(call, q) /\ seen[b] # NotSeen
          BY <4>2 DEF PrintInv, TableInv, FillingOK, ObjectAt
        <5>2. seen[b].pos = q
          BY <4>1, <4>2, <5>1
        <5>3. seen'[b].pos = q
          BY <1>a, <1>seen, <5>1, <5>2 DEF EntryKept
        <5>4. QED
          BY <5>1, <5>3
      <4>3. QED
        BY <4>1, <4>2
    <3>3. QED
      BY <3>1, <3>2
  <2>2. QED
    BY <1>s, <1>1, <1>2, <2>1 DEF WorkersRight
<1>9. ResultsRight'
  <2>1. ASSUME NEW c \in Calls, NEW q \in Positions(c)
        PROVE  TextRight(c, q, results'[c][q], seen'[ObjectAt(c, q)])
    <3>1. TextRight(c, q, results[c][q], seen[ObjectAt(c, q)])
      BY DEF PrintInv, TellingInv, ResultsRight
    <3>2. \A b \in Objects : b \in Addresses
      BY DEF Addresses
    <3>3. CASE c = call /\ q = p
      <4>1. results'[c][q] = text /\ (a \in Objects => seen'[ObjectAt(c, q)] = e)
        BY <1>a, <1>seen, <1>results, <3>2, <3>3
      <4>2. QED
        BY <1>a, <3>3, <4>1 DEF TextKept, TextRight
    <3>4. CASE ~(c = call /\ q = p)
      <4>1. results'[c][q] = results[c][q]
        BY <1>results, <3>4
      <4>2. PICK b : b = ObjectAt(c, q)
        OBVIOUS
      <4>3. b \in Objects /\ seen[b] # NotSeen => seen'[b] # NotSeen /\ seen'[b].label = seen[b].label
        BY <1>a, <1>seen, <3>2 DEF EntryKept
      <4>4. QED
        BY <3>1, <4>1, <4>2, <4>3 DEF TextRight
    <3>5. QED
      BY <3>3, <3>4
  <2>2. QED
    BY <1>1, <2>1 DEF ResultsRight, TextRight
<1>10. FormsTold'
  <2>1. ASSUME NEW c \in Calls, NEW q \in Positions(c), results'[c][q].kind = "full", Value(c, q) \in Forms
        PROVE  \E d \in Calls : d <= c /\ Told(d, q, results'[c][q])
    <3>1. CASE c = call /\ q = p /\ text.of = Value(call, p)
      <4>1. Told(c, q, results'[c][q])
        BY <1>results, <2>1, <3>1
      <4>2. QED
        BY <1>0, <3>1, <4>1
    <3>2. CASE ~(c = call /\ q = p /\ text.of = Value(call, p))
      <4>1. PICK t : t = results'[c][q]
        OBVIOUS
      <4>2. PICK d \in Calls : d <= c /\ ToldAt(d, q, t)
        <5>1. CASE c = call /\ q = p
          BY <1>results, <2>1, <3>2, <4>1, <5>1 DEF TextKept
        <5>2. CASE ~(c = call /\ q = p)
          <6>1. t = results[c][q]
            BY <1>results, <4>1, <5>2
          <6>2. QED
            BY <2>1, <4>1, <6>1 DEF PrintInv, TellingInv, FormsTold
        <5>3. QED
          BY <5>1, <5>2
      <4>3. Told(d, q, t)
        BY <1>4, <4>2
      <4>4. QED
        BY <4>1, <4>2, <4>3
    <3>3. QED
      BY <3>1, <3>2
  <2>2. QED
    BY <1>1, <2>1 DEF FormsTold, ToldAt
<1>11. PrintedRight'
  <2>1. ASSUME NEW c \in Calls, NEW q \in Positions(c)
        PROVE  /\ call < c \/ (c = call /\ state'[q] # "done") => results'[c][q].kind = "none"
               /\ (c < call \/ (c = call /\ state'[q] = "done")) /\ (call <= LastOfPass1 \/ RegsOfPass2 <= c) =>
                    results'[c][q].kind # "none"
    <3>1. /\ call < c \/ (c = call /\ state[q] # "done") => results[c][q].kind = "none"
          /\ (c < call \/ (c = call /\ state[q] = "done")) /\ (call <= LastOfPass1 \/ RegsOfPass2 <= c) =>
               results[c][q].kind # "none"
      BY DEF PrintInv, TellingInv, PrintedRight
    <3>2. q \in 0 .. MaxLength - 1
      BY MaxLengthBounds
    <3>3. CASE c = call /\ q = p
      <4>1. results'[c][q] = text /\ state'[q] = s
        BY <1>2, <1>results, <1>state, <3>3
      <4>2. QED
        BY <1>0, <3>3, <4>1 DEF StateKept
    <3>4. CASE ~(c = call /\ q = p)
      <4>1. results'[c][q] = results[c][q] /\ (c = call => state'[q] = state[q])
        BY <1>results, <1>state, <3>2, <3>4
      <4>2. QED
        BY <3>1, <4>1
    <3>5. QED
      BY <3>3, <3>4
  <2>2. QED
    BY <1>2, <2>1 DEF PrintedRight
<1>12. GameStays'
  <2>1. ASSUME changes = 0
        PROVE  /\ \A b \in Objects : seen'[b] # NotSeen => b \in alive
               /\ \A c \in Calls : \A q \in Positions(c) :
                    Value(c, q) \in Objects \cap alive => results'[c][q].kind \in {"full", "see", "none"}
    <3>1. /\ \A b \in Objects : seen[b] # NotSeen => b \in alive
          /\ \A c \in Calls : \A q \in Positions(c) :
               Value(c, q) \in Objects \cap alive => results[c][q].kind \in {"full", "see", "none"}
      BY <1>2, <2>1 DEF PrintInv, TellingInv, GameStays
    <3>2. \A b \in Objects : b \in Addresses
      BY DEF Addresses
    <3>3. ASSUME NEW b \in Objects, seen'[b] # NotSeen PROVE b \in alive
      BY <1>a, <1>seen, <2>1, <3>1, <3>2, <3>3 DEF TextKept
    <3>4. ASSUME NEW c \in Calls, NEW q \in Positions(c), Value(c, q) \in Objects \cap alive
          PROVE  results'[c][q].kind \in {"full", "see", "none"}
      <4>1. CASE c = call /\ q = p
        BY <1>results, <2>1, <3>4, <4>1 DEF TextKept
      <4>2. CASE ~(c = call /\ q = p)
        BY <1>results, <3>1, <3>4, <4>2
      <4>3. QED
        BY <4>1, <4>2
    <3>5. QED
      BY <3>3, <3>4
  <2>2. QED
    BY <1>1, <1>2, <2>1 DEF GameStays
<1>13. QED
  BY <1>5, <1>6, <1>7, <1>8, <1>9, <1>10, <1>11, <1>12 DEF TellingInv

\* The call under way ends, or the first pass fails, and the call c begins.
Turns(c) ==
  /\ call \in Calls /\ c \in call + 1 .. LastOfPass2 + 1 /\ Begin(c)
  /\ \/ c = call + 1 /\ \A p \in Positions(call) : state[p] = "done"
     \/ c = RegsOfPass2 /\ \A p \in Positions(call) : state[p] # "filling"
  /\ UNCHANGED <<registers, stack, alive, changes, seen>>
  /\ \A d \in Calls : \A q \in Positions(d) :
       \/ results'[d][q] = results[d][q]
       \/ /\ results[d][q].kind = "void"
          /\ Value(d, q) \in Addresses /\ seen[Value(d, q)] # NotSeen
          /\ results'[d][q] = seen[Value(d, q)].text

\* The positions of a call are those up to its length.
LEMMA PositionsUpTo ==
  ASSUME NEW c \in Calls, NEW q \in Nat
  PROVE  q \in Positions(c) <=> q < Length(c)
<1>1. Length(c) \in Int
  <2>1. CASE c \in RegisterCalls
    BY <2>1 DEF Length
  <2>2. CASE c \notin RegisterCalls
    <3>1. PICK k \in Nat, size \in {Block1, Block2} : Length(c) = BlockLength(k, size)
      BY <2>2, StackCall
    <3>2. k * size \in Nat /\ size \in Nat
      OBVIOUS
    <3>3. QED
      BY <3>1, <3>2 DEF BlockLength
  <2>3. QED
    BY <2>1, <2>2
<1>2. QED
  BY <1>1 DEF Positions

\* Where no worker is inside the filters nothing is reserved.
LEMMA NoneReserved ==
  ASSUME PrintInv, call # 0, \A p \in Positions(call) : state[p] # "filling"
  PROVE  \A a \in Addresses : seen[a].text.kind # "empty"
BY DEF PrintInv, TellingInv, ReservedRight

\* What was printed stays, or gives way to what is in the table.
LEMMA TurnTells ==
  ASSUME PrintInv, call # 0, NEW c, Turns(c), NEW d \in Calls, NEW q \in Positions(d),
         results[d][q].kind # "none"
  PROVE  results'[d][q].kind # "none"
<1>1. CASE results'[d][q] = results[d][q]
  BY <1>1
<1>2. CASE results'[d][q] # results[d][q]
  <2>1. PICK a \in Addresses : seen[a] # NotSeen /\ results'[d][q] = seen[a].text
    BY <1>2 DEF Turns
  <2>2. EntryRight(a, seen[a])
    BY <2>1 DEF PrintInv, TellingInv, EntriesRight
  <2>3. QED
    BY <2>1, <2>2 DEF EntryRight, EntryPlaced, Addresses, Objects
<1>3. QED
  BY <1>1, <1>2

\* The end of a call keeps what the report rests on.
LEMMA TurnKeeps ==
  ASSUME PrintInv, NEW c, Turns(c)
  PROVE  TellingInv'
<1> DEFINE Told(d, q, t) == q \in Positions(d) /\ results'[d][q].kind = "full" /\ Value(d, q) = t.of
<1>0. call \in Calls /\ call # 0 /\ call \in Nat /\ c \in Nat /\ call < c /\ c # 0 /\ call' = c
  <2>1. \A d \in Calls : d \in Nat
    BY CallOrder
  <2>2. call \in Calls /\ call # 0 /\ call \in Nat
    BY <2>1, CallNotZero DEF Turns
  <2>3. c \in call + 1 .. LastOfPass2 + 1 /\ call' = c
    BY DEF Turns, Begin
  <2>4. QED
    BY <2>2, <2>3, CallOrder
<1>1. /\ \A d, q : Value(d, q)' = Value(d, q) /\ ObjectAt(d, q)' = ObjectAt(d, q)
      /\ \A v : ObjectOf(v)' = ObjectOf(v)
  BY DEF Turns, Value, ObjectAt, ObjectOf
<1>2. seen' = seen /\ alive' = alive /\ changes' = changes
  BY DEF Turns
<1>3. \A a \in Addresses : seen[a].text.kind # "empty"
  <2>1. \A p \in Positions(call) : state[p] # "filling"
    BY DEF Turns
  <2>2. QED
    BY <1>0, <2>1, NoneReserved
<1>4. \A q \in 0 .. MaxLength - 1 :
        /\ state'[q] \in {"todo", "done"}
        /\ state'[q] # "done" => c \in Calls /\ q \in Positions(c)
        /\ c \in Calls /\ q \in Positions(c) => state'[q] # "done"
  <2>1. ASSUME NEW q \in 0 .. MaxLength - 1
        PROVE  state'[q] = IF c \in Calls /\ q < Length(c) THEN "todo" ELSE "done"
    BY DEF Turns, Begin
  <2>2. ASSUME NEW q \in 0 .. MaxLength - 1, c \in Calls PROVE q \in Positions(c) <=> q < Length(c)
    BY <2>2, PositionsUpTo, MaxLengthBounds
  <2>3. QED
    BY <2>1, <2>2
<1>5. \A d \in Calls : \A q \in Positions(d) :
        \/ results'[d][q] = results[d][q]
        \/ /\ results[d][q].kind = "void"
           /\ Value(d, q) \in Addresses /\ seen[Value(d, q)] # NotSeen
           /\ results'[d][q] = seen[Value(d, q)].text
  BY DEF Turns
<1>6. ASSUME NEW d \in Calls, NEW q, NEW t, ToldAt(d, q, t) PROVE Told(d, q, t)
  <2>1. q \in Positions(d) /\ results[d][q].kind = "full" /\ Value(d, q) = t.of
    BY <1>6 DEF ToldAt
  <2>2. results'[d][q].kind = "full"
    BY <1>5, <2>1
  <2>3. QED
    BY <2>1, <2>2
<1>7. \A a \in Addresses : seen[a] # NotSeen => EntryRight(a, seen[a])
  BY <1>0 DEF PrintInv, TellingInv, EntriesRight
<1>8. EntriesRight'
  BY <1>2, <1>7 DEF EntriesRight, EntryRight, EntryPlaced, FlagRight, Near, ObjectOf
<1>9. ReservedRight'
  BY <1>2, <1>3 DEF ReservedRight
<1>10. EntriesTold'
  <2>1. ASSUME NEW a \in Addresses, seen[a].text.kind = "full"
        PROVE  \E d \in Calls : d <= c /\ Told(d, seen[a].pos, seen[a].text)
    <3>1. PICK d \in Calls : d <= call /\ ToldAt(d, seen[a].pos, seen[a].text)
      BY <1>0, <2>1 DEF PrintInv, TellingInv, EntriesTold
    <3>2. Told(d, seen[a].pos, seen[a].text)
      BY <1>6, <3>1
    <3>3. d \in Nat
      BY CallOrder
    <3>4. d <= c
      BY <1>0, <3>1, <3>3
    <3>5. QED
      BY <3>2, <3>4
  <2>2. QED
    BY <1>0, <1>1, <1>2, <2>1 DEF EntriesTold, ToldAt
<1>11. WorkersRight'
  BY <1>0, <1>4 DEF WorkersRight
<1>12. ResultsRight'
  <2>1. ASSUME NEW d \in Calls, NEW q \in Positions(d)
        PROVE  TextRight(d, q, results'[d][q], seen[ObjectAt(d, q)])
    <3>1. TextRight(d, q, results[d][q], seen[ObjectAt(d, q)])
      BY DEF PrintInv, TellingInv, ResultsRight
    <3>2. CASE results'[d][q] = results[d][q]
      BY <3>1, <3>2
    <3>3. CASE results'[d][q] # results[d][q]
      <4>1. PICK a \in Addresses : /\ a = Value(d, q) /\ seen[a] # NotSeen
                                   /\ results'[d][q] = seen[a].text
        BY <1>5, <3>3
      <4>2. ObjectAt(d, q) = a
        BY <4>1, AddressObject DEF ObjectAt
      <4>3. EntryRight(a, seen[a]) /\ seen[a].text.kind # "empty"
        BY <1>3, <1>7, <4>1
      <4>4. seen[a].text.kind \in {"full", "void"} /\ (seen[a].text.kind = "full" => a \in Objects)
        BY <4>3 DEF EntryRight, EntryPlaced, Addresses, Objects
      <4>5. QED
        BY <4>1, <4>2, <4>3, <4>4 DEF TextRight, EntryRight, EntryPlaced
    <3>4. QED
      BY <3>2, <3>3
  <2>2. QED
    BY <1>1, <1>2, <2>1 DEF ResultsRight, TextRight
<1>13. FormsTold'
  <2>1. ASSUME NEW d \in Calls, NEW q \in Positions(d), results'[d][q].kind = "full", Value(d, q) \in Forms
        PROVE  \E b \in Calls : b <= d /\ Told(b, q, results'[d][q])
    <3>1. results'[d][q] = results[d][q]
      BY <1>5, <2>1
    <3>2. PICK b \in Calls : b <= d /\ ToldAt(b, q, results[d][q])
      BY <2>1, <3>1 DEF PrintInv, TellingInv, FormsTold
    <3>3. Told(b, q, results[d][q])
      BY <1>6, <3>2
    <3>4. QED
      BY <3>1, <3>2, <3>3
  <2>2. QED
    BY <1>1, <2>1 DEF FormsTold, ToldAt
<1>14. PrintedRight'
  <2>1. ASSUME NEW d \in Calls, NEW q \in Positions(d)
        PROVE  /\ c < d \/ (d = c /\ state'[q] # "done") => results'[d][q].kind = "none"
               /\ (d < c \/ (d = c /\ state'[q] = "done")) /\ (c <= LastOfPass1 \/ RegsOfPass2 <= d) =>
                    results'[d][q].kind # "none"
    <3>1. /\ call < d \/ (d = call /\ state[q] # "done") => results[d][q].kind = "none"
          /\ (d < call \/ (d = call /\ state[q] = "done")) /\ (call <= LastOfPass1 \/ RegsOfPass2 <= d) =>
               results[d][q].kind # "none"
      BY DEF PrintInv, TellingInv, PrintedRight
    <3>2. results[d][q].kind = "none" => results'[d][q].kind = "none"
      BY <1>5
    <3>3. results[d][q].kind # "none" => results'[d][q].kind # "none"
      BY <1>0, TurnTells
    <3>4. d \in Nat /\ (d = c => state'[q] # "done")
      BY <1>4, CallOrder, MaxLengthBounds
    <3>5. c < d \/ d = c => results[d][q].kind = "none"
      BY <1>0, <3>1, <3>4
    <3>6. ASSUME d < c, c <= LastOfPass1 \/ RegsOfPass2 <= d PROVE results[d][q].kind # "none"
      <4>1. CASE c = call + 1 /\ \A p \in Positions(call) : state[p] = "done"
        <5>1. d < call \/ (d = call /\ state[q] = "done")
          BY <1>0, <3>4, <3>6, <4>1
        <5>2. call <= LastOfPass1 \/ RegsOfPass2 <= d
          BY <1>0, <3>6, <4>1, CallOrder
        <5>3. QED
          BY <3>1, <5>1, <5>2
      <4>2. CASE c = RegsOfPass2
        BY <3>4, <3>6, <4>2, CallOrder
      <4>3. QED
        BY <4>1, <4>2 DEF Turns
    <3>7. QED
      BY <3>2, <3>3, <3>4, <3>5, <3>6
  <2>2. QED
    BY <1>0, <2>1 DEF PrintedRight
<1>15. GameStays'
  <2>1. ASSUME changes = 0, NEW d \in Calls, NEW q \in Positions(d), Value(d, q) \in Objects \cap alive
        PROVE  results'[d][q].kind \in {"full", "see", "none"}
    <3>1. results[d][q].kind \in {"full", "see", "none"}
      BY <1>0, <2>1 DEF PrintInv, TellingInv, GameStays
    <3>2. QED
      BY <1>5, <3>1
  <2>2. QED
    BY <1>0, <1>1, <1>2, <2>1 DEF PrintInv, TellingInv, GameStays
<1>16. QED
  BY <1>8, <1>9, <1>10, <1>11, <1>12, <1>13, <1>14, <1>15 DEF TellingInv

-----------------------------------------------------------------------------
(* What is collected                                                        *)

\* A relevant object is taken from the closest of the occurrences of its value.
LEMMA CollectedFrom ==
  ASSUME NEW v \in Values, NEW cs \in SUBSET Calls, NEW texts, NEW o1 \in Occurrences(v, cs, texts),
         relevant[v] = NotRelevant
  PROVE  \E o \in Occurrences(v, cs, texts) :
           /\ o[1] \in cs /\ o[2] \in Positions(o[1])
           /\ o[1] < o1[1] \/ (o[1] = o1[1] /\ o[2] <= o1[2])
           /\ Collected(cs, texts)[v].text = texts[o[1]][o[2]]
           /\ Collected(cs, texts)[v].distance = Distance(o[1], o[2])
           /\ Collected(cs, texts)[v] # NotRelevant
<1> DEFINE S == Occurrences(v, cs, texts)
           o == CHOOSE o \in S : \A q \in S : o[1] < q[1] \/ (o[1] = q[1] /\ o[2] <= q[2])
<1>1. S \in SUBSET (Nat \X Nat) /\ S # {}
  BY CallOrder, MaxLengthBounds DEF Occurrences
<1>2. \E m \in S : \A q \in S : m[1] < q[1] \/ (m[1] = q[1] /\ m[2] <= q[2])
  <2> HIDE DEF S
  <2> QED BY <1>1, LeastPair
<1>3. o \in S /\ \A q \in S : o[1] < q[1] \/ (o[1] = q[1] /\ o[2] <= q[2])
  <2> HIDE DEF S
  <2> QED BY <1>2
<1>4. ASSUME NEW q \in S PROVE q[1] \in cs /\ q[2] \in Positions(q[1])
  BY DEF Occurrences
<1>5. Collected(cs, texts)[v] =
        [text |-> texts[o[1]][o[2]], label |-> LabelOf(o[1], o[2]), distance |-> Distance(o[1], o[2])]
  BY <1>1 DEF Collected
<1> HIDE DEF o
<1>6. LabelOf(o[1], o[2]) \in Labels
  BY <1>3, <1>4, LabelOfPosition
<1>7. LabelOf(o[1], o[2]) # NotRelevant.label
  BY <1>6, NoLabelIsNone DEF NotRelevant
<1>8. QED
  BY <1>3, <1>4, <1>5, <1>7

\* What is relevant stays as it is, and without an occurrence nothing becomes relevant.
LEMMA CollectedBefore ==
  ASSUME NEW v \in Values, NEW cs, NEW texts
  PROVE  relevant[v] # NotRelevant \/ Occurrences(v, cs, texts) = {} => Collected(cs, texts)[v] = relevant[v]
BY DEF Collected

\* In the first pass, what comes later is no closer.
LEMMA DistanceGrows ==
  ASSUME NEW c \in 1 .. LastOfPass1, NEW d \in Calls, NEW p \in Positions(c), NEW q \in Positions(d),
         d < c \/ (d = c /\ q <= p)
  PROVE  Distance(d, q) <= Distance(c, p)
<1>1. c \in Calls /\ c \in Nat /\ d \in Nat /\ d >= 1 /\ d <= c /\ p \in Nat /\ q \in Nat
  BY CallOrder DEF Positions
<1>2. Distance(c, p) \in Nat /\ Distance(d, q) \in Nat
  BY <1>1, LabelOfPosition
<1>3. CASE d = 1
  BY <1>2, <1>3 DEF Distance, RegisterCalls
<1>4. CASE d # 1
  <2>1. c \notin RegisterCalls /\ d \notin RegisterCalls /\ c <= LastOfPass1 /\ d <= LastOfPass1
    BY <1>1, <1>4, CallOrder DEF RegisterCalls
  <2>2. Offset(c) = (c - 2) * Block1 /\ Offset(d) = (d - 2) * Block1 /\ Length(d) = BlockLength(d - 2, Block1)
    BY <2>1 DEF Offset, Length
  <2>3. PICK i \in Nat, j \in Nat : i = c - 2 /\ j = d - 2 /\ (j < i \/ (j = i /\ q <= p))
    BY <1>1, <1>4
  <2>4. q < Block1
    <3>1. q \in 0 .. BlockLength(j, Block1) - 1
      BY <2>2, <2>3 DEF Positions
    <3>2. QED
      BY <3>1, InBlock
  <2>5. PICK m \in Nat, n \in Nat : m = i * Block1 /\ n = j * Block1
    OBVIOUS
  <2>6. j < i => n + Block1 <= m
    <3>1. SUFFICES ASSUME j < i PROVE n + Block1 <= m
      OBVIOUS
    <3>2. PICK k \in Nat : i = j + 1 + k
      <4>1. i - j - 1 \in Nat /\ i = j + 1 + (i - j - 1)
        BY <3>1
      <4>2. QED
        BY <4>1
    <3>3. i * Block1 = j * Block1 + Block1 + k * Block1 /\ k * Block1 \in Nat
      BY <3>2
    <3>4. QED
      BY <2>5, <3>3
  <2>7. n + q <= m + p
    BY <1>1, <2>3, <2>4, <2>5, <2>6
  <2>8. Distance(c, p) = 1000 + 8 * (m + p) /\ Distance(d, q) = 1000 + 8 * (n + q)
    BY <2>1, <2>2, <2>3, <2>5 DEF Distance
  <2>9. QED
    BY <1>1, <2>7, <2>8
<1>5. QED
  BY <1>3, <1>4

\* A value with an occurrence becomes relevant, no further than there.
LEMMA Taken ==
  ASSUME NEW v \in Values, NEW cs \in SUBSET (1 .. LastOfPass1), NEW texts, NEW c \in cs,
         NEW p \in Positions(c), <<c, p>> \in Occurrences(v, cs, texts),
         relevant[v] # NotRelevant => relevant[v].distance = 0
  PROVE  Collected(cs, texts)[v] # NotRelevant /\ Collected(cs, texts)[v].distance <= Distance(c, p)
<1>1. cs \in SUBSET Calls /\ c \in Calls /\ c \in 1 .. LastOfPass1
  BY CallOrder
<1>2. Distance(c, p) \in Nat
  BY <1>1, LabelOfPosition
<1>3. CASE relevant[v] # NotRelevant
  BY <1>2, <1>3, CollectedBefore
<1>4. CASE relevant[v] = NotRelevant
  <2>1. PICK o \in Occurrences(v, cs, texts) :
           /\ o[1] \in cs /\ o[2] \in Positions(o[1])
           /\ o[1] < c \/ (o[1] = c /\ o[2] <= p)
           /\ Collected(cs, texts)[v].distance = Distance(o[1], o[2])
           /\ Collected(cs, texts)[v] # NotRelevant
    <3>1. <<c, p>>[1] = c /\ <<c, p>>[2] = p
      OBVIOUS
    <3>2. QED
      BY <1>1, <1>4, <3>1, CollectedFrom
  <2>2. Distance(o[1], o[2]) <= Distance(c, p)
    BY <1>1, <2>1, DistanceGrows
  <2>3. QED
    BY <2>1, <2>2
<1>5. QED
  BY <1>3, <1>4

\* The results are those of calls of the first pass that are over: descriptions are of
\* their objects, and while memory does not change every object is described.
TextsFit(cs, texts) ==
  \A c \in cs : \A p \in Positions(c) :
    /\ texts[c][p].kind = "full" => ObjectOf(texts[c][p].of) = ObjectAt(c, p)
    /\ changes = 0 /\ Value(c, p) \in Objects \cap alive => texts[c][p].kind \in {"full", "see"}

\* What is collected from such results is described.
LEMMA CollectedDescribed ==
  ASSUME PrintInv, call # 0, NEW cs \in SUBSET Calls, NEW texts, TextsFit(cs, texts)
  PROVE  /\ \A v \in Forms : Collected(cs, texts)[v] # NotRelevant =>
              Described(ObjectOf(v), Collected(cs, texts)[v].text)
         /\ changes = 0 => \A v \in Objects : Collected(cs, texts)[v] # NotRelevant =>
              Described(v, Collected(cs, texts)[v].text)
<1>1. ASSUME NEW v \in Values, relevant[v] # NotRelevant \/ Occurrences(v, cs, texts) = {}
      PROVE  Collected(cs, texts)[v] = relevant[v]
  BY <1>1, CollectedBefore
<1>2. ASSUME NEW v \in Values, NEW o \in Occurrences(v, cs, texts)
      PROVE  /\ o[1] \in cs /\ o[2] \in Positions(o[1]) /\ Value(o[1], o[2]) = v
             /\ texts[o[1]][o[2]].kind # "see"
             /\ (texts[o[1]][o[2]].kind = "full" /\ texts[o[1]][o[2]].of \in Forms) \/ WasIntrospected(v)
  BY <1>2 DEF Occurrences
<1>3. ASSUME NEW v \in Forms, Collected(cs, texts)[v] # NotRelevant
      PROVE  Described(ObjectOf(v), Collected(cs, texts)[v].text)
  <2>1. v \in Values /\ v \notin Addresses
    BY DEF Values
  <2>2. CASE relevant[v] # NotRelevant \/ Occurrences(v, cs, texts) = {}
    BY <1>1, <1>3, <2>1, <2>2 DEF PrintInv, CollectedRight
  <2>3. CASE relevant[v] = NotRelevant /\ Occurrences(v, cs, texts) # {}
    <3>1. PICK o \in Occurrences(v, cs, texts) : Collected(cs, texts)[v].text = texts[o[1]][o[2]]
      BY <2>1, <2>3, CollectedFrom
    <3>2. /\ o[1] \in cs /\ o[2] \in Positions(o[1]) /\ Value(o[1], o[2]) = v
          /\ texts[o[1]][o[2]].kind = "full"
      BY <1>2, <2>1 DEF WasIntrospected
    <3>3. ObjectOf(texts[o[1]][o[2]].of) = ObjectOf(v)
      BY <3>2 DEF TextsFit, ObjectAt
    <3>4. QED
      BY <3>1, <3>2, <3>3 DEF Described
  <2>4. QED
    BY <2>2, <2>3
<1>4. ASSUME changes = 0, NEW v \in Objects, Collected(cs, texts)[v] # NotRelevant
      PROVE  Described(v, Collected(cs, texts)[v].text)
  <2>1. v \in Values /\ v \in Addresses /\ v \in Objects /\ ObjectOf(v) = v
    BY AddressObject DEF Values, Addresses, Objects
  <2>2. CASE relevant[v] # NotRelevant \/ Occurrences(v, cs, texts) = {}
    BY <1>1, <1>4, <2>1, <2>2 DEF PrintInv, CollectedRight
  <2>3. CASE relevant[v] = NotRelevant /\ Occurrences(v, cs, texts) # {}
    <3>1. PICK o \in Occurrences(v, cs, texts) : Collected(cs, texts)[v].text = texts[o[1]][o[2]]
      BY <2>1, <2>3, CollectedFrom
    <3>2. /\ o[1] \in cs /\ o[2] \in Positions(o[1]) /\ Value(o[1], o[2]) = v
          /\ texts[o[1]][o[2]].kind # "see"
          /\ texts[o[1]][o[2]].kind = "full" \/ WasIntrospected(v)
      BY <1>2, <2>1
    <3>3. WasIntrospected(v) => v \in alive
      BY <1>4, <2>1 DEF PrintInv, TellingInv, GameStays, WasIntrospected
    <3>4. texts[o[1]][o[2]].kind = "full"
      BY <1>4, <3>2, <3>3 DEF TextsFit
    <3>5. ObjectOf(texts[o[1]][o[2]].of) = v
      BY <2>1, <3>2, <3>4 DEF TextsFit, ObjectAt
    <3>6. QED
      BY <3>1, <3>4, <3>5 DEF Described
  <2>4. QED
    BY <2>2, <2>3
<1>5. QED
  BY <1>3, <1>4

\* What is collected is a form, or an object that counts.
LEMMA CollectedCounts ==
  ASSUME PrintInv, call # 0, NEW cs \in SUBSET Calls, NEW texts, TextsFit(cs, texts),
         \A a \in Addresses : seen[a].text.kind # "empty",
         NEW v \in Values, Collected(cs, texts)[v] # NotRelevant
  PROVE  v \in Forms \/ GameRelevant(v)
<1>1. CASE relevant[v] # NotRelevant \/ Occurrences(v, cs, texts) = {}
  BY <1>1, CollectedBefore DEF PrintInv, CollectedRight
<1>2. CASE relevant[v] = NotRelevant /\ Occurrences(v, cs, texts) # {}
  <2>1. PICK o \in Occurrences(v, cs, texts) : TRUE
    BY <1>2
  <2>2. /\ o[1] \in cs /\ o[2] \in Positions(o[1]) /\ Value(o[1], o[2]) = v
        /\ (texts[o[1]][o[2]].kind = "full" /\ texts[o[1]][o[2]].of \in Forms) \/ WasIntrospected(v)
    BY DEF Occurrences
  <2>3. CASE WasIntrospected(v)
    <3>1. v \in Addresses /\ seen[v] # NotSeen /\ seen[v].game
      BY <2>3 DEF WasIntrospected
    <3>2. EntryRight(v, seen[v]) /\ seen[v].text.kind # "empty"
      BY <3>1 DEF PrintInv, TellingInv, EntriesRight
    <3>3. seen[v].text.kind \in {"full", "void"}
      BY <3>1, <3>2 DEF EntryRight, EntryPlaced, Addresses, Objects
    <3>4. QED
      BY <3>1, <3>2, <3>3 DEF EntryRight, FlagRight
  <2>4. CASE v \notin Forms /\ texts[o[1]][o[2]].kind = "full" /\ texts[o[1]][o[2]].of \in Forms
    <3>1. ObjectOf(texts[o[1]][o[2]].of) = ObjectAt(o[1], o[2])
      BY <2>2, <2>4 DEF TextsFit
    <3>2. ObjectAt(o[1], o[2]) = v
      BY <2>2, <2>4 DEF ObjectAt, ObjectOf
    <3>3. ObjectOf(texts[o[1]][o[2]].of) \in Game \ Internal
      BY <2>4 DEF ObjectOf
    <3>4. QED
      BY <3>1, <3>2, <3>3 DEF GameRelevant, Objects
  <2>5. QED
    BY <2>2, <2>3, <2>4
<1>3. QED
  BY <1>1, <1>2

-----------------------------------------------------------------------------
(* The steps of the workers                                                 *)

\* A worker prints a text.
LEMMA StepsPrinted ==
  ASSUME TypeOK, call \in Calls, NEW p \in Positions(call), state[p] # "done", NEW text, NEW e,
         Printed(p, text), UNCHANGED <<dataVars, gameVars, call>>,
         \A b \in Addresses : seen'[b] = IF b = ObjectAt(call, p) THEN e ELSE seen[b]
  PROVE  Steps(p, "done", text, e)
<1>1. UNCHANGED <<registers, stack, alive, changes, call>>
  BY DEF dataVars, gameVars
<1>2. \A c \in Calls : \A q \in Positions(c) :
        results'[c][q] = IF c = call /\ q = p THEN text ELSE results[c][q]
  BY DEF Printed, TypeOK
<1>3. \A q \in 0 .. MaxLength - 1 : state'[q] = IF q = p THEN "done" ELSE state[q]
  BY DEF Printed, TypeOK
<1>4. QED
  BY <1>1, <1>2, <1>3 DEF Steps

\* A worker goes on without printing.
LEMMA StepsOn ==
  ASSUME TypeOK, call \in Calls, NEW p \in Positions(call), state[p] # "done", NEW s, NEW e,
         state' = [state EXCEPT ![p] = s], UNCHANGED <<dataVars, gameVars, call, results>>,
         \A b \in Addresses : seen'[b] = IF b = ObjectAt(call, p) THEN e ELSE seen[b]
  PROVE  Steps(p, s, results[call][p], e)
<1>1. UNCHANGED <<registers, stack, alive, changes, call>>
  BY DEF dataVars, gameVars
<1>2. \A c \in Calls : \A q \in Positions(c) :
        results'[c][q] = IF c = call /\ q = p THEN results[call][p] ELSE results[c][q]
  OBVIOUS
<1>3. \A q \in 0 .. MaxLength - 1 : state'[q] = IF q = p THEN s ELSE state[q]
  BY DEF TypeOK
<1>4. QED
  BY <1>1, <1>2, <1>3 DEF Steps

\* An entry that is left as it is is kept.
LEMMA SameEntry ==
  ASSUME PrintInv, call \in Calls, NEW p, NEW s, NEW text, NEW a, state[p] = "todo" \/ a \in InModule
  PROVE  EntryKept(p, s, text, seen[a], a)
<1>1. SUFFICES ASSUME a \in Addresses PROVE EntryKept(p, s, text, seen[a], a)
  BY DEF EntryKept
<1>2. call # 0
  BY CallNotZero
<1>3. seen[a] # NotSeen => EntryRight(a, seen[a])
  BY <1>1, <1>2 DEF PrintInv, TellingInv, EntriesRight
<1>4. a \in InModule => seen[a].text.kind # "empty"
  BY <1>3 DEF EntryRight, EntryPlaced, NotSeen, NoText, Text
<1>5. QED
  BY <1>3, <1>4 DEF EntryKept

\* A new entry is right, and not one that is not there.
LEMMA NewEntry ==
  ASSUME call \in Calls, NEW p \in Positions(call), NEW text, NEW a \in Addresses, NEW e,
         e.text = text, e.pos = p, e.label = LabelOf(call, p),
         a \in Game => text.kind \in {"empty", "full"},
         a \in Foreign => text.kind = "full",
         a \in InModule => text.kind = "void",
         text.kind = "full" => ObjectOf(text.of) = a
  PROVE  e # NotSeen /\ EntryPlaced(a, e)
<1>1. e.label \in Labels /\ (Near(e.label) => e.label[2] = p)
  BY LabelOfPosition, NearLabel
<1>2. e # NotSeen
  BY <1>1, NoLabelIsNone, NotSeenType
<1>3. QED
  BY <1>1, <1>2 DEF EntryPlaced

\* The same of the entry of an address in a module.
LEMMA NewPointer ==
  ASSUME call \in Calls, NEW p \in Positions(call), NEW a \in InModule, NEW e,
         e = Entry(p, Void, FALSE)
  PROVE  e # NotSeen /\ e.text = Void /\ e.pos = p /\ EntryRight(a, e)
<1>1. e.text = Void /\ e.pos = p /\ e.label = LabelOf(call, p) /\ ~e.game
  BY DEF Entry
<1>2. a \in Addresses /\ a \notin Game /\ a \notin Foreign /\ Void.kind = "void"
  BY DEF Addresses, Objects, Void, Text
<1>3. e # NotSeen /\ EntryPlaced(a, e)
  BY <1>1, <1>2, NewEntry
<1>4. FlagRight(a, e)
  BY <1>1, <1>2 DEF FlagRight
<1>5. QED
  BY <1>1, <1>3, <1>4 DEF EntryRight

\* Nothing is printed yet where a worker is not done.
LEMMA NotPrinted ==
  ASSUME PrintInv, call \in Calls, NEW p \in Positions(call), state[p] # "done"
  PROVE  results[call][p].kind = "none"
BY DEF PrintInv, TellingInv, PrintedRight

\* Values and objects are apart.
LEMMA Apart ==
  /\ Game \subseteq Objects /\ Foreign \subseteq Objects /\ Objects \subseteq Addresses /\ InModule \subseteq Addresses
  /\ Game \cap Foreign = {} /\ Objects \cap InModule = {} /\ Forms \cap Addresses = {}
  /\ \A a \in InModule : a \notin Game /\ a \notin Foreign
  /\ \A a \in Objects : a \in Game \/ a \in Foreign
BY DEF Addresses, Objects

\* An object that is met again is described or referred to.
LEMMA AgainKept ==
  ASSUME PrintInv, call \in Calls, NEW p \in Positions(call), state[p] = "todo",
         NEW v, NEW a, v = Value(call, p), a = ObjectOf(v), a \in Objects, seen[a] # NotSeen
  PROVE  /\ EntryKept(p, "done", Again(v, p), seen[a], a)
         /\ StateKept(p, "done", Again(v, p), seen[a])
         /\ TextKept(p, Again(v, p), seen[a])
<1>0. call # 0 /\ a \in Addresses /\ a = ObjectAt(call, p)
  BY CallNotZero, Apart DEF ObjectAt
<1>1. EntryKept(p, "done", Again(v, p), seen[a], a)
  BY SameEntry
<1>2. EntryRight(a, seen[a]) /\ seen[a].text.kind \in {"empty", "full"}
  BY <1>0, Apart DEF PrintInv, TellingInv, EntriesRight, EntryRight, EntryPlaced
<1>3. PICK text : text = Again(v, p)
  OBVIOUS
<1>4. \/ seen[a].pos = p /\ text = seen[a].text /\ text.kind = "full"
      \/ text = See(v, seen[a].label) /\ (seen[a].pos # p \/ seen[a].text.kind = "empty")
  BY <1>2, <1>3 DEF Again
<1>5. CASE seen[a].pos = p /\ text = seen[a].text /\ text.kind = "full"
  <2>1. StateKept(p, "done", text, seen[a])
    BY <1>5 DEF StateKept
  <2>2. TextRight(call, p, text, seen[a])
    BY <1>0, <1>2, <1>5 DEF TextRight, EntryRight, EntryPlaced
  <2>3. \E d \in Calls : d <= call /\ ToldAt(d, p, text)
    BY <1>0, <1>5 DEF PrintInv, TellingInv, EntriesTold
  <2>4. TextKept(p, text, seen[a])
    BY <1>0, <1>5, <2>2, <2>3 DEF TextKept
  <2>5. QED
    BY <1>1, <1>3, <2>1, <2>4
<1>6. CASE text = See(v, seen[a].label) /\ (seen[a].pos # p \/ seen[a].text.kind = "empty")
  <2>1. text.kind = "see" /\ text.of = v /\ text.label = seen[a].label
    BY <1>6 DEF See, Text
  <2>2. seen[a].pos # p
    <3>1. seen[a].text.kind = "empty" => state[seen[a].pos] = "filling"
      BY <1>0 DEF PrintInv, TellingInv, ReservedRight
    <3>2. QED
      BY <1>6, <3>1
  <2>3. ASSUME call \in {RegsOfPass2, RegsOfPass2 + 1} PROVE text.label # LabelOf(call, p)
    <3>1. Near(LabelOf(call, p)) /\ LabelOf(call, p)[2] = p
      BY <2>3, NearLabel
    <3>2. Near(seen[a].label) => seen[a].pos = seen[a].label[2]
      BY <1>2 DEF EntryRight, EntryPlaced
    <3>3. QED
      BY <2>1, <2>2, <3>1, <3>2
  <2>4. StateKept(p, "done", text, seen[a])
    BY <2>1 DEF StateKept
  <2>5. TextRight(call, p, text, seen[a])
    BY <1>0, <2>1, <2>3 DEF TextRight
  <2>6. TextKept(p, text, seen[a])
    BY <1>0, <2>1, <2>5 DEF TextKept
  <2>7. QED
    BY <1>1, <1>3, <2>4, <2>6
<1>7. QED
  BY <1>4, <1>5, <1>6

\* The steps of a worker keep what the report rests on.
LEMMA AnalyseKeeps ==
  ASSUME PrintInv, NEW p \in 0 .. MaxLength - 1, Analyse(p)
  PROVE  TellingInv'
<1> DEFINE v == Value(call, p)
           a == ObjectOf(v)
<1>t. TypeOK /\ seen \in [Addresses -> Entries] /\ a = ObjectAt(call, p)
  BY TypeOKSplit DEF PrintInv, TableInv, ObjectAt
<1>1. CASE Meet(p)
  <2>1. call \in Calls /\ p \in Positions(call) /\ state[p] = "todo" /\ a \in Game \cap alive
    BY <1>1 DEF Meet, Todo, Working
  <2>2. a \in Objects /\ a \in Addresses
    BY <2>1, Apart
  <2>3. CASE seen[a] = NotSeen
    <3>1. /\ seen' = [seen EXCEPT ![a] = Entry(p, Reserved, TRUE)]
          /\ state' = [state EXCEPT ![p] = "filling"]
          /\ UNCHANGED <<dataVars, gameVars, call, results>>
      BY <1>1, <2>3 DEF Meet
    <3>2. PICK e, text : e = Entry(p, Reserved, TRUE) /\ text = results[call][p]
      OBVIOUS
    <3>3. text.kind = "none"
      BY <2>1, <3>2, NotPrinted
    <3>4. Reserved.kind = "empty"
      BY DEF Reserved, Text
    <3>5. e # NotSeen /\ e.text = Reserved /\ e.pos = p /\ EntryRight(a, e)
      <4>1. e.text = Reserved /\ e.pos = p /\ e.label = LabelOf(call, p)
        BY <3>2 DEF Entry
      <4>2. a \notin Foreign /\ a \notin InModule
        BY <2>1, Apart
      <4>3. e # NotSeen /\ EntryPlaced(a, e)
        BY <2>1, <2>2, <3>4, <4>1, <4>2, NewEntry
      <4>4. QED
        BY <3>4, <4>1, <4>3 DEF EntryRight, FlagRight
    <3>6. Steps(p, "filling", text, e)
      <4>1. \A b \in Addresses : seen'[b] = IF b = ObjectAt(call, p) THEN e ELSE seen[b]
        BY <1>t, <2>2, <3>1, <3>2
      <4>2. QED
        BY <1>t, <2>1, <3>1, <3>2, <4>1, StepsOn
    <3>7. EntryKept(p, "filling", text, e, a)
      BY <2>3, <3>4, <3>5 DEF EntryKept
    <3>8. StateKept(p, "filling", text, e)
      BY <1>t, <2>1, <3>3, <3>5 DEF StateKept
    <3>9. TextKept(p, text, e)
      BY <1>t, <2>1, <3>3 DEF TextKept, TextRight
    <3>10. QED
      BY <1>t, <3>6, <3>7, <3>8, <3>9, ElementKeeps
  <2>4. CASE seen[a] # NotSeen
    <3>1. Printed(p, Again(v, p)) /\ UNCHANGED <<dataVars, gameVars, call, seen>>
      BY <1>1, <2>4 DEF Meet
    <3>2. Steps(p, "done", Again(v, p), seen[a])
      BY <1>t, <2>1, <3>1, StepsPrinted
    <3>3. /\ EntryKept(p, "done", Again(v, p), seen[a], a)
          /\ StateKept(p, "done", Again(v, p), seen[a])
          /\ TextKept(p, Again(v, p), seen[a])
      BY <2>1, <2>2, <2>4, AgainKept
    <3>4. QED
      BY <1>t, <3>2, <3>3, ElementKeeps
  <2>5. QED
    BY <2>3, <2>4
<1>2. CASE Complete(p)
  <2>1. call \in Calls /\ p \in Positions(call) /\ state[p] = "filling"
    BY <1>2 DEF Complete, Working
  <2>2. call # 0 /\ a \in Game /\ seen[a].pos = p
    BY <1>t, <2>1, CallNotZero DEF PrintInv, TellingInv, WorkersRight
  <2>3. a \in Objects /\ a \in Addresses /\ a \notin Foreign /\ a \notin InModule
    BY <2>2, Apart
  <2>4. seen[a] # NotSeen /\ EntryRight(a, seen[a]) /\ seen[a].label \in Labels
    <3>1. seen[a] # NotSeen
      BY <1>t, <2>1 DEF PrintInv, TableInv, FillingOK, ObjectAt
    <3>2. QED
      BY <2>2, <2>3, <3>1 DEF PrintInv, TellingInv, EntriesRight, TableInv, SeenOK
  <2>5. PICK e : e = [seen[a] EXCEPT !.text = Full(v), !.game = GameRelevant(a)]
    OBVIOUS
  <2>6. /\ e.text = Full(v) /\ e.label = seen[a].label /\ e.pos = seen[a].pos
        /\ e.game <=> GameRelevant(a)
    <3>1. seen[a] \in Entries
      BY <1>t, <2>3
    <3>2. QED
      BY <2>5, <3>1 DEF Entries
  <2>7. Full(v).kind = "full" /\ Full(v).of = v
    BY DEF Full, Text
  <2>8. e # NotSeen
    BY <2>4, <2>6, NoLabelIsNone, NotSeenType
  <2>9. EntryRight(a, e)
    BY <2>2, <2>3, <2>4, <2>6, <2>7 DEF EntryRight, EntryPlaced, FlagRight
  <2>10. Steps(p, "done", Full(v), e)
    <3>1. \A b \in Addresses : seen'[b] = IF b = ObjectAt(call, p) THEN e ELSE seen[b]
      BY <1>2, <1>t, <2>3, <2>5 DEF Complete
    <3>2. Printed(p, Full(v)) /\ UNCHANGED <<dataVars, gameVars, call>>
      BY <1>2 DEF Complete
    <3>3. QED
      BY <1>t, <2>1, <3>1, <3>2, StepsPrinted
  <2>11. EntryKept(p, "done", Full(v), e, a)
    BY <2>2, <2>6, <2>7, <2>8, <2>9 DEF EntryKept
  <2>12. StateKept(p, "done", Full(v), e)
    BY <2>7 DEF StateKept
  <2>13. TextKept(p, Full(v), e)
    BY <1>t, <2>3, <2>4, <2>7, <2>8 DEF TextKept, TextRight
  <2>14. QED
    BY <1>t, <2>10, <2>11, <2>12, <2>13, ElementKeeps
<1>3. CASE MeetForeign(p)
  <2>1. /\ call \in Calls /\ p \in Positions(call) /\ state[p] = "todo" /\ v \in Foreign \cap alive
        /\ v \in Objects /\ v \in Addresses /\ v \notin Forms /\ v \notin Game /\ v \notin InModule
    BY <1>3, Apart DEF MeetForeign, Todo, Working
  <2>2. a = v
    BY <2>1, AddressObject
  <2>3. CASE seen[v] = NotSeen
    <3>1. /\ seen' = [seen EXCEPT ![v] = Entry(p, Full(v), GameRelevant(v))] /\ Printed(p, Full(v))
          /\ UNCHANGED <<dataVars, gameVars, call>>
      BY <1>3, <2>3 DEF MeetForeign
    <3>2. PICK e : e = Entry(p, Full(v), GameRelevant(v))
      OBVIOUS
    <3>3. Full(v).kind = "full" /\ Full(v).of = v
      BY DEF Full, Text
    <3>4. e # NotSeen /\ e.text = Full(v) /\ e.pos = p /\ EntryRight(v, e)
      <4>1. e.text = Full(v) /\ e.pos = p /\ e.label = LabelOf(call, p)
        BY <3>2 DEF Entry
      <4>2. e.game <=> GameRelevant(v)
        BY <3>2 DEF Entry
      <4>3. e # NotSeen /\ EntryPlaced(v, e)
        BY <2>1, <2>2, <3>3, <4>1, NewEntry
      <4>4. QED
        BY <3>3, <4>1, <4>2, <4>3 DEF EntryRight, FlagRight
    <3>5. Steps(p, "done", Full(v), e)
      <4>1. \A b \in Addresses : seen'[b] = IF b = ObjectAt(call, p) THEN e ELSE seen[b]
        BY <1>t, <2>1, <2>2, <3>1, <3>2
      <4>2. QED
        BY <1>t, <2>1, <3>1, <4>1, StepsPrinted
    <3>6. EntryKept(p, "done", Full(v), e, v)
      BY <2>3, <3>3, <3>4 DEF EntryKept
    <3>7. StateKept(p, "done", Full(v), e)
      BY <3>3 DEF StateKept
    <3>8. TextKept(p, Full(v), e)
      BY <1>t, <2>1, <2>2, <3>3, <3>4 DEF TextKept, TextRight
    <3>9. QED
      BY <1>t, <2>2, <3>5, <3>6, <3>7, <3>8, ElementKeeps
  <2>4. CASE seen[v] # NotSeen
    <3>1. Printed(p, Again(v, p)) /\ UNCHANGED <<dataVars, gameVars, call, seen>>
      BY <1>3, <2>4 DEF MeetForeign
    <3>2. Steps(p, "done", Again(v, p), seen[a])
      BY <1>t, <2>1, <3>1, StepsPrinted
    <3>3. /\ EntryKept(p, "done", Again(v, p), seen[a], a)
          /\ StateKept(p, "done", Again(v, p), seen[a])
          /\ TextKept(p, Again(v, p), seen[a])
      BY <2>1, <2>2, <2>4, AgainKept
    <3>4. QED
      BY <1>t, <3>2, <3>3, ElementKeeps
  <2>5. QED
    BY <2>3, <2>4
<1>4. CASE MeetPointer(p)
  <2>1. /\ call \in Calls /\ call # 0 /\ p \in Positions(call) /\ state[p] = "todo" /\ v \in InModule
        /\ v \in Addresses /\ v \notin Objects /\ v \notin Forms /\ v \notin Game
    BY <1>4, Apart, CallNotZero DEF MeetPointer, Todo, Working
  <2>2. a = v
    BY <2>1, AddressObject
  <2>3. CASE seen[v] # NotSeen
    <3>1. PICK text : text = seen[v].text
      OBVIOUS
    <3>2. Printed(p, text) /\ UNCHANGED <<dataVars, gameVars, call, seen>>
      BY <1>4, <2>3, <3>1 DEF MeetPointer
    <3>3. text.kind = "void"
      BY <2>1, <2>3, <3>1 DEF PrintInv, TellingInv, EntriesRight, EntryRight, EntryPlaced
    <3>4. Steps(p, "done", text, seen[a])
      BY <1>t, <2>1, <3>2, StepsPrinted
    <3>5. EntryKept(p, "done", text, seen[a], a)
      BY <2>1, SameEntry
    <3>6. StateKept(p, "done", text, seen[a])
      BY <3>3 DEF StateKept
    <3>7. TextKept(p, text, seen[a])
      BY <1>t, <2>1, <2>2, <3>3 DEF TextKept, TextRight
    <3>8. QED
      BY <1>t, <3>4, <3>5, <3>6, <3>7, ElementKeeps
  <2>4. CASE seen[v] = NotSeen
    <3>1. PICK text : text = results[call][p]
      OBVIOUS
    <3>2. state' = [state EXCEPT ![p] = "filling pointer"] /\ UNCHANGED <<dataVars, gameVars, call, seen, results>>
      BY <1>4, <2>4 DEF MeetPointer
    <3>3. text.kind = "none"
      BY <2>1, <3>1, NotPrinted
    <3>4. Steps(p, "filling pointer", text, seen[a])
      BY <1>t, <2>1, <3>1, <3>2, StepsOn
    <3>5. EntryKept(p, "filling pointer", text, seen[a], a)
      BY <2>1, SameEntry
    <3>6. StateKept(p, "filling pointer", text, seen[a])
      BY <2>1, <3>3 DEF StateKept
    <3>7. TextKept(p, text, seen[a])
      BY <1>t, <2>1, <2>2, <3>3 DEF TextKept, TextRight
    <3>8. QED
      BY <1>t, <3>4, <3>5, <3>6, <3>7, ElementKeeps
  <2>5. QED
    BY <2>3, <2>4
<1>5. CASE StorePointer(p)
  <2>1. call \in Calls /\ call # 0 /\ p \in Positions(call) /\ state[p] = "filling pointer"
    BY <1>5, CallNotZero DEF StorePointer, Working
  <2>2. v \in InModule
    BY <2>1 DEF PrintInv, TellingInv, WorkersRight
  <2>3. v \in Addresses /\ v \notin Objects /\ v \notin Forms /\ v \notin Game /\ v \notin Foreign /\ a = v
    <3>1. v \in Addresses /\ v \notin Objects /\ v \notin Forms /\ v \notin Game /\ v \notin Foreign
      BY <2>2, Apart
    <3>2. QED
      BY <3>1, AddressObject
  <2>4. Printed(p, Void) /\ UNCHANGED <<dataVars, gameVars, call>>
    BY <1>5 DEF StorePointer
  <2>5. Void.kind = "void"
    BY DEF Void, Text
  <2>6. StateKept(p, "done", Void, seen'[v])
    BY <2>5 DEF StateKept
  <2>7. TextKept(p, Void, seen'[v])
    BY <1>t, <2>3, <2>5 DEF TextKept, TextRight
  <2>8. EntryKept(p, "done", Void, seen'[v], v)
    <3>1. CASE seen[v] = NotSeen
      <4> DEFINE e == Entry(p, Void, FALSE)
      <4>2. seen'[v] = e
        BY <1>5, <1>t, <2>3, <3>1 DEF StorePointer
      <4>3. e # NotSeen /\ e.text = Void /\ e.pos = p /\ EntryRight(v, e)
        BY <2>1, <2>2, NewPointer
      <4> HIDE DEF e
      <4>4. EntryKept(p, "done", Void, e, v)
        BY <2>5, <3>1, <4>3 DEF EntryKept
      <4>5. QED
        BY <4>2, <4>4
    <3>2. CASE seen[v] # NotSeen
      <4>1. seen'[v] = seen[v]
        BY <1>5, <3>2 DEF StorePointer
      <4>2. EntryKept(p, "done", Void, seen[v], v)
        BY <2>1, <2>2, SameEntry
      <4>3. QED
        BY <4>1, <4>2
    <3>3. QED
      BY <3>1, <3>2
  <2>9. Steps(p, "done", Void, seen'[v])
    <3>1. \A b \in Addresses : seen'[b] = IF b = ObjectAt(call, p) THEN seen'[v] ELSE seen[b]
      <4>1. PICK e : e = Entry(p, Void, FALSE)
        OBVIOUS
      <4>2. seen' = [seen EXCEPT ![v] = e] \/ seen' = seen
        BY <1>5, <4>1 DEF StorePointer
      <4>3. QED
        BY <1>t, <2>3, <4>2
    <3>2. QED
      BY <1>t, <2>1, <2>4, <3>1, StepsPrinted
  <2>10. QED
    <3>1. PICK e : e = seen'[v]
      OBVIOUS
    <3>2. Steps(p, "done", Void, e) /\ EntryKept(p, "done", Void, e, ObjectAt(call, p))
      BY <1>t, <2>3, <2>8, <2>9, <3>1
    <3>3. StateKept(p, "done", Void, e) /\ TextKept(p, Void, e)
      BY <2>6, <2>7, <3>1
    <3>4. QED
      BY <3>2, <3>3, ElementKeeps
<1>6. CASE MeetPlain(p)
  <2>1. call \in Calls /\ p \in Positions(call) /\ state[p] = "todo"
    BY <1>6 DEF MeetPlain, Todo, Working
  <2>2. /\ a \notin alive \cup InModule \/ v \in Forms
        /\ UNCHANGED <<dataVars, gameVars, call, seen>>
    BY <1>6 DEF MeetPlain
  <2>3. PICK text \in {Void, Plain} : Printed(p, text) /\ (text = Void => v \in Objects)
    <3>1. Void # Plain
      BY DEF Void, Plain, Text
    <3>2. QED
      BY <1>6, <3>1 DEF MeetPlain
  <2>4. text.kind \in {"void", "plain"} /\ (text.kind = "void" => v \in Addresses)
    BY <2>3, Apart DEF Void, Plain, Text
  <2>5. v \notin Objects \cap alive
    <3>1. SUFFICES ASSUME v \in Objects, v \in alive PROVE FALSE
      OBVIOUS
    <3>2. v \in Addresses /\ v \notin Forms
      BY <3>1, Apart
    <3>3. QED
      BY <2>2, <3>1, <3>2, AddressObject
  <2>6. Steps(p, "done", text, seen[a])
    BY <1>t, <2>1, <2>2, <2>3, StepsPrinted
  <2>7. EntryKept(p, "done", text, seen[a], a)
    BY <2>1, SameEntry
  <2>8. StateKept(p, "done", text, seen[a])
    BY <2>4 DEF StateKept
  <2>9. TextKept(p, text, seen[a])
    BY <1>t, <2>4, <2>5 DEF TextKept, TextRight
  <2>10. QED
    BY <1>t, <2>6, <2>7, <2>8, <2>9, ElementKeeps
<1>7. QED
  BY <1>1, <1>2, <1>3, <1>4, <1>5, <1>6 DEF Analyse

-----------------------------------------------------------------------------
(* The invariant                                                            *)

\* What backfilling puts at a position.
LEMMA BackfilledIs ==
  ASSUME TypeOK, NEW cs, NEW c \in Calls, NEW p \in Positions(c)
  PROVE  Backfilled(cs)[c][p] =
           IF c \in cs /\ results[c][p].kind = "void" /\ Value(c, p) \in Addresses /\ seen[Value(c, p)] # NotSeen
             THEN seen[Value(c, p)].text ELSE results[c][p]
<1>1. CASE c \notin cs
  <2>1. Backfilled(cs)[c] = results[c]
    BY <1>1 DEF Backfilled
  <2>2. QED
    BY <1>1, <2>1
<1>2. CASE c \in cs
  <2>1. Backfilled(cs)[c] =
          [q \in Positions(c) |->
            IF results[c][q].kind = "void" /\ Value(c, q) \in Addresses /\ seen[Value(c, q)] # NotSeen
              THEN seen[Value(c, q)].text ELSE results[c][q]]
    BY <1>2 DEF Backfilled
  <2>2. Backfilled(cs)[c][p] =
          IF results[c][p].kind = "void" /\ Value(c, p) \in Addresses /\ seen[Value(c, p)] # NotSeen
            THEN seen[Value(c, p)].text ELSE results[c][p]
    BY <2>1
  <2>3. QED
    BY <1>2, <2>2
<1>3. QED
  BY <1>1, <1>2

\* A call that ends turns to the next one.
LEMMA TurnsNext ==
  ASSUME TypeOK, AllDone, NEW cs, results' = Backfilled(cs) \/ UNCHANGED results, Begin(call + 1),
         UNCHANGED <<dataVars, gameVars, seen>>
  PROVE  Turns(call + 1)
<1>1. call \in Calls /\ call + 1 \in call + 1 .. LastOfPass2 + 1 /\ \A p \in Positions(call) : state[p] = "done"
  BY CallOrder DEF AllDone, Working
<1>2. \A d \in Calls : \A q \in Positions(d) :
        \/ results'[d][q] = results[d][q]
        \/ /\ results[d][q].kind = "void"
           /\ Value(d, q) \in Addresses /\ seen[Value(d, q)] # NotSeen
           /\ results'[d][q] = seen[Value(d, q)].text
  BY BackfilledIs
<1>3. QED
  BY <1>1, <1>2 DEF Turns, dataVars, gameVars

\* What is collected stays right while nothing is collected.
LEMMA CollectedAlone ==
  ASSUME PrintInv, UNCHANGED <<relevant, collected>>, call \in Nat, call' \in Nat, call <= call',
         call' \in 2 .. LastOfPass1 => call \in 2 .. LastOfPass1, changes' = 0 => changes = 0
  PROVE  CollectedRight'
<1>1. \A c \in collected : c < call /\ c <= LastOfPass1 /\ c \in Nat
  <2>1. \A c \in collected : c < call /\ c <= LastOfPass1
    BY DEF PrintInv, CollectedRight
  <2>2. collected \subseteq Calls
    BY TypeOKSplit DEF PrintInv, TableInv
  <2>3. \A c \in Calls : c \in Nat
    BY CallOrder
  <2>4. QED
    BY <2>1, <2>2, <2>3
<1>2. \A c \in collected' : c < call' /\ c <= LastOfPass1
  BY <1>1
<1>3. call' <= LastOfPass1 => call <= LastOfPass1
  BY CallOrder
<1>4. \A v : ObjectOf(v)' = ObjectOf(v)
  BY DEF ObjectOf
<1>5. QED
  BY <1>2, <1>3, <1>4 DEF PrintInv, CollectedRight, Described

\* What is printed at the start.
LEMMA PrintInit == Init => PrintInv
<1> SUFFICES ASSUME Init PROVE PrintInv
  OBVIOUS
<1>1. call = 0 /\ collected = {} /\ \A v \in Values : relevant[v] = NotRelevant
  BY DEF Init
<1>2. \A p \in 0 .. MaxLength - 1 : state[p] = "done"
  BY DEF Init
<1>3. \A c \in Calls : \A p \in Positions(c) : results[c][p].kind = "none"
  BY DEF Init, NoText, Text
<1>4. EntriesRight /\ ReservedRight /\ EntriesTold /\ GameStays
  BY <1>1 DEF EntriesRight, ReservedRight, EntriesTold, GameStays
<1>5. WorkersRight /\ ResultsRight /\ FormsTold
  BY <1>2, <1>3 DEF WorkersRight, ResultsRight, FormsTold, TextRight
<1>6. PrintedRight
  <2>1. \A c \in Calls : ~(c < 0) /\ c # 0
    BY CallOrder
  <2>2. QED
    BY <1>1, <1>3, <2>1 DEF PrintedRight
<1>7. CollectedRight
  <2>1. \A v \in Forms \cup Objects : v \in Values
    BY DEF Values, Addresses, Objects
  <2>2. 0 \notin 2 .. LastOfPass1
    BY CallOrder
  <2>3. QED
    BY <1>1, <2>1, <2>2 DEF CollectedRight
<1>8. QED
  BY <1>4, <1>5, <1>6, <1>7, TableInit DEF PrintInv, TellingInv

\* The reset of the table.
LEMMA ResetKeeps ==
  ASSUME PrintInv, Reset
  PROVE  TellingInv' /\ CollectedRight'
<1>1. call = 0 /\ call' = 1 /\ 1 \in Calls /\ 0 \in Nat /\ 1 \in Nat
  BY CallOrder DEF Reset, Begin
<1>2. \A c \in Calls : 0 < c /\ ~(c < 1)
  BY CallOrder
<1>3. \A c \in Calls : \A p \in Positions(c) : results'[c][p].kind = "none"
  BY <1>1, <1>2 DEF PrintInv, TellingInv, PrintedRight, Reset
<1>4. \A a \in Addresses : seen'[a] = NotSeen
  BY DEF Reset
<1>5. NotSeen.text.kind = "none"
  BY DEF NotSeen, NoText, Text
<1>6. \A q \in 0 .. MaxLength - 1 :
        /\ state'[q] \in {"todo", "done"}
        /\ state'[q] # "done" => q \in Positions(1)
        /\ q \in Positions(1) => state'[q] # "done"
  <2>1. ASSUME NEW q \in 0 .. MaxLength - 1
        PROVE  state'[q] = IF q < Length(1) THEN "todo" ELSE "done"
    BY <1>1 DEF Reset, Begin
  <2>2. \A q \in 0 .. MaxLength - 1 : q \in Positions(1) <=> q < Length(1)
    BY <1>1, PositionsUpTo, MaxLengthBounds
  <2>3. QED
    BY <2>1, <2>2
<1>7. EntriesRight' /\ ReservedRight' /\ EntriesTold'
  BY <1>4, <1>5 DEF EntriesRight, ReservedRight, EntriesTold
<1>8. WorkersRight'
  BY <1>1, <1>6 DEF WorkersRight
<1>9. ResultsRight' /\ FormsTold'
  BY <1>3 DEF ResultsRight, FormsTold, TextRight
<1>10. PrintedRight'
  <2>1. \A q \in Positions(1) : state'[q] # "done"
    BY <1>1, <1>6, MaxLengthBounds
  <2>2. QED
    BY <1>1, <1>2, <1>3, <2>1 DEF PrintedRight
<1>11. GameStays'
  <2>1. \A a \in Objects : a \in Addresses
    BY DEF Addresses
  <2>2. QED
    BY <1>3, <1>4, <2>1 DEF GameStays
<1>12. CollectedRight'
  <2>1. UNCHANGED <<relevant, collected, changes>>
    BY DEF Reset, gameVars
  <2>2. collected = {}
    <3>1. ASSUME NEW c \in collected PROVE FALSE
      <4>1. c < 0 /\ c \in Calls
        BY <1>1, TypeOKSplit DEF PrintInv, CollectedRight, TableInv
      <4>2. c \in Nat
        BY <4>1, CallOrder
      <4>3. QED
        BY <4>1, <4>2
    <3>2. QED
      BY <3>1
  <2>3. 0 <= LastOfPass1 /\ 1 \notin 2 .. LastOfPass1
    BY CallOrder
  <2>4. \A v : ObjectOf(v)' = ObjectOf(v)
    BY DEF ObjectOf
  <2>5. QED
    BY <1>1, <2>1, <2>2, <2>3, <2>4 DEF PrintInv, CollectedRight, Described
<1>13. QED
  BY <1>7, <1>8, <1>9, <1>10, <1>11, <1>12 DEF TellingInv

\* The results of a part of the first pass that is over can be collected.
LEMMA PassFits ==
  ASSUME PrintInv, NEW c, Turns(c), TellingInv', call <= LastOfPass1, \A p \in Positions(call) : state[p] = "done",
         NEW cs \in SUBSET (1 .. call)
  PROVE  TextsFit(cs, results')
<1>1. call \in Calls /\ call # 0 /\ call \in Nat /\ call' = c /\ c # 0 /\ cs \in SUBSET Calls
  <2>1. call \in Calls /\ call' = c /\ c \in call + 1 .. LastOfPass2 + 1
    BY DEF Turns, Begin
  <2>2. call # 0 /\ call \in Nat /\ call <= LastOfPass2
    BY <2>1, CallOrder
  <2>3. c # 0
    BY <2>1, <2>2
  <2>4. \A d \in 1 .. call : d \in Calls
    BY <2>2, CallOrder
  <2>5. QED
    BY <2>1, <2>2, <2>3, <2>4
<1>2. \A d, q : Value(d, q)' = Value(d, q) /\ ObjectAt(d, q)' = ObjectAt(d, q)
  BY DEF Turns, Value, ObjectAt, ObjectOf
<1>3. \A v : ObjectOf(v)' = ObjectOf(v)
  BY DEF ObjectOf
<1>5. ASSUME NEW d \in cs, NEW q \in Positions(d)
      PROVE  /\ results'[d][q].kind = "full" => ObjectOf(results'[d][q].of) = ObjectAt(d, q)
             /\ changes = 0 /\ Value(d, q) \in Objects \cap alive => results'[d][q].kind \in {"full", "see"}
  <2>1. d \in Calls /\ (d < call \/ d = call)
    <3>1. d \in 1 .. call
      OBVIOUS
    <3>2. d < call \/ d = call
      BY <1>1, <3>1
    <3>3. QED
      BY <1>1, <3>2
  <2>2. results[d][q].kind # "none"
    BY <2>1 DEF PrintInv, TellingInv, PrintedRight
  <2>3. results'[d][q].kind # "none"
    BY <1>1, <2>1, <2>2, TurnTells
  <2>4. results'[d][q].kind = "full" => ObjectOf(results'[d][q].of) = ObjectAt(d, q)
    BY <1>2, <1>3, <2>1 DEF TellingInv, ResultsRight, TextRight
  <2>5. alive' = alive /\ changes' = changes
    BY DEF Turns
  <2>6. changes = 0 /\ Value(d, q) \in Objects \cap alive => results'[d][q].kind \in {"full", "see", "none"}
    BY <1>1, <1>2, <2>1, <2>5 DEF TellingInv, GameStays
  <2>7. QED
    BY <2>3, <2>4, <2>6
<1>6. QED
  BY <1>5 DEF TextsFit

\* Collecting keeps what is collected right.
LEMMA CollectKeeps ==
  ASSUME PrintInv, call \in 1 .. LastOfPass1, NEW cs \in SUBSET (1 .. call), NEW texts, TextsFit(cs, texts),
         relevant' = Collected(cs, texts), call' \in Nat, call < call', changes' = changes,
         \A c \in collected' : c \in collected \/ c \in cs,
         call' \in 2 .. LastOfPass1 => 1 \in collected',
         call' <= LastOfPass1 => cs = {1},
         \A a \in Addresses : seen[a].text.kind # "empty"
  PROVE  CollectedRight'
<1>1. call # 0 /\ call \in Nat /\ cs \in SUBSET Calls /\ \A c \in cs : c <= call
  BY CallOrder
<1>2. \A c \in collected : c < call /\ c <= LastOfPass1 /\ c \in Nat
  <2>1. \A c \in collected : c < call /\ c <= LastOfPass1
    BY DEF PrintInv, CollectedRight
  <2>2. collected \subseteq Calls
    BY TypeOKSplit DEF PrintInv, TableInv
  <2>3. \A c \in Calls : c \in Nat
    BY CallOrder
  <2>4. QED
    BY <2>1, <2>2, <2>3
<1>3. \A c \in collected' : c < call' /\ c <= LastOfPass1
  <2>1. ASSUME NEW c \in collected PROVE c < call' /\ c <= LastOfPass1
    BY <1>1, <1>2
  <2>2. ASSUME NEW c \in cs PROVE c < call' /\ c <= LastOfPass1
    <3>1. c \in 1 .. call /\ call <= LastOfPass1
      OBVIOUS
    <3>2. QED
      BY <1>1, <3>1, CallOrder
  <2>3. QED
    BY <2>1, <2>2
<1>4. ASSUME call' <= LastOfPass1, NEW v \in Values, relevant'[v] # NotRelevant
      PROVE  relevant'[v].distance = 0
  <2>1. CASE relevant[v] # NotRelevant \/ Occurrences(v, cs, texts) = {}
    <3>1. relevant'[v] = relevant[v]
      BY <2>1, CollectedBefore
    <3>2. QED
      BY <1>4, <3>1 DEF PrintInv, CollectedRight
  <2>2. CASE relevant[v] = NotRelevant /\ Occurrences(v, cs, texts) # {}
    <3>1. PICK o \in Occurrences(v, cs, texts) :
            o[1] \in cs /\ o[2] \in Positions(o[1]) /\ Collected(cs, texts)[v].distance = Distance(o[1], o[2])
      BY <1>1, <2>2, CollectedFrom
    <3>2. o[1] = 1
      BY <1>4, <3>1
    <3>3. Distance(1, o[2]) = 0
      BY DEF Distance, RegisterCalls
    <3>4. QED
      BY <3>1, <3>2, <3>3
  <2>3. QED
    BY <2>1, <2>2
<1>5. /\ \A v \in Forms : relevant'[v] # NotRelevant => Described(ObjectOf(v), relevant'[v].text)
      /\ changes = 0 => \A v \in Objects : relevant'[v] # NotRelevant => Described(v, relevant'[v].text)
  BY <1>1, CollectedDescribed
<1>6. ASSUME NEW v \in Values, relevant'[v] # NotRelevant PROVE v \in Forms \/ GameRelevant(v)
  BY <1>1, <1>6, CollectedCounts
<1>7. /\ \A v : ObjectOf(v)' = ObjectOf(v)
      /\ \A v : GameRelevant(v)' = GameRelevant(v)
  BY DEF ObjectOf
<1>8. QED
  BY <1>3, <1>4, <1>5, <1>6, <1>7 DEF CollectedRight, Described

\* Every step keeps the invariant.
LEMMA PrintNext == PrintInv /\ [Next]_vars => PrintInv'
<1> SUFFICES ASSUME PrintInv, [Next]_vars PROVE TellingInv' /\ CollectedRight'
  BY TableNext DEF PrintInv
<1>t. TypeOK /\ call \in Nat /\ call <= call
  <2>1. call \in 0 .. LastOfPass2 + 1 /\ TypeOK
    BY TypeOKSplit DEF PrintInv, TableInv
  <2>2. QED
    BY <2>1, CallOrder
<1>done. ASSUME AllDone
         PROVE  /\ call \in Calls /\ call \in Nat /\ call # 0 /\ call + 1 \in Nat /\ call < call + 1
                /\ \A p \in Positions(call) : state[p] = "done"
  <2>1. call \in Calls /\ \A p \in Positions(call) : state[p] = "done"
    BY <1>done DEF AllDone, Working
  <2>2. QED
    BY <2>1, CallOrder
<1>1. CASE Reset
  BY <1>1, ResetKeeps
<1>2. ASSUME NEW p \in 0 .. MaxLength - 1, Analyse(p) PROVE TellingInv' /\ CollectedRight'
  <2>1. TellingInv'
    BY <1>2, AnalyseKeeps
  <2>2. UNCHANGED <<relevant, collected, call, changes>>
    BY <1>2 DEF Analyse, Meet, Complete, MeetForeign, MeetPointer, StorePointer, MeetPlain, gameVars
  <2>3. CollectedRight'
    BY <1>t, <2>2, CollectedAlone
  <2>4. QED
    BY <2>1, <2>3
<1>3. CASE RegistersDone
  <2>1. /\ AllDone /\ results' = Backfilled({call}) /\ Begin(call + 1) /\ call' = call + 1
        /\ UNCHANGED <<dataVars, gameVars, seen>>
    BY <1>3 DEF RegistersDone, Begin
  <2>2. Turns(call + 1) /\ TellingInv'
    BY <1>t, <2>1, TurnsNext, TurnKeeps
  <2>3. CASE call # 1
    <3>1. UNCHANGED <<relevant, collected>> /\ call = RegsOfPass2
      BY <1>3, <2>3 DEF RegistersDone, RegisterCalls
    <3>2. call' \notin 2 .. LastOfPass1 /\ changes' = changes
      BY <2>1, <3>1, CallOrder DEF gameVars
    <3>3. CollectedRight'
      BY <1>done, <2>1, <3>1, <3>2, CollectedAlone
    <3>4. QED
      BY <2>2, <3>3
  <2>4. CASE call = 1
    <3>1. collected' = {1} /\ relevant' = Collected({1}, results') /\ changes' = changes
      BY <1>3, <2>4 DEF RegistersDone, gameVars
    <3>2. {1} \in SUBSET (1 .. call) /\ call \in 1 .. LastOfPass1 /\ call <= LastOfPass1
      BY <2>4, CallOrder
    <3>3. PICK r : r = results'
      OBVIOUS
    <3>4. TextsFit({1}, r)
      BY <1>done, <2>1, <2>2, <3>2, <3>3, PassFits
    <3>5. CollectedRight'
      <4>1. relevant' = Collected({1}, r)
        BY <3>1, <3>3
      <4>2. 1 \in collected' /\ \A c \in collected' : c \in {1}
        BY <3>1
      <4>3. \A a \in Addresses : seen[a].text.kind # "empty"
        BY <1>done, <2>1, NoneReserved
      <4>4. QED
        BY <1>done, <2>1, <3>1, <3>2, <3>4, <4>1, <4>2, <4>3, CollectKeeps
    <3>6. QED
      BY <2>2, <3>5
  <2>5. QED
    BY <2>3, <2>4
<1>4. CASE BlockDone
  <2>1. /\ AllDone /\ UNCHANGED results /\ Begin(call + 1) /\ call' = call + 1
        /\ UNCHANGED <<dataVars, gameVars, seen>>
    BY <1>4 DEF BlockDone, Begin
  <2>2. TellingInv'
    BY <1>t, <2>1, TurnsNext, TurnKeeps
  <2>3. UNCHANGED <<relevant, collected, changes>> /\ call # 1
    BY <1>4 DEF BlockDone, RegisterCalls, gameVars
  <2>4. call' \in 2 .. LastOfPass1 => call \in 2 .. LastOfPass1
    BY <1>done, <2>1, <2>3, CallOrder
  <2>5. QED
    BY <1>done, <2>1, <2>2, <2>3, <2>4, CollectedAlone
<1>5. CASE Pass1Done
  <2>1. /\ AllDone /\ results' = Backfilled(2 .. LastOfPass1) /\ call = LastOfPass1 /\ call' = call + 1
        /\ UNCHANGED <<dataVars, gameVars, seen, changes>> /\ Begin(call + 1)
    BY <1>5 DEF Pass1Done, Begin, RegsOfPass2, gameVars
  <2>2. Turns(call + 1) /\ TellingInv'
    BY <1>t, <2>1, TurnsNext, TurnKeeps
  <2>3. /\ collected' = collected \cup 2 .. LastOfPass1
        /\ relevant' = Collected(2 .. LastOfPass1, results')
    BY <1>5 DEF Pass1Done
  <2>4. /\ 2 .. LastOfPass1 \in SUBSET (1 .. call) /\ call \in 1 .. LastOfPass1 /\ call <= LastOfPass1
        /\ ~(call' <= LastOfPass1) /\ call' \notin 2 .. LastOfPass1
    BY <2>1, CallOrder
  <2>5. PICK r, cs : r = results' /\ cs = 2 .. LastOfPass1
    OBVIOUS
  <2>6. TextsFit(cs, r)
    BY <1>done, <2>1, <2>2, <2>4, <2>5, PassFits
  <2>7. CollectedRight'
    <3>1. relevant' = Collected(cs, r) /\ cs \in SUBSET (1 .. call) /\ \A c \in collected' : c \in collected \/ c \in cs
      BY <2>3, <2>4, <2>5
    <3>2. \A a \in Addresses : seen[a].text.kind # "empty"
      BY <1>done, <2>1, NoneReserved
    <3>3. QED
      BY <1>done, <2>1, <2>4, <2>6, <3>1, <3>2, CollectKeeps
  <2>8. QED
    BY <2>2, <2>7
<1>6. CASE Pass1Fails
  <2>1. /\ call \in 1 .. LastOfPass1 /\ call \in Calls /\ call < RegsOfPass2 /\ RegsOfPass2 \in Nat
        /\ RegsOfPass2 \in call + 1 .. LastOfPass2 + 1 /\ RegsOfPass2 \notin 2 .. LastOfPass1
    BY <1>6, CallOrder DEF Pass1Fails
  <2>2. /\ Begin(RegsOfPass2) /\ call' = RegsOfPass2
        /\ UNCHANGED <<registers, stack, alive, changes, seen, results, relevant, collected>>
    BY <1>6 DEF Pass1Fails, Begin, dataVars, gameVars
  <2>3. \A p \in Positions(call) : state[p] # "filling"
    BY <1>6 DEF Pass1Fails, AllDone
  <2>4. Turns(RegsOfPass2)
    BY <2>1, <2>2, <2>3 DEF Turns
  <2>5. TellingInv' /\ CollectedRight'
    BY <1>t, <2>1, <2>2, <2>4, TurnKeeps, CollectedAlone
  <2>6. QED
    BY <2>5
<1>7. CASE Pass2Done
  <2>1. /\ AllDone /\ results' = Backfilled(RegsOfPass2 .. LastOfPass2) /\ call = LastOfPass2 /\ call' = call + 1
        /\ UNCHANGED <<dataVars, gameVars, seen, relevant, collected, changes>> /\ Begin(call + 1)
    BY <1>7 DEF Pass2Done, Begin, gameVars
  <2>2. TellingInv'
    BY <1>t, <2>1, TurnsNext, TurnKeeps
  <2>3. call' \notin 2 .. LastOfPass1
    BY <2>1, CallOrder
  <2>4. QED
    BY <1>done, <2>1, <2>2, <2>3, CollectedAlone
<1>8. CASE GameChanges
  <2>1. /\ UNCHANGED <<registers, stack, seen, call, state, results, relevant, collected>>
        /\ changes' # 0
    <3>1. changes \in 0 .. MaxChanges /\ changes' = changes + 1
      BY <1>8, <1>t DEF GameChanges, TypeOK
    <3>2. changes' # 0
      BY <3>1
    <3>3. QED
      BY <1>8, <3>2 DEF GameChanges, dataVars
  <2>2. CollectedRight'
    BY <1>t, <2>1, CollectedAlone
  <2>3. /\ \A c, q : Value(c, q)' = Value(c, q) /\ ObjectAt(c, q)' = ObjectAt(c, q)
        /\ \A v : ObjectOf(v)' = ObjectOf(v)
    BY <2>1 DEF Value, ObjectAt, ObjectOf
  <2>4. EntriesRight' /\ ReservedRight' /\ WorkersRight' /\ PrintedRight'
    <3>1. EntriesRight'
      BY <2>1, <2>3 DEF PrintInv, TellingInv, EntriesRight, EntryRight, EntryPlaced, FlagRight, Near
    <3>2. ReservedRight'
      BY <2>1, <2>3 DEF PrintInv, TellingInv, ReservedRight
    <3>3. WorkersRight'
      BY <2>1, <2>3 DEF PrintInv, TellingInv, WorkersRight
    <3>4. PrintedRight'
      BY <2>1 DEF PrintInv, TellingInv, PrintedRight
    <3>5. QED
      BY <3>1, <3>2, <3>3, <3>4
  <2>5. EntriesTold' /\ FormsTold'
    BY <2>1, <2>3 DEF PrintInv, TellingInv, EntriesTold, FormsTold, ToldAt
  <2>6. ResultsRight'
    BY <2>1, <2>3 DEF PrintInv, TellingInv, ResultsRight, TextRight
  <2>7. GameStays'
    BY <2>1 DEF GameStays
  <2>8. QED
    BY <2>2, <2>4, <2>5, <2>6, <2>7 DEF TellingInv
<1>9. CASE UNCHANGED vars
  <2>1. UNCHANGED <<registers, stack, alive, changes, seen, call, state, results, relevant, collected>>
    BY <1>9 DEF vars, dataVars, gameVars
  <2>2. CollectedRight'
    BY <1>t, <2>1, CollectedAlone
  <2>3. /\ \A c, q : Value(c, q)' = Value(c, q) /\ ObjectAt(c, q)' = ObjectAt(c, q)
        /\ \A v : ObjectOf(v)' = ObjectOf(v)
    BY <2>1 DEF Value, ObjectAt, ObjectOf
  <2>4. EntriesRight' /\ ReservedRight' /\ WorkersRight' /\ PrintedRight'
    <3>1. EntriesRight'
      BY <2>1, <2>3 DEF PrintInv, TellingInv, EntriesRight, EntryRight, EntryPlaced, FlagRight, Near
    <3>2. ReservedRight'
      BY <2>1, <2>3 DEF PrintInv, TellingInv, ReservedRight
    <3>3. WorkersRight'
      BY <2>1, <2>3 DEF PrintInv, TellingInv, WorkersRight
    <3>4. PrintedRight'
      BY <2>1 DEF PrintInv, TellingInv, PrintedRight
    <3>5. QED
      BY <3>1, <3>2, <3>3, <3>4
  <2>5. EntriesTold' /\ FormsTold'
    BY <2>1, <2>3 DEF PrintInv, TellingInv, EntriesTold, FormsTold, ToldAt
  <2>6. ResultsRight'
    BY <2>1, <2>3 DEF PrintInv, TellingInv, ResultsRight, TextRight
  <2>7. GameStays'
    BY <2>1, <2>3 DEF PrintInv, TellingInv, GameStays
  <2>8. QED
    BY <2>2, <2>4, <2>5, <2>6, <2>7 DEF TellingInv
<1>10. QED
  BY <1>1, <1>2, <1>3, <1>4, <1>5, <1>6, <1>7, <1>8, <1>9 DEF Next

\* The invariant holds.
THEOREM PrintInvariant == Spec => []PrintInv
BY PrintInit, PrintNext, PTL DEF Spec

-----------------------------------------------------------------------------
(* What the report says                                                     *)

\* The report is printed as the last step of the second pass has left it.
LEMMA ReportMade ==
  ASSUME PrintInv, [Next]_vars, call' = LastOfPass2 + 1
  PROVE  \/ call = LastOfPass2 + 1 /\ UNCHANGED <<registers, stack, seen, results>>
         \/ Pass2Done
<1>0. LastOfPass2 \in Nat /\ LastOfPass1 < LastOfPass2 /\ LastOfPass2 \notin RegisterCalls /\ RegsOfPass2 < LastOfPass2
  BY CallOrder, PassesEnd
<1>1. CASE Reset
  BY <1>0, <1>1, CallOrder DEF Reset, Begin
<1>2. ASSUME NEW p \in 0 .. MaxLength - 1, Analyse(p) PROVE FALSE
  <2>1. call' = call /\ call \in Calls
    BY <1>2 DEF Analyse, Meet, Complete, MeetForeign, MeetPointer, StorePointer, MeetPlain, Todo, Working
  <2>2. QED
    BY <2>1, CallOrder
<1>3. CASE RegistersDone \/ BlockDone
  <2>1. call' = call + 1 /\ call \in Calls /\ call # LastOfPass2
    BY <1>0, <1>3 DEF RegistersDone, BlockDone, Begin, AllDone, Working
  <2>2. QED
    BY <2>1, CallOrder
<1>4. CASE Pass1Done \/ Pass1Fails
  BY <1>0, <1>4, CallOrder DEF Pass1Done, Pass1Fails, Begin
<1>5. CASE GameChanges
  BY <1>5 DEF GameChanges, dataVars
<1>6. CASE UNCHANGED vars
  BY <1>6 DEF vars, dataVars
<1>7. QED
  BY <1>1, <1>2, <1>3, <1>4, <1>5, <1>6 DEF Next

\* What the last step leaves: no worker is busy, every position of the second pass is
\* printed, and a pointer has given way to what the table has of its address.
LEMMA ReportLeft ==
  ASSUME PrintInv, Pass2Done
  PROVE  /\ call \in Calls /\ call # 0 /\ UNCHANGED <<registers, stack, seen>>
         /\ \A a \in Addresses : seen[a] # NotSeen => EntryRight(a, seen[a]) /\ seen[a].text.kind # "empty"
         /\ \A c \in RegsOfPass2 .. LastOfPass2 : \A p \in Positions(c) :
              /\ c \in Calls /\ results[c][p].kind # "none"
              /\ results'[c][p] =
                   IF results[c][p].kind = "void" /\ Value(c, p) \in Addresses /\ seen[Value(c, p)] # NotSeen
                     THEN seen[Value(c, p)].text ELSE results[c][p]
<1>1. call \in Calls /\ call = LastOfPass2 /\ \A p \in Positions(call) : state[p] = "done"
  BY DEF Pass2Done, AllDone, Working
<1>2. call # 0
  BY <1>1, CallNotZero
<1>3. UNCHANGED <<registers, stack, seen>>
  BY DEF Pass2Done, dataVars
<1>4. \A a \in Addresses : seen[a].text.kind # "empty"
  BY <1>1, <1>2, NoneReserved
<1>5. \A a \in Addresses : seen[a] # NotSeen => EntryRight(a, seen[a])
  BY <1>2 DEF PrintInv, TellingInv, EntriesRight
<1>6. ASSUME NEW c \in RegsOfPass2 .. LastOfPass2, NEW p \in Positions(c)
      PROVE  /\ c \in Calls /\ results[c][p].kind # "none"
             /\ results'[c][p] =
                  IF results[c][p].kind = "void" /\ Value(c, p) \in Addresses /\ seen[Value(c, p)] # NotSeen
                    THEN seen[Value(c, p)].text ELSE results[c][p]
  <2>1. c \in Calls /\ RegsOfPass2 <= c /\ (c < call \/ c = call)
    BY <1>1, CallOrder
  <2>2. results[c][p].kind # "none"
    BY <1>1, <2>1 DEF PrintInv, TellingInv, PrintedRight
  <2>3. results' = Backfilled(RegsOfPass2 .. LastOfPass2) /\ TypeOK
    BY DEF Pass2Done, PrintInv, TableInv
  <2>4. PICK cs : cs = RegsOfPass2 .. LastOfPass2
    OBVIOUS
  <2>5. c \in cs /\ results'[c][p] = Backfilled(cs)[c][p]
    BY <2>3, <2>4
  <2>6. QED
    BY <2>1, <2>2, <2>3, <2>5, BackfilledIs
<1>7. QED
  BY <1>1, <1>2, <1>3, <1>4, <1>5, <1>6

\* However the workers raced, no value is printed as a mere pointer if an object, of the
\* game or of another module, was found at its address (backfill_void_pointers).
THEOREM BackfillIsComplete == Spec => []BackfillComplete
<1>1. Init => BackfillComplete
  BY CallOrder DEF Init, BackfillComplete
<1>2. PrintInv /\ BackfillComplete /\ [Next]_vars => BackfillComplete'
  <2> SUFFICES ASSUME PrintInv, BackfillComplete, [Next]_vars, call' = LastOfPass2 + 1,
                      NEW c \in RegsOfPass2 .. LastOfPass2, NEW p \in Positions(c), results'[c][p].kind = "void",
                      NEW a \in Addresses, a = Value(c, p)', seen'[a].text.kind = "full"
               PROVE  FALSE
    BY DEF BackfillComplete
  <2>1. CASE call = LastOfPass2 + 1 /\ UNCHANGED <<registers, stack, seen, results>>
    <3>1. a = Value(c, p)
      BY <2>1 DEF Value
    <3>2. QED
      BY <2>1, <3>1 DEF BackfillComplete
  <2>2. CASE Pass2Done
    <3>1. a = Value(c, p) /\ UNCHANGED seen
      BY <2>2, ReportLeft DEF Value
    <3>2. seen[a] # NotSeen
      BY <3>1 DEF NotSeen, NoText, Text
    <3>3. QED
      BY <2>2, <3>1, <3>2, ReportLeft
  <2>3. QED
    BY <2>1, <2>2, ReportMade
<1>3. QED
  BY <1>1, <1>2, PrintInvariant, PTL DEF Spec

\* The place of a near label, and what is printed there.
LEMMA NearPlace ==
  ASSUME NEW label \in Labels, Near(label)
  PROVE  \E c \in {RegsOfPass2, RegsOfPass2 + 1} : \E p \in Positions(c) :
           /\ c \in RegsOfPass2 .. LastOfPass2 /\ LabelOf(c, p) = label /\ PrintedAt(label) = results[c][p]
           /\ PrintedAt(label)' = results'[c][p]
<1>1. CASE label[1] = "reg"
  <2>1. PICK i \in 0 .. NumRegs - 1 : label = <<"reg", i>>
    <3>1. \A i : <<"rsp", i>>[1] # "reg"
      OBVIOUS
    <3>2. QED
      BY <1>1, <3>1 DEF Labels
  <2>2. i \in Positions(RegsOfPass2) /\ LabelOf(RegsOfPass2, i) = label
    BY <2>1 DEF Positions, Length, RegisterCalls, LabelOf
  <2>3. PrintedAt(label) = results[RegsOfPass2][i] /\ PrintedAt(label)' = results'[RegsOfPass2][i]
    BY <2>1 DEF PrintedAt
  <2>4. QED
    BY <2>2, <2>3, CallOrder
<1>2. CASE label[1] # "reg"
  <2>1. PICK i \in 0 .. StackSize - 1 : label = <<"rsp", i>> /\ i < Block2
    BY <1>2 DEF Labels, Near
  <2>2. PICK c : c = RegsOfPass2 + 1
    OBVIOUS
  <2>3. c \in RegsOfPass2 .. LastOfPass2 /\ c \in Calls /\ c \notin RegisterCalls /\ ~(c <= LastOfPass1)
    BY <2>2, CallOrder, PassesEnd DEF RegisterCalls
  <2>4. Offset(c) = 0 /\ Length(c) = BlockLength(0, Block2)
    <3>1. c - RegsOfPass2 - 1 = 0
      BY <2>2, CallOrder
    <3>2. 0 * Block2 = 0
      OBVIOUS
    <3>3. QED
      BY <2>3, <3>1, <3>2 DEF Offset, Length
  <2>5. i < BlockLength(0, Block2) /\ BlockLength(0, Block2) \in Nat
    <3>1. (0 + 1) * Block2 = Block2 /\ 0 * Block2 = 0
      OBVIOUS
    <3>2. BlockLength(0, Block2) = IF Block2 > StackSize THEN StackSize ELSE Block2
      BY <3>1 DEF BlockLength
    <3>3. QED
      BY <2>1, <3>2
  <2>6. i \in Positions(c)
    BY <2>4, <2>5 DEF Positions
  <2>7. LabelOf(c, i) = label
    BY <2>1, <2>3, <2>4 DEF LabelOf
  <2>8. i \div Block2 = 0 /\ i % Block2 = i
    BY <2>1
  <2>9. label[1] # "reg" /\ label[2] = i /\ RegsOfPass2 + 1 + 0 = c
    BY <2>1, <2>2, CallOrder
  <2>10. PrintedAt(label) = results[c][i] /\ PrintedAt(label)' = results'[c][i]
    BY <2>8, <2>9 DEF PrintedAt
  <2>11. QED
    BY <2>2, <2>3, <2>6, <2>7, <2>10
<1>3. QED
  BY <1>1, <1>2

\* In the printed report a reference to a register or to the first block of the stack
\* leads to the description of the object, unless memory changed under the analysis:
\* a worker never refers to its own place.
THEOREM NearReferencesAreDescribed == Spec => []ReferencesDescribedNear
<1>1. Init => ReferencesDescribedNear
  BY CallOrder DEF Init, ReferencesDescribedNear
<1>2. PrintInv /\ ReferencesDescribedNear /\ [Next]_vars => ReferencesDescribedNear'
  <2> SUFFICES ASSUME PrintInv, ReferencesDescribedNear, [Next]_vars, call' = LastOfPass2 + 1,
                      NEW c \in RegsOfPass2 .. LastOfPass2, NEW p \in Positions(c), NEW text,
                      text = results'[c][p], text.kind = "see", Near(text.label)
               PROVE  /\ ObjectOf(text.of)' = ObjectOf(text.of)
                      /\ \/ Described(ObjectOf(text.of), PrintedAt(text.label)')
                         \/ PrintedAt(text.label)'.kind = "plain"
    BY DEF ReferencesDescribedNear, Near, Described, ObjectOf
  <2>0. ObjectOf(text.of)' = ObjectOf(text.of)
    BY DEF ObjectOf
  <2>1. CASE call = LastOfPass2 + 1 /\ UNCHANGED <<registers, stack, seen, results>>
    <3>1. text = results[c][p]
      BY <2>1
    <3>2. PrintedAt(text.label)' = PrintedAt(text.label)
      BY <2>1 DEF PrintedAt
    <3>3. QED
      BY <2>0, <2>1, <3>1, <3>2 DEF ReferencesDescribedNear, Near
  <2>2. CASE Pass2Done
    <3>1. /\ \A a \in Addresses : seen[a] # NotSeen => EntryRight(a, seen[a]) /\ seen[a].text.kind # "empty"
          /\ \A d \in RegsOfPass2 .. LastOfPass2 : \A q \in Positions(d) :
               /\ d \in Calls /\ results[d][q].kind # "none"
               /\ results'[d][q] =
                    IF results[d][q].kind = "void" /\ Value(d, q) \in Addresses /\ seen[Value(d, q)] # NotSeen
                      THEN seen[Value(d, q)].text ELSE results[d][q]
      BY <2>2, ReportLeft
    <3>2. c \in Calls /\ text = results[c][p]
      <4>1. CASE results'[c][p] = results[c][p]
        BY <3>1, <4>1
      <4>2. CASE results'[c][p] # results[c][p]
        <5>1. PICK a \in Addresses : seen[a] # NotSeen /\ text = seen[a].text
          BY <3>1, <4>2
        <5>2. EntryRight(a, seen[a])
          BY <3>1, <5>1
        <5>3. QED
          BY <5>1, <5>2 DEF EntryRight, EntryPlaced, Addresses, Objects
      <4>3. QED
        BY <4>1, <4>2
    <3>3. PICK a : a = ObjectAt(c, p)
      OBVIOUS
    <3>4. ObjectOf(text.of) = a /\ a \in Objects /\ a \in Addresses /\ seen[a] # NotSeen /\ text.label = seen[a].label
      <4>1. TextRight(c, p, text, seen[a])
        BY <3>2, <3>3 DEF PrintInv, TellingInv, ResultsRight
      <4>2. QED
        BY <3>3, <4>1, Apart DEF TextRight
    <3>5. text.label \in Labels /\ ObjectOf(ValueAt(text.label)) = a
      BY <3>2, <3>4 DEF PrintInv, TableInv, ResultsOK, NamesObject
    <3>5a. PICK d \in {RegsOfPass2, RegsOfPass2 + 1} : \E q \in Positions(d) :
             /\ d \in RegsOfPass2 .. LastOfPass2 /\ LabelOf(d, q) = text.label
             /\ PrintedAt(text.label)' = results'[d][q]
      BY <3>5, NearPlace
    <3>6. PICK q \in Positions(d) :
            /\ d \in RegsOfPass2 .. LastOfPass2 /\ LabelOf(d, q) = text.label
            /\ PrintedAt(text.label)' = results'[d][q]
      BY <3>5a
    <3>7. d \in Calls /\ ObjectAt(d, q) = a
      BY <3>1, <3>5, <3>6, LabelOfPosition DEF ObjectAt
    <3>8. TextRight(d, q, results[d][q], seen[a])
      BY <3>6, <3>7 DEF PrintInv, TellingInv, ResultsRight
    <3>9. results[d][q].kind \notin {"none", "empty", "see"}
      BY <3>1, <3>4, <3>6, <3>8 DEF TextRight
    <3>10. EntryRight(a, seen[a]) /\ seen[a].text.kind # "empty"
      BY <3>1, <3>4
    <3>11. seen[a].text.kind = "full" /\ ObjectOf(seen[a].text.of) = a
      BY <3>4, <3>10 DEF EntryRight, EntryPlaced, Objects
    <3>12. CASE results[d][q].kind = "full"
      <4>1. results'[d][q] = results[d][q]
        BY <3>1, <3>6, <3>12
      <4>2. ObjectOf(results[d][q].of) = a
        BY <3>7, <3>8, <3>12 DEF TextRight
      <4>3. QED
        BY <2>0, <3>4, <3>6, <3>12, <4>1, <4>2 DEF Described
    <3>13. CASE results[d][q].kind = "void"
      <4>1. Value(d, q) \in Addresses
        BY <3>8, <3>13 DEF TextRight
      <4>2. Value(d, q) = a
        BY <3>7, <4>1, AddressObject DEF ObjectAt
      <4>3. results'[d][q] = seen[a].text
        BY <3>1, <3>4, <3>6, <3>13, <4>1, <4>2
      <4>4. QED
        BY <2>0, <3>4, <3>6, <3>11, <4>3 DEF Described
    <3>14. CASE results[d][q].kind = "plain"
      <4>1. results'[d][q] = results[d][q]
        BY <3>1, <3>6, <3>14
      <4>2. QED
        BY <2>0, <3>6, <3>14, <4>1
    <3>15. results[d][q].kind \in {"full", "void", "plain"}
      <4>1. results[d][q].kind \in {"full", "see", "void", "plain", "empty", "none"}
        <5>1. results[d][q] \in Texts
          BY <3>6, <3>7, TypeOKSplit DEF PrintInv, TableInv
        <5>2. QED
          BY <5>1 DEF Texts
      <4>2. QED
        BY <3>9, <4>1
    <3>16. QED
      BY <3>12, <3>13, <3>14, <3>15
  <2>3. QED
    BY <2>1, <2>2, ReportMade
<1>3. QED
  BY <1>1, <1>2, PrintInvariant, PTL DEF Spec

\* For any sizes of the stack and its blocks and any order of the workers, a reference
\* names its object and, where the passes have the same positions, its description.
THEOREM PrintedReferencesAreRight == Spec => []ReferencesRight
<1>1. ReferencesNameTheObject /\ ReferencesDescribedNear => ReferencesRight
  BY DEF ReferencesRight
<1>2. QED
  BY <1>1, ReferencesAreRight, NearReferencesAreDescribed, PTL

-----------------------------------------------------------------------------
(* The relevant objects                                                     *)

\* A value that leads to the object is relevant, no further from the crash than that.
Listed(a, distance) ==
  \E v \in Values :
    ObjectOf(v) = a /\ relevant[v] # NotRelevant /\ relevant[v].distance <= distance

\* The object of a collected description is listed.
CollectedListed ==
  \A c \in collected : \A p \in Positions(c) :
    results[c][p].kind = "full" /\ GameRelevant(ObjectAt(c, p)) => Listed(ObjectAt(c, p), Distance(c, p))

\* What is listed is described as long as memory does not change.
LEMMA ListedDescribed == PrintInv /\ CollectedListed => RelevantListed
<1>0. PrintInv => \A v \in Values : relevant[v] # NotRelevant => v \in Forms \/ GameRelevant(v)
  BY DEF PrintInv, CollectedRight
<1> SUFFICES ASSUME PrintInv, CollectedListed, NEW c \in collected, NEW p \in Positions(c),
                    results[c][p].kind = "full", NEW a, a = ObjectOf(results[c][p].of), GameRelevant(a)
             PROVE  \E v \in Values :
                      /\ ObjectOf(v) = a
                      /\ relevant[v] # NotRelevant
                      /\ relevant[v].distance <= Distance(c, p)
                      /\ changes = 0 => Described(a, relevant[v].text)
  BY <1>0 DEF RelevantListed
<1>1. c \in Calls
  BY TypeOKSplit DEF PrintInv, TableInv
<1>2. ObjectAt(c, p) = a
  BY <1>1 DEF PrintInv, TellingInv, ResultsRight, TextRight
<1>3. PICK v \in Values : ObjectOf(v) = a /\ relevant[v] # NotRelevant /\ relevant[v].distance <= Distance(c, p)
  BY <1>2 DEF CollectedListed, Listed
<1>4. changes = 0 => Described(a, relevant[v].text)
  <2>1. CASE v \in Forms
    BY <1>3, <2>1 DEF PrintInv, CollectedRight
  <2>2. CASE v \notin Forms
    <3>1. v = a /\ a \in Objects
      BY <1>3, <2>2 DEF ObjectOf, GameRelevant
    <3>2. QED
      BY <1>3, <3>1 DEF PrintInv, CollectedRight
  <2>3. QED
    BY <2>1, <2>2
<1>5. QED
  BY <1>3, <1>4

\* Collecting the results of calls lists their objects: by the value itself, by the id of
\* the form, or, where a form is described from its address, by that address, which had
\* the same position in a call before.
LEMMA CollectingLists ==
  ASSUME PrintInv, CollectedListed, TypeOK', TellingInv', UNCHANGED <<registers, stack, seen>>, call # 0, call' # 0,
         call <= LastOfPass1, NEW cs \in SUBSET (1 .. LastOfPass1), NEW texts, texts = results',
         relevant' = Collected(cs, texts),
         \A c \in cs : \A d \in Calls : d <= c =>
           d \in cs \/ (d \in collected /\ \A q \in Positions(d) : texts[d][q] = results[d][q]),
         NEW c \in cs, NEW p \in Positions(c), texts[c][p].kind = "full", NEW a, a = ObjectAt(c, p), GameRelevant(a),
         \A b \in Addresses : seen[b].text.kind # "empty"
  PROVE  \E v \in Values :
           ObjectOf(v) = a /\ relevant'[v] # NotRelevant /\ relevant'[v].distance <= Distance(c, p)
<1>0. c \in Calls /\ c \in 1 .. LastOfPass1 /\ a \in Objects /\ a \in Addresses /\ a \in Values /\ ObjectOf(a) = a
  <2>1. c \in Calls /\ c \in 1 .. LastOfPass1
    BY CallOrder
  <2>2. a \in Objects /\ a \in Addresses
    BY Apart DEF GameRelevant
  <2>3. QED
    BY <2>1, <2>2, AddressObject DEF Values
<1>1. /\ \A d, q : Value(d, q)' = Value(d, q) /\ ObjectAt(d, q)' = ObjectAt(d, q)
      /\ \A v : ObjectOf(v)' = ObjectOf(v)
  BY DEF Value, ObjectAt, ObjectOf
<1>2. ObjectOf(texts[c][p].of) = a /\ seen[a] # NotSeen
  BY <1>0, <1>1 DEF TellingInv, ResultsRight, TextRight
<1>3. WasIntrospected(a)
  <2>1. EntryRight(a, seen[a]) /\ seen[a].text.kind # "empty"
    BY <1>0, <1>2 DEF PrintInv, TellingInv, EntriesRight
  <2>0. seen[a].text.kind = "full"
    BY <1>0, <2>1 DEF EntryRight, EntryPlaced, Objects
  <2>2. seen[a].game
    BY <2>0, <2>1 DEF EntryRight, FlagRight
  <2>3. QED
    BY <1>0, <1>2, <2>2 DEF WasIntrospected
<1>4. \A v \in Values : relevant[v] # NotRelevant => relevant[v].distance = 0
  BY DEF PrintInv, CollectedRight
<1>5. ASSUME NEW d \in cs, NEW q \in Positions(d), NEW v, Value(d, q) = v, texts[d][q].kind = "full",
             texts[d][q].of \in Forms \/ WasIntrospected(v)
      PROVE  <<d, q>> \in Occurrences(v, cs, texts)
  <2>1. d \in Calls
    <3>1. d \in 1 .. LastOfPass1
      OBVIOUS
    <3>2. QED
      BY <3>1, CallOrder
  <2>2. q \in 0 .. MaxLength - 1
    BY <2>1, MaxLengthBounds
  <2>3. <<d, q>>[1] = d /\ <<d, q>>[2] = q
    OBVIOUS
  <2>4. texts[d][q].kind # "see"
    BY <1>5
  <2>5. QED
    BY <1>5, <2>2, <2>3, <2>4 DEF Occurrences
<1>6. ASSUME NEW v \in Values, NEW d \in cs, NEW q \in Positions(d), <<d, q>> \in Occurrences(v, cs, texts)
      PROVE  relevant'[v] # NotRelevant /\ relevant'[v].distance <= Distance(d, q)
  BY <1>4, <1>6, Taken
<1>7. CASE Value(c, p) = a
  <2>1. <<c, p>> \in Occurrences(a, cs, texts)
    BY <1>3, <1>5, <1>7
  <2>2. QED
    BY <1>0, <1>6, <2>1
<1>8. CASE texts[c][p].of \in Forms
  <2>1. PICK v : v = Value(c, p)
    OBVIOUS
  <2>2. v \in Values /\ ObjectOf(v) = a
    <3>1. TypeOK
      BY DEF PrintInv, TableInv
    <3>2. QED
      BY <1>0, <2>1, <3>1, ValueTypes DEF ObjectAt
  <2>3. <<c, p>> \in Occurrences(v, cs, texts)
    BY <1>5, <1>8, <2>1
  <2>4. QED
    BY <1>6, <2>2, <2>3
<1>9. CASE Value(c, p) # a /\ texts[c][p].of \notin Forms
  <2>1. texts[c][p].of = a /\ Value(c, p) \in Forms
    BY <1>2, <1>9 DEF ObjectOf, ObjectAt
  <2>2. PICK d \in Calls : d <= c /\ p \in Positions(d) /\ texts[d][p].kind = "full" /\ Value(d, p) = a
    BY <1>0, <1>1, <2>1 DEF TellingInv, FormsTold, ToldAt
  <2>3. Distance(d, p) <= Distance(c, p) /\ Distance(d, p) \in Nat /\ Distance(c, p) \in Nat
    <3>1. p \in Nat /\ c \in Nat /\ d \in Nat
      BY <1>0, CallOrder DEF Positions
    <3>2. d < c \/ (d = c /\ p <= p)
      BY <2>2, <3>1
    <3>3. QED
      BY <1>0, <2>2, <3>2, DistanceGrows, LabelOfPosition
  <2>4. CASE d \in cs
    <3>1. <<d, p>> \in Occurrences(a, cs, texts)
      BY <1>3, <1>5, <2>2, <2>4
    <3>2. Collected(cs, texts)[a] # NotRelevant /\ Collected(cs, texts)[a].distance <= Distance(d, p)
      BY <1>0, <1>4, <2>2, <2>4, <3>1, Taken
    <3>3. relevant'[a].distance \in Nat
      BY <1>0 DEF TypeOK
    <3>4. QED
      BY <1>0, <2>3, <3>2, <3>3
  <2>5. CASE d \in collected /\ texts[d][p] = results[d][p]
    <3>1. ObjectAt(d, p) = a /\ results[d][p].kind = "full"
      BY <1>0, <2>2, <2>5 DEF ObjectAt
    <3>2. PICK v \in Values : ObjectOf(v) = a /\ relevant[v] # NotRelevant /\ relevant[v].distance <= Distance(d, p)
      BY <2>2, <2>5, <3>1 DEF CollectedListed, Listed
    <3>3. relevant'[v] = relevant[v] /\ relevant[v].distance = 0
      BY <1>4, <3>2, CollectedBefore
    <3>4. QED
      BY <2>3, <3>2, <3>3
  <2>6. QED
    BY <2>2, <2>4, <2>5
<1>10. QED
  BY <1>7, <1>8, <1>9

\* A step leaves the results of the calls that have been collected, and the objects that
\* are relevant, as they are; collecting adds calls of the first pass that are over.
LEMMA CollectedStay ==
  ASSUME PrintInv, CollectedListed, [Next]_vars
  PROVE  \E cs \in SUBSET (1 .. LastOfPass1) :
           /\ UNCHANGED <<registers, stack>>
           /\ \A c \in collected' : c \in collected \/ c \in cs
           /\ \A c \in collected : c \notin cs => \A p \in Positions(c) : results'[c][p] = results[c][p]
           /\ \A v \in Values : relevant[v] # NotRelevant => relevant'[v] = relevant[v]
           /\ cs # {} =>
                /\ UNCHANGED seen /\ call # 0 /\ call' # 0 /\ call <= LastOfPass1
                /\ relevant' = Collected(cs, results')
                /\ \A c \in cs : \A d \in Calls : d <= c => d \in cs \/ d \in collected
                /\ \A b \in Addresses : seen[b].text.kind # "empty"
<1>t. TypeOK
  BY DEF PrintInv, TableInv
<1>c. \A c \in collected : c < call /\ c <= LastOfPass1 /\ c \in Calls /\ c \in Nat /\ c # call
  <2>1. \A c \in collected : c < call /\ c <= LastOfPass1 /\ c \in Calls
    BY TypeOKSplit DEF PrintInv, TableInv, CollectedRight
  <2>2. call \in Nat /\ \A c \in Calls : c \in Nat
    <3>1. call \in 0 .. LastOfPass2 + 1
      BY <1>t DEF TypeOK
    <3>2. QED
      BY <3>1, CallOrder
  <2>3. QED
    BY <2>1, <2>2
<1>n. {} \in SUBSET (1 .. LastOfPass1)
  OBVIOUS
<1>1. ASSUME UNCHANGED <<registers, stack, results, relevant, collected>>
      PROVE  /\ UNCHANGED <<registers, stack>>
             /\ \A c \in collected' : c \in collected \/ c \in {}
             /\ \A c \in collected : c \notin {} => \A p \in Positions(c) : results'[c][p] = results[c][p]
             /\ \A v \in Values : relevant[v] # NotRelevant => relevant'[v] = relevant[v]
  BY <1>1
<1>2. CASE Reset \/ BlockDone \/ Pass1Fails \/ GameChanges \/ UNCHANGED vars
  <2>1. UNCHANGED <<registers, stack, results, relevant, collected>>
    BY <1>2 DEF Reset, BlockDone, Pass1Fails, GameChanges, vars, dataVars
  <2>2. QED
    BY <1>n, <1>1, <2>1
<1>3. ASSUME NEW q \in 0 .. MaxLength - 1, Analyse(q)
      PROVE  \E cs \in SUBSET (1 .. LastOfPass1) :
               /\ UNCHANGED <<registers, stack>>
               /\ \A c \in collected' : c \in collected \/ c \in cs
               /\ \A c \in collected : c \notin cs => \A p \in Positions(c) : results'[c][p] = results[c][p]
               /\ \A v \in Values : relevant[v] # NotRelevant => relevant'[v] = relevant[v]
               /\ cs = {}
  <2>1. UNCHANGED <<registers, stack, relevant, collected>>
    BY <1>3 DEF Analyse, Meet, Complete, MeetForeign, MeetPointer, StorePointer, MeetPlain, dataVars
  <2>2. UNCHANGED results \/ \E text : Printed(q, text)
    BY <1>3 DEF Analyse, Meet, Complete, MeetForeign, MeetPointer, StorePointer, MeetPlain
  <2>3. ASSUME NEW c \in collected, NEW p \in Positions(c) PROVE results'[c][p] = results[c][p]
    <3>1. ASSUME NEW text, Printed(q, text) PROVE results'[c][p] = results[c][p]
      BY <1>t, <1>c, <3>1 DEF Printed, TypeOK
    <3>2. QED
      BY <2>2, <3>1
  <2>4. QED
    BY <1>n, <2>1, <2>3
<1>4. ASSUME UNCHANGED <<registers, stack, relevant, collected>>, NEW cs, results' = Backfilled(cs),
             \A c \in collected : c \notin cs
      PROVE  \A c \in collected : \A p \in Positions(c) : results'[c][p] = results[c][p]
  <2>1. ASSUME NEW c \in collected, NEW p \in Positions(c) PROVE results'[c][p] = results[c][p]
    BY <1>t, <1>c, <1>4, BackfilledIs
  <2>2. QED
    BY <2>1
<1>5. CASE RegistersDone /\ call # 1
  <2>1. UNCHANGED <<registers, stack, relevant, collected>> /\ results' = Backfilled({call})
    BY <1>5 DEF RegistersDone, dataVars
  <2>2. \A c \in collected : c \notin {call}
    BY <1>c
  <2>3. \A c \in collected : \A p \in Positions(c) : results'[c][p] = results[c][p]
    BY <1>4, <2>1, <2>2
  <2>4. QED
    BY <1>n, <2>1, <2>3
<1>6. CASE RegistersDone /\ call = 1
  <2>1. /\ UNCHANGED <<registers, stack, seen>> /\ results' = Backfilled({1})
        /\ relevant' = Collected({1}, results') /\ collected' = {1} /\ call' = 1 + 1
    BY <1>6 DEF RegistersDone, Begin, dataVars
  <2>2. collected = {} /\ 1 <= LastOfPass1 /\ {1} \in SUBSET (1 .. LastOfPass1) /\ 1 + 1 # 0 /\ 1 # 0
    <3>1. \A c \in collected : FALSE
      BY <1>c, <1>6, CallOrder
    <3>2. QED
      BY <3>1, CallOrder
  <2>3. \A v \in Values : relevant[v] # NotRelevant => relevant'[v] = relevant[v]
    BY <2>1, CollectedBefore
  <2>4. \A d \in Calls : d <= 1 => d = 1
    BY CallOrder
  <2>5. \A b \in Addresses : seen[b].text.kind # "empty"
    <3>1. call # 0 /\ \A p \in Positions(call) : state[p] # "filling"
      BY <1>6 DEF RegistersDone, AllDone
    <3>2. QED
      BY <3>1, NoneReserved
  <2>6. QED
    BY <1>6, <2>1, <2>2, <2>3, <2>4, <2>5
<1>7. CASE Pass1Done
  <2>1. PICK cs : cs = 2 .. LastOfPass1
    OBVIOUS
  <2>2. /\ UNCHANGED <<registers, stack, seen>> /\ results' = Backfilled(cs)
        /\ relevant' = Collected(cs, results') /\ collected' = collected \cup cs
        /\ call = LastOfPass1 /\ call' = RegsOfPass2
    BY <1>7, <2>1 DEF Pass1Done, Begin, dataVars
  <2>3. cs \in SUBSET (1 .. LastOfPass1) /\ call # 0 /\ call' # 0 /\ call <= LastOfPass1
    BY <2>1, <2>2, CallOrder
  <2>4. 1 \in collected
    <3>1. call \in 2 .. LastOfPass1
      BY <2>2, PassesEnd, CallOrder
    <3>2. QED
      BY <3>1 DEF PrintInv, CollectedRight
  <2>5. ASSUME NEW c \in collected, c \notin cs, NEW p \in Positions(c) PROVE results'[c][p] = results[c][p]
    BY <1>t, <1>c, <2>2, <2>5, BackfilledIs
  <2>6. \A v \in Values : relevant[v] # NotRelevant => relevant'[v] = relevant[v]
    BY <2>2, CollectedBefore
  <2>7. \A c \in cs : \A d \in Calls : d <= c => d \in cs \/ d = 1
    BY <2>1, CallOrder
  <2>8. \A b \in Addresses : seen[b].text.kind # "empty"
    <3>1. \A p \in Positions(call) : state[p] # "filling"
      BY <1>7 DEF Pass1Done, AllDone
    <3>2. QED
      BY <2>3, <3>1, NoneReserved
  <2>9. QED
    BY <2>2, <2>3, <2>4, <2>5, <2>6, <2>7, <2>8
<1>8. CASE Pass2Done
  <2>1. UNCHANGED <<registers, stack, relevant, collected>> /\ results' = Backfilled(RegsOfPass2 .. LastOfPass2)
    BY <1>8 DEF Pass2Done, dataVars
  <2>2. \A c \in collected : c \notin RegsOfPass2 .. LastOfPass2
    BY <1>c, CallOrder
  <2>3. \A c \in collected : \A p \in Positions(c) : results'[c][p] = results[c][p]
    BY <1>4, <2>1, <2>2
  <2>4. QED
    BY <1>n, <2>1, <2>3
<1>9. QED
  BY <1>2, <1>3, <1>5, <1>6, <1>7, <1>8 DEF Next

\* Every step keeps the objects of the collected descriptions listed.
LEMMA ListedNext == PrintInv /\ CollectedListed /\ [Next]_vars => CollectedListed'
<1> SUFFICES ASSUME PrintInv, CollectedListed, [Next]_vars PROVE CollectedListed'
  OBVIOUS
<1>1. PrintInv'
  BY PrintNext
<1>2. PICK cs \in SUBSET (1 .. LastOfPass1) :
        /\ UNCHANGED <<registers, stack>>
        /\ \A c \in collected' : c \in collected \/ c \in cs
        /\ \A c \in collected : c \notin cs => \A p \in Positions(c) : results'[c][p] = results[c][p]
        /\ \A v \in Values : relevant[v] # NotRelevant => relevant'[v] = relevant[v]
        /\ cs # {} =>
             /\ UNCHANGED seen /\ call # 0 /\ call' # 0 /\ call <= LastOfPass1
             /\ relevant' = Collected(cs, results')
             /\ \A c \in cs : \A d \in Calls : d <= c => d \in cs \/ d \in collected
             /\ \A b \in Addresses : seen[b].text.kind # "empty"
  BY CollectedStay
<1>3. PICK texts : texts = results'
  OBVIOUS
<1>4. ASSUME NEW c \in cs, NEW p \in Positions(c), texts[c][p].kind = "full", GameRelevant(ObjectAt(c, p))
      PROVE  \E v \in Values :
               ObjectOf(v) = ObjectAt(c, p) /\ relevant'[v] # NotRelevant /\ relevant'[v].distance <= Distance(c, p)
  <2>1. /\ UNCHANGED <<registers, stack, seen>> /\ call # 0 /\ call' # 0 /\ call <= LastOfPass1
        /\ relevant' = Collected(cs, texts)
        /\ \A b \in Addresses : seen[b].text.kind # "empty"
    BY <1>2, <1>3
  <2>2. \A b \in cs : \A d \in Calls : d <= b =>
          d \in cs \/ (d \in collected /\ \A q \in Positions(d) : texts[d][q] = results[d][q])
    BY <1>2, <1>3
  <2>3. TypeOK' /\ TellingInv'
    BY <1>1 DEF PrintInv, TableInv
  <2>4. QED
    BY <1>3, <1>4, <2>1, <2>2, <2>3, CollectingLists
<1>5. ASSUME NEW c \in collected, c \notin cs, NEW p \in Positions(c), texts[c][p].kind = "full", GameRelevant(ObjectAt(c, p))
      PROVE  \E v \in Values :
               ObjectOf(v) = ObjectAt(c, p) /\ relevant'[v] # NotRelevant /\ relevant'[v].distance <= Distance(c, p)
  <2>1. results[c][p].kind = "full"
    BY <1>2, <1>3, <1>5
  <2>2. PICK v \in Values : /\ ObjectOf(v) = ObjectAt(c, p) /\ relevant[v] # NotRelevant
                            /\ relevant[v].distance <= Distance(c, p)
    BY <1>5, <2>1 DEF CollectedListed, Listed
  <2>3. QED
    BY <1>2, <2>2
<1>6. ASSUME NEW c \in collected', NEW p \in Positions(c), texts[c][p].kind = "full", GameRelevant(ObjectAt(c, p))
      PROVE  \E v \in Values :
               ObjectOf(v) = ObjectAt(c, p) /\ relevant'[v] # NotRelevant /\ relevant'[v].distance <= Distance(c, p)
  BY <1>2, <1>4, <1>5, <1>6
<1>7. /\ \A c, q : ObjectAt(c, q)' = ObjectAt(c, q)
      /\ \A v : ObjectOf(v)' = ObjectOf(v)
  BY <1>2 DEF Value, ObjectAt, ObjectOf
<1>8. QED
  BY <1>3, <1>6, <1>7 DEF CollectedListed, Listed

\* An object of a class that counts, of the game or of another module, that was described
\* in the first pass is among the relevant objects, no further from the crash than where
\* it was described, whichever worker met it first and by whichever of its values, and
\* with its description while memory does not change; an object of another class is not.
THEOREM RelevantAreListed == Spec => []RelevantListed
<1>1. Init => CollectedListed
  BY DEF Init, CollectedListed
<1>2. QED
  BY <1>1, ListedNext, ListedDescribed, PrintInvariant, PTL DEF Spec
=============================================================================
