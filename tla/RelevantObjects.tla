-------------------------- MODULE RelevantObjects --------------------------
(***************************************************************************)
(* RelevantObjectsCollection and its section of the report                 *)
(* (CrashHandler.cpp) with RelevantObjectsSimplifier.cpp: the objects met  *)
(* near the crash are collected, ordered by their distance, and the        *)
(* nearest are printed in a short form.  An analysis is the fields that    *)
(* the short form is made of.                                              *)
(***************************************************************************)
EXTENDS Naturals, Sequences, FiniteSets, SequencesExt, FiniteSetsExt

CONSTANTS
  Addresses,    \* addresses that are met, 0 among them
  Analyses,     \* analyses, records of their fields; extract_field ends at the end of
                \* a line, so that "stack" is the first line of a stack trace or empty
  MaxDistance,  \* bound of the model: greatest distance
  MaxOffers,    \* bound of the model: calls of add
  MaxObjects    \* MAX_OBJECTS

ASSUME RelevantAssumption == {MaxDistance, MaxOffers} \subseteq Nat /\ MaxObjects \in Nat \ {0}

VARIABLES
  objects,      \* objects, a partial function of addresses
  sorted,       \* sortedObjects
  row,          \* i
  rows,         \* the rows printed, each a position of sorted
  more,         \* objects said to be truncated, or None
  relevantAt,   \* the step it is at
  offered       \* history: what add was called with and did not turn away

relevantVars == <<objects, sorted, row, rows, more, relevantAt, offered>>

Offer == [address : Addresses, analysis : Analyses, distance : 0 .. MaxDistance]

RelevantInit ==
  /\ objects = {} /\ sorted = <<>> /\ row = 0 /\ rows = <<>> /\ more = 0
  /\ relevantAt = "collect" /\ offered = {}

-----------------------------------------------------------------------------
(* simplify_for_relevant_objects.                                          *)

Has(a, field) == field \in a.fields

\* The display name before the full name before the name.
BestName(a) ==
  LET names == <<"Display Name", "GetFullName", "Name">>
      known == {i \in 1 .. 3 : Has(a, names[i])}
  IN IF known = {} THEN <<>> ELSE <<names[Min(known)]>>

Some(a, fields) == SelectSeq(fields, LAMBDA f : Has(a, f))

\* extract_best_stack_line: a call of a script with its form and file, or else the first
\* line that is not native, or else the first line.
BestLine(stack) ==
  LET of(kind) == {i \in 1 .. Len(stack) : stack[i] = kind}
      nonnative == of("script") \cup of("plain")
  IN IF of("script") # {} THEN Min(of("script"))
     ELSE IF nonnative # {} THEN Min(nonnative) ELSE 1

\* The parts of the row; empty if the row is left out.
Simplified(a) ==
  IF ~a.detailed THEN <<"analysis">>
  ELSE CASE a.type = "NativeFunctionBase" ->
              IF Has(a, "Object") /\ Has(a, "Function") THEN <<"type", "Object", "Function">> \o Some(a, <<"State">>) ELSE <<>>
         [] a.type = "ObjectTypeInfo" -> IF Has(a, "Name") THEN <<"type", "Name">> ELSE <<>>
         [] a.type = "CodeTasklet" /\ a.stack # <<>> -> <<"type", a.stack[BestLine(a.stack)]>>
         [] a.type = "TESQuest" -> <<"type">> \o BestName(a) \o Some(a, <<"FormID", "Current Stage", "Active Quest">>)
         [] a.type = "SpellItem" ->
              <<"type">> \o BestName(a) \o Some(a, <<"FormID", "File", "SpellType", "CastingType", "Delivery">>)
         [] a.type = "EffectSetting" -> <<"type">> \o BestName(a) \o Some(a, <<"FormID", "File", "Archetype">>)
         [] OTHER -> <<"type">> \o BestName(a) \o Some(a, <<"FormID", "File">>)

-----------------------------------------------------------------------------
(* RelevantObjectsCollection.                                              *)

\* Defect: a closer occurrence does not replace the first one.
Kept_First(o) == IF \E p \in objects : p.address = o.address THEN objects ELSE objects \cup {o}

Kept(o) ==
  LET known == {p \in objects : p.address = o.address}
  IN IF known = {} THEN objects \cup {o}
     ELSE IF \A p \in known : o.distance < p.distance THEN (objects \ known) \cup {o} ELSE objects

\* add: addresses that were not introspected, unless a form id leads to them, and
\* references to another place are turned away.
Add == \E o \in Offer :
  /\ relevantAt = "collect" /\ Cardinality(offered) < MaxOffers
  /\ o.address # 0 /\ (o.analysis.introspected \/ o.analysis.formId) /\ ~o.analysis.reference
  /\ objects' = Kept(o) /\ offered' = offered \cup {o}
  /\ UNCHANGED <<sorted, row, rows, more, relevantAt>>

\* get_sorted; the order of objects at the same distance is that of std::sort.
Sort ==
  /\ relevantAt = "collect"
  /\ sorted' \in {s \in SetToSeqs(objects) : \A i, j \in 1 .. Len(s) : i < j => s[i].distance <= s[j].distance}
  /\ relevantAt' = "print"
  /\ UNCHANGED <<objects, row, rows, more, offered>>

-----------------------------------------------------------------------------
(* print_relevant_objects_section.                                         *)

ObjectCount == Min({Len(sorted), MaxObjects})

PrintRow ==
  /\ relevantAt = "print" /\ row < ObjectCount
  /\ row' = row + 1
  /\ rows' = IF Simplified(sorted[row + 1].analysis) = <<>> THEN rows ELSE Append(rows, row + 1)
  /\ UNCHANGED <<objects, sorted, more, relevantAt, offered>>

PrintEnd ==
  /\ relevantAt = "print" /\ row = ObjectCount
  /\ more' = Len(sorted) - ObjectCount
  /\ relevantAt' = IF ObjectCount = 0 THEN "none found" ELSE "done"
  /\ UNCHANGED <<objects, sorted, row, rows, offered>>

\* An exception ends the section with a line that says so.
PrintFails ==
  /\ relevantAt = "print"
  /\ relevantAt' = "failed"
  /\ UNCHANGED <<objects, sorted, row, rows, more, offered>>

RelevantNext == Add \/ Sort \/ PrintRow \/ PrintEnd \/ PrintFails

RelevantSpec == RelevantInit /\ [][RelevantNext]_relevantVars

-----------------------------------------------------------------------------
RelevantTypeOK ==
  /\ objects \subseteq Offer /\ offered \subseteq Offer /\ Len(sorted) <= Cardinality(objects)
  /\ row \in 0 .. MaxObjects /\ Len(rows) <= row /\ more \in Nat
  /\ relevantAt \in {"collect", "print", "done", "none found", "failed"}

\* The section shows the nearest: whatever the order in which registers, stack and form
\* ids offered the objects, each is there at its least distance; the rows come by rising
\* distance; an object that is left out without a row is no nearer than any that was
\* reached, or has nothing to show; and the number of those not reached is told.
NearestShown == relevantAt \in {"done", "none found"} =>
  LET Shown == {sorted[rows[k]] : k \in 1 .. Len(rows)}
      Reached == {sorted[i] : i \in 1 .. ObjectCount}
  IN /\ \A o \in offered : \E p \in objects : p.address = o.address /\ p.distance <= o.distance
     /\ Cardinality(objects) = Cardinality({o.address : o \in objects})
     /\ \A j, k \in 1 .. Len(rows) : j < k => sorted[rows[j]].distance <= sorted[rows[k]].distance
     /\ \A o \in objects \ Shown : \/ Simplified(o.analysis) = <<>>
                                   \/ more > 0 /\ \A p \in Reached : p.distance <= o.distance
     /\ more + Cardinality(Reached) = Cardinality(objects)
     /\ relevantAt = "none found" <=> objects = {}
=============================================================================
