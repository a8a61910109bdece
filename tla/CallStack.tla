----------------------------- MODULE CallStack -----------------------------
(***************************************************************************)
(* The call stack of a crash: CrashHandler.cpp's Callstack, which recovers *)
(* the callers of a call through a null pointer or captures the frames of  *)
(* the handler's own thread, and Analysis.cpp, which merges these probable *)
(* frames with the return addresses found by scanning the stack.  Symbols  *)
(* and layout of the rows are left out.                                    *)
(***************************************************************************)
EXTENDS ModuleTable

CONSTANTS
  Executable,   \* addresses in executable pages
  System,       \* modules that get_throw_location passes over
  MaxWalk,      \* a_max_frames of recover_null_call_stack
  MaxTotal,     \* a_max_total_frames
  MaxInserted,  \* a_max_inserted_frames
  MaxCaptured,  \* MAX_DEPTH of safe_capture_stacktrace, and the limit of get_frame_addresses
  StackLength,  \* bound of the model: quadwords on the stack
  OnStack       \* bound of the model: values of these quadwords, and what is read from them

ASSUME StackAssumption ==
  /\ Executable \subseteq 1 .. Top /\ OnStack \subseteq 0 .. Top /\ System \subseteq Images
  /\ {MaxWalk, MaxTotal, MaxInserted, MaxCaptured, StackLength} \subseteq Nat

VARIABLES
  stackAt,      \* the step the handler is at
  nullCall,     \* isNullCall with a context
  exceptionAt,  \* ExceptionAddress
  walked,       \* a_out, the frames of the walk from [RSP]
  frames,       \* _frames
  values,       \* the quadwords of the stack
  hybrid,       \* result of build_hybrid_callstack
  printed,      \* the rows printed
  throwAt       \* get_throw_location

stackVars == <<stackAt, nullCall, exceptionAt, walked, frames, values, hybrid, printed, throwAt>>

CodeAddresses == 1 .. Top

StackInit ==
  /\ stackAt = "none" /\ nullCall = FALSE /\ exceptionAt = 0
  /\ walked = <<>> /\ frames = <<>> /\ values = <<>> /\ hybrid = <<>> /\ printed = <<>>
  /\ throwAt = 0

-----------------------------------------------------------------------------
(* Callstack::Callstack.                                                   *)

NullCall ==
  /\ stackAt = "none" /\ modulesAt = "done"
  /\ nullCall' = TRUE
  /\ stackAt' = "reseed"
  /\ UNCHANGED <<exceptionAt, walked, frames, values, hybrid, printed, throwAt>>

OtherException == \E ip \in Executable :
  /\ stackAt = "none" /\ modulesAt = "done"
  /\ exceptionAt' = ip
  /\ stackAt' = "capture"
  /\ UNCHANGED <<nullCall, walked, frames, values, hybrid, printed, throwAt>>

\* Defect: a null return address is stored as a frame.
ReadCaller_Null == \E caller \in OnStack \cup {0} :
  /\ stackAt = "reseed" /\ walked = <<>> /\ MaxWalk > 0
  /\ walked' = <<caller>>
  /\ stackAt' = "walk"
  /\ UNCHANGED <<nullCall, exceptionAt, frames, values, hybrid, printed, throwAt>>

\* [RSP] holds the return address that the call pushed, or whatever else is there.
ReadCaller == \E caller \in OnStack \cup {0} :
  /\ stackAt = "reseed" /\ walked = <<>> /\ MaxWalk > 0
  /\ walked' = IF caller = 0 THEN <<>> ELSE <<caller>>
  /\ stackAt' = IF caller = 0 THEN "capture" ELSE "walk"
  /\ UNCHANGED <<nullCall, exceptionAt, frames, values, hybrid, printed, throwAt>>

\* Only code has a function entry to unwind with; where that leads is read from the stack.
Unwind == \E rip \in OnStack \ {0} :
  /\ stackAt = "walk" /\ Len(walked) < MaxWalk /\ Last(walked) \in Executable
  /\ walked' = Append(walked, rip)
  /\ UNCHANGED <<stackAt, nullCall, exceptionAt, frames, values, hybrid, printed, throwAt>>

\* No function entry, a null instruction pointer or frames enough.
WalkEnds ==
  /\ stackAt = "walk"
  /\ frames' = walked
  /\ stackAt' = "locate"
  /\ UNCHANGED <<nullCall, exceptionAt, walked, values, hybrid, printed, throwAt>>

\* The walk or the reading of [RSP] faults, and recover_null_call_stack returns nothing.
WalkFaults ==
  /\ stackAt = "reseed" \/ (stackAt = "walk" /\ Len(walked) < MaxWalk)
  /\ stackAt' = "capture"
  /\ UNCHANGED <<nullCall, exceptionAt, walked, frames, values, hybrid, printed, throwAt>>

\* The frames from the faulting instruction on, or all of them.
FromException(captured) ==
  LET found == {i \in 1 .. Len(captured) : captured[i] = exceptionAt}
      first == IF found = {} THEN 1 ELSE CHOOSE i \in found : \A j \in found : i <= j
  IN SubSeq(captured, first, Len(captured))

\* safe_capture_stacktrace: nothing when the stack cannot be walked.
Capture == \E captured \in SeqOf(Executable, MaxCaptured) :
  /\ stackAt = "capture"
  /\ frames' = FromException(captured)
  /\ stackAt' = "locate"
  /\ UNCHANGED <<nullCall, exceptionAt, walked, values, hybrid, printed, throwAt>>

\* get_throw_location: the first of the first ten frames in a module of the game.
ThrowLocation ==
  LET game == {i \in 1 .. Len(frames) : i <= 10 /\ Lookup(frames[i]) \notin System \cup {Null}}
  IN IF Len(frames) < 3 \/ game = {} THEN 0
     ELSE frames[CHOOSE i \in game : \A j \in game : i <= j]

Locate ==
  /\ stackAt = "locate"
  /\ throwAt' = ThrowLocation
  /\ stackAt' = "merge"
  /\ UNCHANGED <<nullCall, exceptionAt, walked, frames, values, hybrid, printed>>

-----------------------------------------------------------------------------
(* build_hybrid_callstack.                                                 *)

Addrs(s) == {s[i].addr : i \in 1 .. Len(s)}
Push(s, addr, source) == Append(s, [addr |-> addr, source |-> source])

AddProbable(s, addr) == IF Len(s) >= MaxTotal \/ addr \in Addrs(s) THEN s ELSE Push(s, addr, "P")

Probables == FoldLeft(AddProbable, <<>>, frames)

InCode(value) == Lookup(value) # Null /\ value \in Executable

\* scan_stack_for_frames
AddScanned(s, value) ==
  IF Len(s) >= MaxTotal \/ value \in Members(s) \/ ~InCode(value) THEN s ELSE Append(s, value)

Scanned(stack) == FoldLeft(AddScanned, <<>>, stack)

\* Defect: what is inserted is not compared with the probable frames.
AddInserted_Again(s, addr) ==
  IF Len(s) >= MaxTotal \/ Len(s) - Len(Probables) >= MaxInserted THEN s ELSE Push(s, addr, "S")

AddInserted(s, addr) ==
  IF Len(s) >= MaxTotal \/ Len(s) - Len(Probables) >= MaxInserted \/ addr \in Addrs(s) THEN s
  ELSE Push(s, addr, "S")

Inserted(scanned) == FoldLeft(AddInserted, Probables, scanned)

Merge == \E stack \in SeqOf(OnStack, StackLength) :
  /\ stackAt = "merge"
  /\ values' = stack
  /\ hybrid' = Inserted(Scanned(stack))
  /\ stackAt' = "print"
  /\ UNCHANGED <<nullCall, exceptionAt, walked, frames, printed, throwAt>>

\* print_hybrid_callstack: a row whose module or symbols cannot be found out says so.
Row(frame, fails) ==
  IF fails THEN [addr |-> frame.addr, source |-> "?", module |-> Null]
  ELSE [addr |-> frame.addr, source |-> frame.source, module |-> Lookup(frame.addr)]

PrintRows == \E failing \in SUBSET (1 .. Len(hybrid)) :
  /\ stackAt = "print"
  /\ printed' = [i \in 1 .. Len(hybrid) |-> Row(hybrid[i], i \in failing)]
  /\ stackAt' = "done"
  /\ UNCHANGED <<nullCall, exceptionAt, walked, frames, values, hybrid, throwAt>>

StackNext ==
  \/ NullCall \/ OtherException \/ ReadCaller \/ Unwind \/ WalkEnds \/ WalkFaults
  \/ Capture \/ Locate \/ Merge \/ PrintRows

CallStackInit == ModulesInit /\ StackInit
CallStackNext == \/ ModulesNext /\ UNCHANGED stackVars
                 \/ StackNext /\ UNCHANGED moduleVars
CallStackSpec == CallStackInit /\ [][CallStackNext]_<<moduleVars, stackVars>>

-----------------------------------------------------------------------------
CallStackTypeOK ==
  /\ ModulesTypeOK
  /\ stackAt \in {"none", "reseed", "walk", "capture", "locate", "merge", "print", "done"}
  /\ nullCall \in BOOLEAN /\ exceptionAt \in 0 .. Top /\ throwAt \in 0 .. Top
  /\ Members(walked) \cup Members(frames) \subseteq CodeAddresses /\ Members(values) \subseteq 0 .. Top
  /\ Addrs(hybrid) \cup Addrs(printed) \subseteq CodeAddresses /\ Len(printed) <= Len(hybrid)

InsertedFrames == {i \in 1 .. Len(hybrid) : hybrid[i].source = "S"}

\* The call stack of the report has each address once; the probable frames come
\* first, in their order and all of them unless there are too many; the rest are return
\* addresses from the stack in its order; and code that is on the stack is missing
\* only when the limit of all or that of inserted frames was reached.
HybridComplete == stackAt \in {"print", "done"} =>
  /\ \A i, j \in 1 .. Len(hybrid) : hybrid[i].addr = hybrid[j].addr => i = j
  /\ Len(hybrid) <= MaxTotal /\ Cardinality(InsertedFrames) <= MaxInserted
  /\ \A i, j \in 1 .. Len(hybrid) : i < j /\ hybrid[i].source = "S" => hybrid[j].source = "S"
  /\ Members(frames) \subseteq Addrs(hybrid) \/ Len(hybrid) = MaxTotal
  /\ \A v \in Members(values) : InCode(v) /\ v \notin Addrs(hybrid) =>
       Len(hybrid) = MaxTotal \/ Cardinality(InsertedFrames) = MaxInserted

\* The call stack begins where the program failed: at the faulting instruction, if it was
\* captured, without the frames of the handler above it; and each frame has its row, in
\* order, however many of the rows could not be worked out.
StartsAtTheFailure ==
  /\ ~nullCall /\ exceptionAt \in Members(frames) => frames[1] = exceptionAt
  /\ hybrid # <<>> /\ frames # <<>> => hybrid[1].addr = frames[1]
  /\ stackAt = "done" => [i \in 1 .. Len(printed) |-> printed[i].addr] = [i \in 1 .. Len(hybrid) |-> hybrid[i].addr]

\* Both: the call stack of the report is complete, in order and begins at the failure.
CallStackRight == HybridComplete /\ StartsAtTheFailure
=============================================================================
