---------------------- MODULE ModelDemandTrackerProofs ----------------------
(***************************************************************************)
(* Proofs about ModelDemandTracker, for any number of threads and slots,   *)
(* any capacity of the ring and any depth of nested requests.              *)
(***************************************************************************)
EXTENDS ModelDemandTracker, SequenceTheorems, TLAPS

-----------------------------------------------------------------------------
(* The arithmetic of a ring whose counter wraps                             *)

\* What division leaves.
LEMMA Division ==
  ASSUME NEW c \in Nat \ {0}, NEW a \in Nat
  PROVE  a % c \in 0 .. c - 1 /\ a \div c \in Nat /\ a = c * (a \div c) + (a % c)
OBVIOUS

\* There is only one way to divide.
LEMMA Remainder ==
  ASSUME NEW c \in Nat \ {0}, NEW q \in Nat, NEW r \in 0 .. c - 1
  PROVE  (c * q + r) % c = r
OBVIOUS

\* Different numbers with the same remainder are at least the divisor apart.
LEMMA LapsApart ==
  ASSUME NEW c \in Nat \ {0}, NEW a \in Nat, NEW b \in Nat, a < b, a % c = b % c
  PROVE  b - a >= c
<1> DEFINE p == a \div c
           q == b \div c
           r == a % c
<1>1. p \in Nat /\ q \in Nat /\ r \in 0 .. c - 1 /\ a = c * p + r /\ b = c * q + r
  BY Division
<1> HIDE DEF p, q, r
<1>2. q > p
  <2>1. ASSUME q <= p PROVE FALSE
    <3>1. c * q <= c * p
      BY <1>1, <2>1
    <3>2. QED
      BY <1>1, <3>1
  <2>2. QED
    BY <1>1, <2>1
<1>3. PICK d \in Nat : q = p + 1 + d
  <2>1. q - p - 1 \in Nat /\ q = p + 1 + (q - p - 1)
    BY <1>1, <1>2
  <2>2. QED
    BY <2>1
<1>4. c * q = c * p + c + c * d /\ c * d >= 0
  BY <1>1, <1>3
<1>5. QED
  BY <1>1, <1>4

\* A counter kept modulo a multiple of the divisor gives the same remainder.
LEMMA WrappedRemainder ==
  ASSUME NEW c \in Nat \ {0}, NEW h \in Nat \ {0}, h % c = 0, NEW n \in Nat,
         NEW m \in Nat, m = n % h, NEW i \in Nat, i <= m
  PROVE  m <= n /\ (m - i) % c = (n - i) % c
<1> DEFINE k == n \div h
           g == h \div c
           a == m - i
<1>1. k \in Nat /\ n = h * k + m
  BY Division
<1>2. g \in Nat /\ h = c * g
  BY Division
<1>3. a \in Nat
  OBVIOUS
<1> DEFINE q == a \div c
           r == a % c
<1>4. q \in Nat /\ r \in 0 .. c - 1 /\ a = c * q + r
  BY <1>3, Division
<1> HIDE DEF k, g, a, q, r
<1>5. h * k \in Nat /\ h * k >= 0
  BY <1>1
<1>6. m <= n
  BY <1>1, <1>5
<1>7. h * k = c * (g * k) /\ g * k \in Nat
  BY <1>1, <1>2
<1>8. PICK x \in Nat : x = g * k
  BY <1>7
<1>9. n - i = c * x + a
  BY <1>1, <1>7, <1>8 DEF a
<1>10. n - i = c * (x + q) + r /\ x + q \in Nat
  BY <1>9, <1>4, <1>8
<1>11. (n - i) % c = r
  BY <1>10, <1>4, Remainder
<1>12. QED
  BY <1>6, <1>11 DEF a, r

\* Counting on after a wrap is counting on before it.
LEMMA WrappedSuccessor ==
  ASSUME NEW h \in Nat \ {0}, NEW n \in Nat
  PROVE  ((n % h) + 1) % h = (n + 1) % h
<1> DEFINE m == n % h
           k == n \div h
<1>1. m \in 0 .. h - 1 /\ k \in Nat /\ n = h * k + m
  BY Division
<1> HIDE DEF m, k
<1>2. CASE m + 1 = h
  <2>1. n + 1 = h * (k + 1) + 0 /\ m + 1 = h * 1 + 0
    BY <1>1, <1>2
  <2>2. (n + 1) % h = 0 /\ (m + 1) % h = 0
    BY <1>1, <2>1, Remainder
  <2>3. QED
    BY <2>2 DEF m
<1>3. CASE m + 1 # h
  <2>1. n + 1 = h * k + (m + 1) /\ m + 1 = h * 0 + (m + 1) /\ m + 1 \in 0 .. h - 1
    BY <1>1, <1>3
  <2>2. (n + 1) % h = m + 1 /\ (m + 1) % h = m + 1
    BY <1>1, <2>1, Remainder
  <2>3. QED
    BY <2>2 DEF m
<1>4. QED
  BY <1>2, <1>3
\* One lap of the ring ends where it began.
LEMMA OneLap ==
  ASSUME NEW c \in Nat \ {0}, NEW a \in Nat
  PROVE  (a + c) % c = a % c
<1> DEFINE q == a \div c
           r == a % c
<1>1. q \in Nat /\ r \in 0 .. c - 1 /\ a = c * q + r
  BY Division
<1> HIDE DEF q, r
<1>2. a + c = c * (q + 1) + r /\ q + 1 \in Nat
  BY <1>1
<1>3. (a + c) % c = r
  BY <1>1, <1>2, Remainder
<1>4. QED
  BY <1>3 DEF r

\* The index in the ring of the request that follows the first n.
IndexOf(n) == n % Capacity

\* Requests that share an index are a lap apart, and head, although it wraps,
\* points at the index of the next request.
LEMMA IndexFacts ==
  /\ \A n \in Nat : IndexOf(n) \in Indices
  /\ \A m, n \in Nat : m < n /\ IndexOf(m) = IndexOf(n) => n - m >= Capacity
  /\ \A n \in Nat : IndexOf(n + Capacity) = IndexOf(n)
  /\ \A n \in Nat : \A m \in Nat : m = n % HeadMod =>
       \A i \in Nat : i <= m => m <= n /\ (m - i) % Capacity = IndexOf(n - i)
<1>1. Capacity \in Nat \ {0} /\ HeadMod \in Nat \ {0} /\ HeadMod % Capacity = 0
  BY TrackerAssumption
<1>2. \A n \in Nat : IndexOf(n) \in Indices
  BY <1>1, Division DEF IndexOf, Indices
<1>3. \A m, n \in Nat : m < n /\ m % Capacity = n % Capacity => n - m >= Capacity
  BY <1>1, LapsApart
<1>4. \A n \in Nat : (n + Capacity) % Capacity = n % Capacity
  BY <1>1, OneLap
<1>5. \A n \in Nat : \A m \in Nat : m = n % HeadMod =>
        \A i \in Nat : i <= m => m <= n /\ (m - i) % Capacity = (n - i) % Capacity
  BY <1>1, WrappedRemainder, Zenon
<1>6. QED
  BY <1>2, <1>3, <1>4, <1>5 DEF IndexOf

-----------------------------------------------------------------------------
(* Calls and their entries                                                  *)

\* Leaving a call keeps the other calls of the thread as they are.
LEMMA PopFacts ==
  ASSUME NEW S, NEW q \in Seq(S), q # <<>>
  PROVE  LET p == SubSeq(q, 1, Len(q) - 1) IN
         /\ p \in Seq(S)
         /\ Len(p) = Len(q) - 1
         /\ \A k \in 1 .. Len(p) : p[k] = q[k]
<1>1. Len(q) \in Nat /\ Len(q) # 0 /\ \A k \in 1 .. Len(q) : q[k] \in S
  BY EmptySeq, LenProperties, ElementOfSeq
<1>2. \A k \in 1 .. Len(q) - 1 : q[k] \in S
  BY <1>1
<1> DEFINE n == Len(q) - 1
<1>3. n \in Nat /\ 1 \in Int /\ n \in Int
  BY <1>1
<1>4. \A k \in 1 .. n : q[k] \in S
  BY <1>2
<1> HIDE DEF n
<1>5. /\ SubSeq(q, 1, n) \in Seq(S)
      /\ Len(SubSeq(q, 1, n)) = IF 1 <= n THEN n - 1 + 1 ELSE 0
      /\ \A k \in 1 .. n - 1 + 1 : SubSeq(q, 1, n)[k] = q[1 + k - 1]
  BY <1>3, <1>4, SubSeqProperties
<1>6. Len(SubSeq(q, 1, n)) = n
  BY <1>3, <1>5
<1>7. \A k \in 1 .. n : SubSeq(q, 1, n)[k] = q[k]
  BY <1>3, <1>5
<1>8. QED
  BY <1>5, <1>6, <1>7 DEF n

\* The call that leaves is the last of a non-empty sequence of frames.
LEMMA TopFacts ==
  ASSUME NEW t \in Threads, TypeOK, stack[t] # <<>>
  PROVE  /\ stack[t] \in Seq(Frame)
         /\ Len(stack[t]) \in DOMAIN stack[t]
         /\ Top(t) \in Frame
         /\ Pop(t) \in Seq(Frame)
         /\ Len(Pop(t)) = Len(stack[t]) - 1
         /\ \A k \in DOMAIN Pop(t) : k \in DOMAIN stack[t] /\ Pop(t)[k] = stack[t][k]
         /\ \A k \in DOMAIN stack[t] : k \in DOMAIN Pop(t) \/ stack[t][k] = Top(t)
<1>1. stack[t] \in Seq(Frame)
  BY DEF TypeOK
<1>2. Len(stack[t]) \in Nat \ {0} /\ DOMAIN stack[t] = 1 .. Len(stack[t])
  BY <1>1, EmptySeq, LenProperties
<1>3. Top(t) \in Frame
  BY <1>1, <1>2, ElementOfSeq DEF Top
<1>4. /\ Pop(t) \in Seq(Frame)
      /\ Len(Pop(t)) = Len(stack[t]) - 1
      /\ \A k \in 1 .. Len(Pop(t)) : Pop(t)[k] = stack[t][k]
  BY <1>1, PopFacts DEF Pop
<1>5. DOMAIN Pop(t) = 1 .. Len(Pop(t))
  BY <1>4, LenProperties
<1>6. \A k \in DOMAIN stack[t] : k \in DOMAIN Pop(t) \/ stack[t][k] = Top(t)
  BY <1>2, <1>4, <1>5 DEF Top
<1>7. QED
  BY <1>1, <1>2, <1>3, <1>4, <1>5, <1>6

\* Clearing a marker keeps the ring a ring and changes no other entry.
LEMMA GuardFacts ==
  ASSUME NEW t \in Threads, TypeOK, stack[t] # <<>>
  PROVE  /\ GuardReleased(t) \in [Slots -> [Indices -> Entry]]
         /\ \A s \in Slots, i \in Indices :
              GuardReleased(t)[s][i].active =>
                ring[s][i].active /\ ~(s = Top(t).slot /\ i = Top(t).index)
<1>1. Top(t) \in Frame /\ ring \in [Slots -> [Indices -> Entry]]
  BY TopFacts DEF TypeOK
<1>2. CASE Top(t).slot = 0
  BY <1>1, <1>2 DEF GuardReleased, Slots
<1>3. CASE Top(t).slot # 0
  <2> DEFINE a == Top(t).slot
             j == Top(t).index
             entry == [ring[a][j] EXCEPT !.active = FALSE]
             row == [ring[a] EXCEPT ![j] = entry]
  <2>1. a \in Slots /\ j \in Indices
    BY <1>1, <1>3, TrackerAssumption DEF Frame, Slots
  <2>2. ring[a] \in [Indices -> Entry] /\ ring[a][j] \in Entry
    BY <1>1, <2>1
  <2>3. entry \in Entry /\ entry.active = FALSE
    BY <2>2 DEF Entry
  <2>4. row \in [Indices -> Entry]
    BY <2>2, <2>3
  <2>5. GuardReleased(t) = [ring EXCEPT ![a] = row]
    BY <1>3 DEF GuardReleased
  <2> HIDE DEF row, entry, a, j
  <2>6. GuardReleased(t) \in [Slots -> [Indices -> Entry]]
    BY <1>1, <2>1, <2>4, <2>5
  <2>7. \A s \in Slots, i \in Indices :
          GuardReleased(t)[s][i] = IF s = a /\ i = j THEN entry ELSE ring[s][i]
    BY <1>1, <2>1, <2>2, <2>5 DEF row
  <2>8. QED
    BY <2>3, <2>6, <2>7 DEF a, j
<1>4. QED
  BY <1>2, <1>3

\* Entering a call adds one frame after the others.
LEMMA PushFacts ==
  ASSUME NEW t \in Threads, TypeOK, NEW f \in Frame
  PROVE  LET q == Append(stack[t], f) IN
         /\ q \in Seq(Frame)
         /\ q # <<>>
         /\ \A k \in DOMAIN q :
              \/ k \in DOMAIN stack[t] /\ q[k] = stack[t][k]
              \/ q[k] = f
         /\ \A k \in DOMAIN stack[t] : k \in DOMAIN q /\ q[k] = stack[t][k]
         /\ \E k \in DOMAIN q : q[k] = f
<1> DEFINE old == stack[t]
           q == Append(old, f)
<1>1. old \in Seq(Frame)
  BY DEF TypeOK
<1> HIDE DEF old
<1>2. /\ q \in Seq(Frame) /\ q # <<>> /\ Len(q) = Len(old) + 1
      /\ \A k \in 1 .. Len(old) : q[k] = old[k]
      /\ q[Len(old) + 1] = f
  BY <1>1, AppendProperties
<1>3. Len(old) \in Nat /\ DOMAIN old = 1 .. Len(old) /\ DOMAIN q = 1 .. Len(q)
  BY <1>1, <1>2, LenProperties
<1> HIDE DEF q
<1>4. \A k \in DOMAIN q : (k \in DOMAIN old /\ q[k] = old[k]) \/ q[k] = f
  BY <1>2, <1>3
<1>5. \A k \in DOMAIN old : k \in DOMAIN q /\ q[k] = old[k]
  BY <1>2, <1>3
<1>6. \E k \in DOMAIN q : q[k] = f
  BY <1>2, <1>3
<1>7. QED
  BY <1>2, <1>4, <1>5, <1>6 DEF q, old

\* Choosing a slot keeps the pending request a request.
LEMMA CallFacts ==
  ASSUME NEW t \in Threads, TypeOK, NEW s \in 0 .. NumSlots
  PROVE  /\ [call EXCEPT ![t].slot = s] \in [Threads -> Call]
         /\ [call EXCEPT ![t].slot = s][t].slot = s
BY DEF TypeOK, Call

-----------------------------------------------------------------------------

LEMMA InitTypeOK == Init => TypeOK
<1> SUFFICES ASSUME Init PROVE TypeOK
  OBVIOUS
<1>1. <<>> \in Seq(Frame)
  BY EmptySeq
<1>2. [path |-> NoPath, ticks |-> 0, active |-> FALSE] \in Entry
  BY DEF Entry
<1>3. 0 \in 0 .. HeadMod - 1
  BY TrackerAssumption
<1>4. 0 \in 0 .. NumSlots
  BY TrackerAssumption
<1>5. [path |-> NoPath, slot |-> 0] \in Call
  BY <1>4 DEF Call
<1>6. QED
  BY <1>1, <1>2, <1>3, <1>5 DEF Init, TypeOK

\* The type of every variable is preserved by every step of the hook.
LEMMA StepTypeOK == TypeOK /\ [Next]_vars => TypeOK'
<1> SUFFICES ASSUME TypeOK, [Next]_vars PROVE TypeOK'
  OBVIOUS
<1> USE TrackerAssumption
<1>1. ASSUME NEW t \in Threads, DemandNoPath(t) PROVE TypeOK'
  <2>1. Untracked(NoPath) \in Frame
    BY DEF Untracked, Frame, Indices
  <2>2. Append(stack[t], Untracked(NoPath)) \in Seq(Frame) /\ Append(stack[t], Untracked(NoPath)) # <<>>
    BY <2>1, PushFacts
  <2>3. QED
    BY <1>1, <2>2 DEF DemandNoPath, TypeOK, slotVars
<1>2. ASSUME NEW t \in Threads, NEW path \in Paths, Demand(t, path) PROVE TypeOK'
  <2>1. [path |-> path, slot |-> 0] \in Call
    BY DEF Call
  <2>2. QED
    BY <1>2, <2>1 DEF Demand, TypeOK, slotVars
<1>3. ASSUME NEW t \in Threads, FindSlot(t) PROVE TypeOK'
  <2>1. PICK s \in Slots, next \in {"record", "claim"} :
          /\ call' = [call EXCEPT ![t].slot = s]
          /\ pc' = [pc EXCEPT ![t] = next]
    BY <1>3 DEF FindSlot, Slots
  <2>2. call' \in [Threads -> Call] /\ call'[t].slot = s
    <3>1. s \in 0 .. NumSlots
      BY DEF Slots
    <3>2. QED
      BY <2>1, <3>1, CallFacts
  <2>3. QED
    BY <1>3, <2>1, <2>2 DEF FindSlot, TypeOK, slotVars
<1>4. ASSUME NEW t \in Threads, ClaimSlot(t) PROVE TypeOK'
  BY <1>4 DEF ClaimSlot, TypeOK
<1>5. ASSUME NEW t \in Threads, SkipSlot(t) PROVE TypeOK'
  <2> DEFINE s == call[t].slot + 1
  <2>1. s \in Slots /\ s \in 0 .. NumSlots /\ call' = [call EXCEPT ![t].slot = s]
    <3>1. call' = [call EXCEPT ![t].slot = s]
      BY <1>5 DEF SkipSlot
    <3>2. call[t].slot \in 1 .. NumSlots /\ call[t].slot < NumSlots
      BY <1>5 DEF SkipSlot, TypeOK, Slots
    <3>3. s \in 1 .. NumSlots /\ s \in 0 .. NumSlots
      BY <3>2
    <3>4. QED
      BY <3>1, <3>3 DEF Slots
  <2> HIDE DEF s
  <2>2. call' \in [Threads -> Call] /\ call'[t].slot = s
    BY <2>1, CallFacts
  <2>3. \A u \in Threads : u # t => call'[u] = call[u]
    BY <2>1 DEF TypeOK
  <2>4. QED
    BY <1>5, <2>1, <2>2, <2>3 DEF SkipSlot, TypeOK, slotVars
<1>6. ASSUME NEW t \in Threads, DropRequest(t) PROVE TypeOK'
  <2>1. Untracked(call[t].path) \in Frame
    BY DEF Untracked, Frame, Indices, TypeOK, Call
  <2>2. /\ Append(stack[t], Untracked(call[t].path)) \in Seq(Frame)
        /\ Append(stack[t], Untracked(call[t].path)) # <<>>
    BY <2>1, PushFacts
  <2>3. QED
    BY <1>6, <2>2 DEF DropRequest, TypeOK, slotVars
<1>7. ASSUME NEW t \in Threads, Record(t) PROVE TypeOK'
  <2> DEFINE s == call[t].slot
             i == RecordIndex(s)
             entry == [path |-> call[t].path, ticks |-> now, active |-> TRUE]
             frame == [path |-> call[t].path, slot |-> s, index |-> i, seq |-> recorded[s] + 1]
  <2>1. s \in Slots /\ s \in 0 .. NumSlots /\ call[t].path \in Paths \cup {NoPath}
    BY <1>7 DEF Record, TypeOK, Slots, Call
  <2>2. head[s] \in Nat /\ recorded[s] \in Nat /\ now \in Nat
    BY <2>1 DEF TypeOK
  <2>3. i \in Indices
    BY <2>2 DEF RecordIndex, Indices
  <2>4. entry \in Entry /\ frame \in Frame
    BY <2>1, <2>2, <2>3 DEF Entry, Frame
  <2>5. (head[s] + 1) % HeadMod \in 0 .. HeadMod - 1
    BY <2>2
  <2>6. Append(stack[t], frame) \in Seq(Frame) /\ Append(stack[t], frame) # <<>>
    BY <2>4, PushFacts
  <2>7. [ring[s] EXCEPT ![i] = entry] \in [Indices -> Entry]
    BY <2>1, <2>3, <2>4 DEF TypeOK
  <2>8. /\ ring' = [ring EXCEPT ![s] = [ring[s] EXCEPT ![i] = entry]]
        /\ head' = [head EXCEPT ![s] = (head[s] + 1) % HeadMod]
        /\ recorded' = [recorded EXCEPT ![s] = recorded[s] + 1]
        /\ stack' = [stack EXCEPT ![t] = Append(stack[t], frame)]
        /\ pc' = [pc EXCEPT ![t] = "run"]
        /\ UNCHANGED <<owner, call, now>>
    BY <1>7 DEF Record
  <2> HIDE DEF s, i, entry, frame
  <2>9. /\ ring' \in [Slots -> [Indices -> Entry]]
        /\ head' \in [Slots -> 0 .. HeadMod - 1]
        /\ recorded' \in [Slots -> Nat]
    <3>1. ring' \in [Slots -> [Indices -> Entry]]
      BY <2>1, <2>7, <2>8 DEF TypeOK
    <3>2. head' \in [Slots -> 0 .. HeadMod - 1]
      BY <2>1, <2>5, <2>8 DEF TypeOK
    <3>3. recorded[s] + 1 \in Nat
      BY <2>2
    <3>4. recorded' \in [Slots -> Nat]
      BY <2>1, <3>3, <2>8 DEF TypeOK
    <3>5. QED
      BY <3>1, <3>2, <3>4
  <2>10. stack' \in [Threads -> Seq(Frame)]
    BY <2>6, <2>8 DEF TypeOK
  <2>11. /\ pc' \in [Threads -> {"run", "find", "claim", "record", "unwind", "crashed"}]
         /\ \A u \in Threads : pc'[u] \in {"claim", "record", "unwind"} => u # t /\ pc'[u] = pc[u]
    BY <2>8 DEF TypeOK
  <2>12. \A u \in Threads : u # t => stack'[u] = stack[u]
    BY <2>8 DEF TypeOK
  <2>13. UNCHANGED <<owner, call, now>>
    BY <2>8
  <2>14. QED
    BY <2>9, <2>10, <2>11, <2>12, <2>13 DEF TypeOK
<1>8. ASSUME NEW t \in Threads, Return(t) PROVE TypeOK'
  <2>1. Pop(t) \in Seq(Frame) /\ GuardReleased(t) \in [Slots -> [Indices -> Entry]]
    BY <1>8, TopFacts, GuardFacts DEF Return
  <2>2. QED
    BY <1>8, <2>1 DEF Return, TypeOK
<1>9. ASSUME NEW t \in Threads, Throw(t) PROVE TypeOK'
  BY <1>9 DEF Throw, TypeOK, slotVars
<1>10. ASSUME NEW t \in Threads, Unwind(t) PROVE TypeOK'
  <2>1. stack[t] # <<>> /\ stack[t] \in Seq(Frame)
    BY <1>10 DEF Unwind, TypeOK
  <2>2. /\ Pop(t) \in Seq(Frame)
        /\ Len(Pop(t)) = Len(stack[t]) - 1
        /\ GuardReleased(t) \in [Slots -> [Indices -> Entry]]
    BY <2>1, TopFacts, GuardFacts
  <2>3. Len(stack[t]) > 1 => Pop(t) # <<>>
    BY <2>1, <2>2, EmptySeq, LenProperties
  <2>4. /\ ring' = GuardReleased(t)
        /\ stack' = [stack EXCEPT ![t] = Pop(t)]
        /\ UNCHANGED <<owner, head, recorded, call, now>>
    BY <1>10 DEF Unwind
  <2>5. \/ pc' = [pc EXCEPT ![t] = "run"]
        \/ Len(stack[t]) > 1 /\ pc' = pc
    BY <1>10 DEF Unwind
  <2>6. QED
    BY <2>2, <2>3, <2>4, <2>5 DEF TypeOK
<1>11. ASSUME NEW t \in Threads, Crash(t) PROVE TypeOK'
  BY <1>11 DEF Crash, TypeOK, slotVars
<1>12. ASSUME NEW t \in Threads, FaultInCopy(t) PROVE TypeOK'
  <2> DEFINE s == call[t].slot
             i == RecordIndex(s)
             entry == [ring[s][i] EXCEPT !.path = Torn]
  <2>1. s \in Slots
    BY <1>12 DEF FaultInCopy, TypeOK
  <2>2. i \in Indices
    BY <2>1 DEF RecordIndex, Indices, TypeOK
  <2>3. entry \in Entry
    <3>1. ring[s][i] \in Entry
      BY <2>1, <2>2 DEF TypeOK
    <3>2. QED
      BY <3>1 DEF Entry
  <2>4. [ring[s] EXCEPT ![i] = entry] \in [Indices -> Entry]
    BY <2>1, <2>2, <2>3 DEF TypeOK
  <2>5. ring' = [ring EXCEPT ![s] = [ring[s] EXCEPT ![i] = entry]]
    BY <1>12 DEF FaultInCopy
  <2> HIDE DEF s, i, entry
  <2>6. ring' \in [Slots -> [Indices -> Entry]]
    BY <2>1, <2>4, <2>5 DEF TypeOK
  <2>7. QED
    BY <1>12, <2>6 DEF FaultInCopy, TypeOK
<1>13. CASE Tick
  BY <1>13 DEF Tick, TypeOK, slotVars
<1>14. CASE UNCHANGED vars
  BY <1>14 DEF vars, TypeOK
<1>15. QED
  BY <1>1, <1>2, <1>3, <1>4, <1>5, <1>6, <1>7, <1>8, <1>9, <1>10, <1>11, <1>12,
     <1>13, <1>14 DEF Next

\* Whatever the threads do, every variable keeps the type the code declares,
\* and a thread that searches or records has a slot of the pool in hand.
THEOREM TypeCorrect == Spec => []TypeOK
BY InitTypeOK, StepTypeOK, PTL DEF Spec

-----------------------------------------------------------------------------
(* Ownership of the slots                                                   *)

\* The owners of the slots change in one way only: a thread that has found no
\* slot of its own takes one that is free.
LEMMA OwnerStep ==
  ASSUME [Next]_vars
  PROVE  \/ owner' = owner
         \/ \E t \in Threads : ClaimSlot(t)
BY DEF Next, vars, DemandNoPath, Demand, FindSlot, SkipSlot, DropRequest, Record, Return, Throw,
       Unwind, Crash, FaultInCopy, Tick, slotVars

\* Once a slot is claimed it never changes hands.
THEOREM OwnershipNeverChanges == Spec => OwnershipStable
<1>1. ASSUME TypeOK, [Next]_vars
      PROVE  \A s \in Slots : owner[s] # NoThread => owner'[s] = owner[s]
  <2>1. CASE owner' = owner
    BY <2>1
  <2>2. ASSUME NEW t \in Threads, ClaimSlot(t)
        PROVE  \A s \in Slots : owner[s] # NoThread => owner'[s] = owner[s]
    BY <1>1, <2>2 DEF ClaimSlot, TypeOK
  <2>3. QED
    BY <1>1, <2>1, <2>2, OwnerStep
<1>2. TypeOK /\ [Next]_vars
      => [\A s \in Slots : owner[s] # NoThread => owner'[s] = owner[s]]_vars
  BY <1>1
<1>3. QED
  BY <1>2, TypeCorrect, PTL DEF Spec, OwnershipStable

SlotInv == OneSlotPerThread /\ WritesOwnSlotOnly /\ DropOnlyWhenFull

LEMMA InitSlotInv == Init => SlotInv
<1> SUFFICES ASSUME Init PROVE SlotInv
  OBVIOUS
<1>1. \A t \in Threads : DOMAIN stack[t] = {}
  <2>1. <<>> \in Seq(Frame) /\ Len(<<>>) = 0
    BY EmptySeq
  <2>2. DOMAIN <<>> = 1 .. 0
    BY <2>1, LenProperties
  <2>3. 1 .. 0 = {}
    OBVIOUS
  <2>4. QED
    BY <2>2, <2>3 DEF Init
<1>2. QED
  BY <1>1 DEF Init, SlotInv, OneSlotPerThread, WritesOwnSlotOnly, DropOnlyWhenFull, Tracked

\* A step that gives no slot away and adds no call keeps what the calls of a
\* thread say about the slots.
LEMMA SameSlots ==
  ASSUME SlotInv, UNCHANGED owner,
         NEW t \in Threads,
         \A u \in Threads : u # t => pc'[u] = pc[u] /\ call'[u] = call[u] /\ stack'[u] = stack[u],
         pc'[t] = "record" => owner[call'[t].slot] = t,
         \A k \in DOMAIN stack'[t] :
           \/ k \in DOMAIN stack[t] /\ stack'[t][k] = stack[t][k]
           \/ stack'[t][k].slot # 0 /\ owner[stack'[t][k].slot] = t
           \/ stack'[t][k].slot = 0 /\ stack'[t][k].path = NoPath
           \/ stack'[t][k].slot = 0 /\ \A s \in Slots : owner[s] \notin {t, NoThread},
         pc'[t] = "claim" => \A s \in Slots :
           owner[s] # t /\ (s < call'[t].slot => owner[s] # NoThread)
  PROVE  SlotInv'
<1>1. OneSlotPerThread'
  BY DEF SlotInv, OneSlotPerThread
<1>2. WritesOwnSlotOnly'
  BY DEF SlotInv, WritesOwnSlotOnly, Tracked
<1>3. DropOnlyWhenFull'
  <2> SUFFICES ASSUME NEW u \in Threads
               PROVE  /\ (\E k \in DOMAIN stack'[u] : stack'[u][k].slot = 0 /\ stack'[u][k].path # NoPath)
                           => \A s \in Slots : owner[s] \notin {u, NoThread}
                      /\ pc'[u] = "claim"
                           => \A s \in Slots : owner[s] # u /\ (s < call'[u].slot => owner[s] # NoThread)
    BY DEF DropOnlyWhenFull
  <2>1. CASE u # t
    BY <2>1 DEF SlotInv, DropOnlyWhenFull
  <2>2. CASE u = t
    BY <2>2 DEF SlotInv, DropOnlyWhenFull
  <2>3. QED
    BY <2>1, <2>2
<1>4. QED
  BY <1>1, <1>2, <1>3 DEF SlotInv

\* No step of any thread breaks the ownership of the slots.
LEMMA StepSlotInv == TypeOK /\ SlotInv /\ [Next]_vars => SlotInv'
<1> SUFFICES ASSUME TypeOK, SlotInv, [Next]_vars PROVE SlotInv'
  OBVIOUS
<1> USE TrackerAssumption
<1>1. ASSUME NEW t \in Threads, DemandNoPath(t) PROVE SlotInv'
  <2>1. Untracked(NoPath) \in Frame
    BY DEF Untracked, Frame, Indices
  <2>2. stack'[t] = Append(stack[t], Untracked(NoPath))
    BY <1>1 DEF DemandNoPath, TypeOK
  <2>3. \A k \in DOMAIN stack'[t] :
          \/ k \in DOMAIN stack[t] /\ stack'[t][k] = stack[t][k]
          \/ stack'[t][k] = Untracked(NoPath)
    BY <2>1, <2>2, PushFacts
  <2>4. Untracked(NoPath).slot = 0 /\ Untracked(NoPath).path = NoPath
    BY DEF Untracked
  <2>5. UNCHANGED <<owner, pc, call>> /\ pc'[t] = "run"
    BY <1>1 DEF DemandNoPath, slotVars
  <2>6. \A u \in Threads : u # t => stack'[u] = stack[u]
    BY <1>1 DEF DemandNoPath, TypeOK
  <2>7. QED
    BY <2>3, <2>4, <2>5, <2>6, SameSlots
<1>2. ASSUME NEW t \in Threads, NEW path \in Paths, Demand(t, path) PROVE SlotInv'
  BY <1>2, SameSlots DEF Demand, TypeOK, slotVars
<1>3. ASSUME NEW t \in Threads, FindSlot(t) PROVE SlotInv'
  <2>1. \/ pc'[t] = "record" /\ owner[call'[t].slot] = t
        \/ /\ pc'[t] = "claim"
           /\ call'[t].slot = 1
           /\ \A s \in Slots : owner[s] # t
    <3>1. CASE \E s \in Slots : /\ owner[s] = t
                                /\ call' = [call EXCEPT ![t].slot = s]
                                /\ pc' = [pc EXCEPT ![t] = "record"]
      <4>1. PICK s \in Slots : /\ owner[s] = t
                               /\ call' = [call EXCEPT ![t].slot = s]
                               /\ pc' = [pc EXCEPT ![t] = "record"]
        BY <3>1
      <4>2. s \in 0 .. NumSlots
        BY DEF Slots
      <4>3. call'[t].slot = s
        BY <4>1, <4>2, CallFacts
      <4>4. QED
        BY <4>1, <4>3 DEF TypeOK
    <3>2. CASE /\ \A s \in Slots : owner[s] # t
               /\ call' = [call EXCEPT ![t].slot = 1]
               /\ pc' = [pc EXCEPT ![t] = "claim"]
      <4>1. 1 \in 0 .. NumSlots
        BY TrackerAssumption
      <4>2. call'[t].slot = 1
        BY <3>2, <4>1, CallFacts
      <4>3. QED
        BY <3>2, <4>2 DEF TypeOK
    <3>3. QED
      BY <1>3, <3>1, <3>2 DEF FindSlot
  <2>2. \A s \in Slots : ~(s < 1)
    BY DEF Slots
  <2>3. \A u \in Threads : u # t => pc'[u] = pc[u] /\ call'[u] = call[u] /\ stack'[u] = stack[u]
    BY <1>3 DEF FindSlot, TypeOK
  <2>4. UNCHANGED <<owner, stack>>
    BY <1>3 DEF FindSlot, slotVars
  <2>5. QED
    BY <2>1, <2>2, <2>3, <2>4, SameSlots
<1>4. ASSUME NEW t \in Threads, ClaimSlot(t) PROVE SlotInv'
  <2> DEFINE s == call[t].slot
  <2>1. /\ s \in Slots
        /\ owner[s] = NoThread
        /\ owner' = [owner EXCEPT ![s] = t]
        /\ pc' = [pc EXCEPT ![t] = "record"]
        /\ UNCHANGED <<call, stack>>
        /\ pc[t] = "claim"
    BY <1>4 DEF ClaimSlot, TypeOK
  <2>2. \A r \in Slots : owner[r] # t
    BY <2>1 DEF SlotInv, DropOnlyWhenFull
  <2>3. OneSlotPerThread'
    BY <2>1, <2>2 DEF SlotInv, OneSlotPerThread, TypeOK
  <2>4. \A r \in Slots : owner[r] # NoThread => owner'[r] = owner[r]
    BY <2>1 DEF TypeOK
  <2>5. \A u \in Threads : \A k \in Tracked(u) : stack[u][k].slot \in Slots
    <3> SUFFICES ASSUME NEW u \in Threads, NEW k \in Tracked(u)
                 PROVE  stack[u][k].slot \in Slots
      OBVIOUS
    <3>1. stack[u] \in Seq(Frame) /\ k \in DOMAIN stack[u] /\ stack[u][k].slot # 0
      BY DEF TypeOK, Tracked
    <3>2. stack[u][k] \in Frame
      BY <3>1, ElementOfSeq, LenProperties
    <3>3. QED
      BY <3>1, <3>2 DEF Frame, Slots
  <2>6. WritesOwnSlotOnly'
    <3>1. Tracked(t)' = Tracked(t) /\ \A u \in Threads : Tracked(u)' = Tracked(u)
      BY <2>1 DEF Tracked
    <3>2. \A u \in Threads : \A k \in Tracked(u) : owner'[stack[u][k].slot] = u
      BY <2>4, <2>5 DEF SlotInv, WritesOwnSlotOnly
    <3>3. \A u \in Threads : pc'[u] = "record" => owner'[call[u].slot] = u
      BY <2>1, <2>4 DEF SlotInv, WritesOwnSlotOnly, TypeOK
    <3>4. QED
      BY <2>1, <3>1, <3>2, <3>3 DEF WritesOwnSlotOnly
  <2>7. DropOnlyWhenFull'
    <3> SUFFICES ASSUME NEW u \in Threads
                 PROVE  /\ (\E k \in DOMAIN stack[u] : stack[u][k].slot = 0 /\ stack[u][k].path # NoPath)
                             => \A r \in Slots : owner'[r] \notin {u, NoThread}
                        /\ pc'[u] = "claim"
                             => \A r \in Slots : owner'[r] # u /\ (r < call[u].slot => owner'[r] # NoThread)
      BY <2>1 DEF DropOnlyWhenFull
    <3>1. (\E k \in DOMAIN stack[u] : stack[u][k].slot = 0 /\ stack[u][k].path # NoPath)
            => \A r \in Slots : owner'[r] \notin {u, NoThread}
      BY <2>4 DEF SlotInv, DropOnlyWhenFull
    <3>2. CASE u = t
      BY <2>1, <3>1, <3>2 DEF TypeOK
    <3>3. CASE u # t
      <4>1. pc'[u] = pc[u]
        BY <2>1, <3>3 DEF TypeOK
      <4>2. \A r \in Slots : owner'[r] = IF r = s THEN t ELSE owner[r]
        BY <2>1 DEF TypeOK
      <4>3. QED
        BY <2>1, <3>1, <3>3, <4>1, <4>2 DEF SlotInv, DropOnlyWhenFull
    <3>4. QED
      BY <3>2, <3>3
  <2>8. QED
    BY <2>3, <2>6, <2>7 DEF SlotInv
<1>5. ASSUME NEW t \in Threads, SkipSlot(t) PROVE SlotInv'
  <2>1. /\ call[t].slot \in Slots
        /\ owner[call[t].slot] # NoThread
        /\ call'[t].slot = call[t].slot + 1
        /\ pc[t] = "claim"
        /\ UNCHANGED <<owner, pc, stack>>
    BY <1>5 DEF SkipSlot, TypeOK, slotVars
  <2>2. \A u \in Threads : u # t => call'[u] = call[u]
    BY <1>5 DEF SkipSlot, TypeOK
  <2>3. \A s \in Slots : owner[s] # t /\ (s < call'[t].slot => owner[s] # NoThread)
    BY <2>1 DEF SlotInv, DropOnlyWhenFull, Slots
  <2>4. QED
    BY <2>1, <2>2, <2>3, SameSlots
<1>6. ASSUME NEW t \in Threads, DropRequest(t) PROVE SlotInv'
  <2> DEFINE f == Untracked(call[t].path)
  <2>1. f \in Frame /\ f.slot = 0
    BY DEF Untracked, Frame, Indices, TypeOK, Call
  <2>2. stack'[t] = Append(stack[t], f)
    BY <1>6 DEF DropRequest, TypeOK
  <2>3. \A k \in DOMAIN stack'[t] :
          \/ k \in DOMAIN stack[t] /\ stack'[t][k] = stack[t][k]
          \/ stack'[t][k] = f
    BY <2>1, <2>2, PushFacts
  <2>4. \A s \in Slots : owner[s] \notin {t, NoThread}
    <3>1. call[t].slot = NumSlots /\ owner[NumSlots] # NoThread
      BY <1>6 DEF DropRequest
    <3>2. \A s \in Slots : owner[s] # t /\ (s < NumSlots => owner[s] # NoThread)
      BY <1>6, <3>1 DEF DropRequest, SlotInv, DropOnlyWhenFull
    <3>3. \A s \in Slots : s < NumSlots \/ s = NumSlots
      BY DEF Slots
    <3>4. QED
      BY <3>1, <3>2, <3>3
  <2> HIDE DEF f
  <2>5. UNCHANGED owner /\ pc'[t] = "run"
    BY <1>6 DEF DropRequest, slotVars, TypeOK
  <2>6. \A u \in Threads : u # t => pc'[u] = pc[u] /\ call'[u] = call[u] /\ stack'[u] = stack[u]
    BY <1>6 DEF DropRequest, TypeOK
  <2>7. QED
    BY <2>1, <2>3, <2>4, <2>5, <2>6, SameSlots
<1>7. ASSUME NEW t \in Threads, Record(t) PROVE SlotInv'
  <2> DEFINE s == call[t].slot
             f == [path |-> call[t].path, slot |-> s, index |-> RecordIndex(s), seq |-> recorded[s] + 1]
  <2>1. s \in Slots /\ owner[s] = t
    BY <1>7 DEF Record, TypeOK, SlotInv, WritesOwnSlotOnly
  <2>2. f \in Frame /\ f.slot = s /\ s # 0
    <3>1. head[s] \in Nat /\ recorded[s] + 1 \in Nat
      BY <2>1 DEF TypeOK
    <3>2. RecordIndex(s) \in Indices
      BY <3>1 DEF RecordIndex, Indices
    <3>3. call[t].path \in Paths \cup {NoPath} /\ s \in 0 .. NumSlots /\ s # 0
      BY <2>1 DEF TypeOK, Call, Slots
    <3>4. QED
      BY <3>1, <3>2, <3>3 DEF Frame
  <2>3. stack'[t] = Append(stack[t], f)
    BY <1>7 DEF Record, TypeOK
  <2>4. UNCHANGED owner /\ pc'[t] = "run"
    BY <1>7 DEF Record, TypeOK
  <2>5. \A u \in Threads : u # t => pc'[u] = pc[u] /\ call'[u] = call[u] /\ stack'[u] = stack[u]
    BY <1>7 DEF Record, TypeOK
  <2> HIDE DEF f, s
  <2>6. \A k \in DOMAIN stack'[t] :
          \/ k \in DOMAIN stack[t] /\ stack'[t][k] = stack[t][k]
          \/ stack'[t][k] = f
    BY <2>2, <2>3, PushFacts
  <2>7. QED
    BY <2>1, <2>2, <2>4, <2>5, <2>6, SameSlots
<1>8. ASSUME NEW t \in Threads, Return(t) \/ Unwind(t) PROVE SlotInv'
  <2>1. stack[t] # <<>>
    BY <1>8 DEF Return, Unwind, TypeOK
  <2>2. stack'[t] = Pop(t)
    BY <1>8 DEF Return, Unwind, TypeOK
  <2>3. \A k \in DOMAIN stack'[t] : k \in DOMAIN stack[t] /\ stack'[t][k] = stack[t][k]
    BY <2>1, <2>2, TopFacts
  <2>4. UNCHANGED <<owner, call>> /\ pc'[t] \in {"run", "unwind"}
    BY <1>8 DEF Return, Unwind, TypeOK
  <2>5. \A u \in Threads : u # t => pc'[u] = pc[u] /\ stack'[u] = stack[u]
    BY <1>8 DEF Return, Unwind, TypeOK
  <2>6. QED
    BY <2>3, <2>4, <2>5, SameSlots
<1>9. ASSUME NEW t \in Threads, Throw(t) \/ Crash(t) \/ FaultInCopy(t) PROVE SlotInv'
  <2>1. UNCHANGED <<owner, call, stack>> /\ pc'[t] \in {"unwind", "crashed"}
    BY <1>9 DEF Throw, Crash, FaultInCopy, TypeOK, slotVars
  <2>2. \A u \in Threads : u # t => pc'[u] = pc[u]
    BY <1>9 DEF Throw, Crash, FaultInCopy, TypeOK
  <2>3. QED
    BY <2>1, <2>2, SameSlots
<1>10. CASE Tick \/ UNCHANGED vars
  <2>1. UNCHANGED <<owner, call, pc, stack>>
    BY <1>10 DEF Tick, vars, slotVars
  <2>2. QED
    BY <2>1 DEF SlotInv, OneSlotPerThread, WritesOwnSlotOnly, DropOnlyWhenFull, Tracked
<1>11. QED
  BY <1>1, <1>2, <1>3, <1>4, <1>5, <1>6, <1>7, <1>8, <1>9, <1>10 DEF Next

\* Any number of threads racing for any number of slots end with one slot each
\* at most: get_report, which looks at the first slot with the thread's id,
\* sees everything the thread has recorded.
THEOREM AtMostOneSlot == Spec => []OneSlotPerThread
<1>1. SlotInv => OneSlotPerThread
  BY DEF SlotInv
<1>2. QED
  BY <1>1, InitTypeOK, StepTypeOK, InitSlotInv, StepSlotInv, PTL DEF Spec

\* The rings need no lock: a thread fills, and later clears, entries of its own
\* slot only.
THEOREM OnlyOwnSlotWritten == Spec => []WritesOwnSlotOnly
<1>1. SlotInv => WritesOwnSlotOnly
  BY DEF SlotInv
<1>2. QED
  BY <1>1, InitTypeOK, StepTypeOK, InitSlotInv, StepSlotInv, PTL DEF Spec

\* No request is dropped while a slot is free, however the searches interleave.
THEOREM DroppedOnlyWhenPoolExhausted == Spec => []DropOnlyWhenFull
<1>1. SlotInv => DropOnlyWhenFull
  BY DEF SlotInv
<1>2. QED
  BY <1>1, InitTypeOK, StepTypeOK, InitSlotInv, StepSlotInv, PTL DEF Spec

-----------------------------------------------------------------------------
(* In-flight markers                                                        *)

\* A step that turns no marker on, keeps the owners and keeps the calls of
\* every thread keeps the markers truthful.
LEMMA SameMarkers ==
  ASSUME NoFalseInFlight, UNCHANGED owner,
         \A s \in Slots, i \in Indices : ring'[s][i].active => ring[s][i].active,
         \A t \in Threads : \A k \in DOMAIN stack[t] :
           k \in DOMAIN stack'[t] /\ stack'[t][k] = stack[t][k]
  PROVE  NoFalseInFlight'
<1> SUFFICES ASSUME NEW s \in Slots, NEW i \in Indices, ring'[s][i].active
             PROVE  \E t \in Threads : owner'[s] = t
                      /\ \E k \in Tracked(t)' : stack'[t][k].slot = s /\ stack'[t][k].index = i
  BY DEF NoFalseInFlight
<1>1. PICK t \in Threads : owner[s] = t
              /\ \E k \in Tracked(t) : stack[t][k].slot = s /\ stack[t][k].index = i
  BY DEF NoFalseInFlight
<1>2. PICK k \in Tracked(t) : stack[t][k].slot = s /\ stack[t][k].index = i
  BY <1>1
<1>3. k \in Tracked(t)' /\ stack'[t][k] = stack[t][k]
  BY <1>2 DEF Tracked
<1>4. QED
  BY <1>1, <1>2, <1>3

LEMMA InitMarkers == Init => NoFalseInFlight
BY DEF Init, NoFalseInFlight

\* Returning, throwing, overwriting an entry: none leaves a marker behind.
LEMMA StepMarkers == TypeOK /\ SlotInv /\ NoFalseInFlight /\ [Next]_vars => NoFalseInFlight'
<1> SUFFICES ASSUME TypeOK, SlotInv, NoFalseInFlight, [Next]_vars PROVE NoFalseInFlight'
  OBVIOUS
<1> USE TrackerAssumption
<1>1. ASSUME NEW t \in Threads, DemandNoPath(t) PROVE NoFalseInFlight'
  <2>1. Untracked(NoPath) \in Frame
    BY DEF Untracked, Frame, Indices
  <2>2. stack' = [stack EXCEPT ![t] = Append(stack[t], Untracked(NoPath))] /\ UNCHANGED <<owner, ring>>
    BY <1>1 DEF DemandNoPath, slotVars
  <2>3. \A u \in Threads : \A k \in DOMAIN stack[u] :
          k \in DOMAIN stack'[u] /\ stack'[u][k] = stack[u][k]
    BY <2>1, <2>2, PushFacts DEF TypeOK
  <2>4. QED
    BY <2>2, <2>3, SameMarkers
<1>2. ASSUME NEW t \in Threads, DropRequest(t) PROVE NoFalseInFlight'
  <2> DEFINE f == Untracked(call[t].path)
  <2>1. f \in Frame
    BY DEF Untracked, Frame, Indices, TypeOK, Call
  <2>2. stack' = [stack EXCEPT ![t] = Append(stack[t], f)] /\ UNCHANGED <<owner, ring>>
    BY <1>2 DEF DropRequest, slotVars
  <2> HIDE DEF f
  <2>3. \A u \in Threads : \A k \in DOMAIN stack[u] :
          k \in DOMAIN stack'[u] /\ stack'[u][k] = stack[u][k]
    BY <2>1, <2>2, PushFacts DEF TypeOK
  <2>4. QED
    BY <2>2, <2>3, SameMarkers
<1>3. ASSUME NEW t \in Threads, ClaimSlot(t) PROVE NoFalseInFlight'
  <2> DEFINE s == call[t].slot
  <2>1. s \in Slots /\ owner[s] = NoThread /\ owner' = [owner EXCEPT ![s] = t] /\ UNCHANGED <<ring, stack>>
    BY <1>3 DEF ClaimSlot, TypeOK
  <2>2. \A i \in Indices : ~ring[s][i].active
    BY <2>1 DEF NoFalseInFlight
  <2>3. \A r \in Slots : r # s => owner'[r] = owner[r]
    BY <2>1 DEF TypeOK
  <2>4. \A u \in Threads : Tracked(u)' = Tracked(u)
    BY <2>1 DEF Tracked
  <2> HIDE DEF s
  <2>5. ASSUME NEW r \in Slots, NEW i \in Indices, ring'[r][i].active
        PROVE  \E u \in Threads : owner'[r] = u
                 /\ \E k \in Tracked(u)' : stack'[u][k].slot = r /\ stack'[u][k].index = i
    <3>1. r # s /\ ring[r][i].active
      BY <2>1, <2>2, <2>5
    <3>2. QED
      BY <2>1, <2>3, <2>4, <3>1 DEF NoFalseInFlight
  <2>6. QED
    BY <2>5 DEF NoFalseInFlight
<1>4. ASSUME NEW t \in Threads, Record(t) PROVE NoFalseInFlight'
  <2> DEFINE s == call[t].slot
             i == RecordIndex(s)
             f == [path |-> call[t].path, slot |-> s, index |-> i, seq |-> recorded[s] + 1]
             e == [path |-> call[t].path, ticks |-> now, active |-> TRUE]
  <2>1. s \in Slots /\ owner[s] = t
    BY <1>4 DEF Record, TypeOK, SlotInv, WritesOwnSlotOnly
  <2>2. i \in Indices
    BY <2>1 DEF RecordIndex, Indices, TypeOK
  <2>3. f \in Frame /\ f.slot = s /\ f.index = i /\ s # 0
    BY <2>1, <2>2 DEF TypeOK, Frame, Call, Slots
  <2>4. /\ stack' = [stack EXCEPT ![t] = Append(stack[t], f)]
        /\ ring' = [ring EXCEPT ![s] = [ring[s] EXCEPT ![i] = e]]
        /\ UNCHANGED owner
    BY <1>4 DEF Record
  <2> HIDE DEF f, e, i, s
  <2>5. \A r \in Slots, j \in Indices : ~(r = s /\ j = i) => ring'[r][j] = ring[r][j]
    BY <2>1, <2>2, <2>4 DEF TypeOK
  <2>6. /\ \A u \in Threads : \A k \in DOMAIN stack[u] :
              k \in DOMAIN stack'[u] /\ stack'[u][k] = stack[u][k]
        /\ \E k \in DOMAIN stack'[t] : stack'[t][k] = f
    <3>1. stack'[t] = Append(stack[t], f)
      BY <2>4 DEF TypeOK
    <3>2. \A u \in Threads : u # t => stack'[u] = stack[u]
      BY <2>4 DEF TypeOK
    <3>3. /\ \A k \in DOMAIN stack[t] : k \in DOMAIN stack'[t] /\ stack'[t][k] = stack[t][k]
          /\ \E k \in DOMAIN stack'[t] : stack'[t][k] = f
      BY <2>3, <3>1, PushFacts
    <3>4. QED
      BY <3>2, <3>3
  <2>7. ASSUME NEW r \in Slots, NEW j \in Indices, ring'[r][j].active
        PROVE  \E u \in Threads : owner'[r] = u
                 /\ \E k \in Tracked(u)' : stack'[u][k].slot = r /\ stack'[u][k].index = j
    <3>1. CASE r = s /\ j = i
      BY <2>1, <2>3, <2>4, <2>6, <3>1 DEF Tracked
    <3>2. CASE ~(r = s /\ j = i)
      <4>1. ring[r][j].active
        BY <2>5, <2>7, <3>2
      <4>2. PICK u \in Threads : owner[r] = u
                   /\ \E k \in Tracked(u) : stack[u][k].slot = r /\ stack[u][k].index = j
        BY <4>1 DEF NoFalseInFlight
      <4>3. \E k \in Tracked(u)' : stack'[u][k].slot = r /\ stack'[u][k].index = j
        BY <2>6, <4>2 DEF Tracked
      <4>4. QED
        BY <2>4, <4>2, <4>3
    <3>3. QED
      BY <3>1, <3>2
  <2>8. QED
    BY <2>7 DEF NoFalseInFlight
<1>5. ASSUME NEW t \in Threads, Return(t) \/ Unwind(t) PROVE NoFalseInFlight'
  <2>1. stack[t] # <<>>
    BY <1>5 DEF Return, Unwind, TypeOK
  <2>2. /\ stack' = [stack EXCEPT ![t] = Pop(t)]
        /\ ring' = GuardReleased(t)
        /\ UNCHANGED owner
    BY <1>5 DEF Return, Unwind
  <2>3. ASSUME NEW s \in Slots, NEW i \in Indices, ring'[s][i].active
        PROVE  \E u \in Threads : owner'[s] = u
                 /\ \E k \in Tracked(u)' : stack'[u][k].slot = s /\ stack'[u][k].index = i
    <3>1. ring[s][i].active /\ ~(s = Top(t).slot /\ i = Top(t).index)
      BY <2>1, <2>2, <2>3, GuardFacts
    <3>2. PICK u \in Threads : owner[s] = u
                 /\ \E k \in Tracked(u) : stack[u][k].slot = s /\ stack[u][k].index = i
      BY <3>1 DEF NoFalseInFlight
    <3>3. PICK k \in Tracked(u) : stack[u][k].slot = s /\ stack[u][k].index = i
      BY <3>2
    <3>4. k \in DOMAIN stack'[u] /\ stack'[u][k] = stack[u][k]
      <4>1. CASE u = t
        <5>1. stack'[t] = Pop(t)
          BY <2>2 DEF TypeOK
        <5>2. k \in DOMAIN stack[t] /\ stack[t][k] # Top(t)
          BY <3>1, <3>3, <4>1 DEF Tracked
        <5>3. k \in DOMAIN Pop(t)
          BY <2>1, <5>2, TopFacts
        <5>4. Pop(t)[k] = stack[t][k]
          BY <2>1, <5>3, TopFacts
        <5>5. QED
          BY <4>1, <5>1, <5>3, <5>4
      <4>2. CASE u # t
        BY <2>2, <3>3, <4>2 DEF Tracked, TypeOK
      <4>3. QED
        BY <4>1, <4>2
    <3>5. k \in Tracked(u)'
      BY <3>3, <3>4 DEF Tracked
    <3>6. QED
      BY <2>2, <3>2, <3>3, <3>4, <3>5
  <2>4. QED
    BY <2>3 DEF NoFalseInFlight
<1>6. ASSUME NEW t \in Threads, FaultInCopy(t) PROVE NoFalseInFlight'
  <2>1. call[t].slot \in Slots /\ UNCHANGED <<owner, stack>>
    BY <1>6 DEF FaultInCopy, TypeOK
  <2>2. RecordIndex(call[t].slot) \in Indices
    BY <2>1 DEF RecordIndex, Indices, TypeOK
  <2>3. \A s \in Slots, i \in Indices : ring'[s][i].active = ring[s][i].active
    <3> SUFFICES ASSUME NEW s \in Slots, NEW i \in Indices
                 PROVE  ring'[s][i].active = ring[s][i].active
      OBVIOUS
    <3>1. ring[s] \in [Indices -> Entry] /\ ring[s][i] \in Entry
      BY DEF TypeOK
    <3>2. ring' = [ring EXCEPT ![call[t].slot][RecordIndex(call[t].slot)].path = Torn]
      BY <1>6 DEF FaultInCopy
    <3>3. QED
      BY <2>1, <2>2, <3>1, <3>2 DEF TypeOK, Entry
  <2>4. QED
    BY <2>1, <2>3, SameMarkers
<1>7. ASSUME NEW t \in Threads,
             (\E path \in Paths : Demand(t, path)) \/ FindSlot(t) \/ SkipSlot(t) \/ Throw(t) \/ Crash(t)
      PROVE  NoFalseInFlight'
  <2>1. UNCHANGED <<owner, ring, stack>>
    BY <1>7 DEF Demand, FindSlot, SkipSlot, Throw, Crash, slotVars
  <2>2. QED
    BY <2>1, SameMarkers
<1>8. CASE Tick \/ UNCHANGED vars
  <2>1. UNCHANGED <<owner, ring, stack>>
    BY <1>8 DEF Tick, vars, slotVars
  <2>2. QED
    BY <2>1, SameMarkers
<1>9. QED
  BY <1>1, <1>2, <1>3, <1>4, <1>5, <1>6, <1>7, <1>8 DEF Next

\* No crash report ever shows as in progress a request that its thread has
\* left, by a return or by an exception someone handled: for any capacity of
\* the ring, any nesting, and any number of laps.
THEOREM NoFalseMarker == Spec => []NoFalseInFlight
BY InitTypeOK, StepTypeOK, InitSlotInv, StepSlotInv, InitMarkers, StepMarkers, PTL DEF Spec

\* The slots are right for any number of threads that race for any number of
\* them.
THEOREM SlotsAreRight == Spec => []SlotsRight
<1>1. OneSlotPerThread /\ WritesOwnSlotOnly /\ DropOnlyWhenFull => SlotsRight
  BY DEF SlotsRight
<1>2. QED
  BY <1>1, AtMostOneSlot, OnlyOwnSlotWritten, DroppedOnlyWhenPoolExhausted, PTL

-----------------------------------------------------------------------------
(* The ring                                                                 *)

\* What the thread whose slot it is finds i places back in its ring.
EntryAt(s, i) == ring[s][IndexOf(recorded[s] - i)]
Remembers(s) == 1 .. MinOf(recorded[s], Capacity)

\* head counts what was recorded, and a slot is filled by its owner only.
HeadsRight ==
  \A s \in Slots :
    /\ head[s] = recorded[s] % HeadMod
    /\ owner[s] = NoThread => recorded[s] = 0

\* The index a guard keeps is that of its request's place in the order.
FramesRight ==
  \A t \in Threads : \A k \in DOMAIN stack[t] :
    LET f == stack[t][k] IN
    /\ f.slot = 0 => f.seq = 0
    /\ f.slot # 0 => f.seq \in 1 .. recorded[f.slot] /\ f.index = IndexOf(f.seq - 1)

FramesOrdered ==
  \A t \in Threads : \A j, k \in Tracked(t) : j < k => stack[t][j].seq < stack[t][k].seq

\* A marked entry belongs to a call, and no later request has taken its index.
ActiveIsNewest ==
  \A s \in Slots, i \in Indices :
    ring[s][i].active =>
      \E t \in Threads : \E k \in Tracked(t) :
        LET f == stack[t][k] IN
        f.slot = s /\ f.index = i /\ recorded[s] - f.seq < Capacity

TimesRight ==
  \A s \in Slots : \A i \in Remembers(s) :
    /\ EntryAt(s, i).ticks <= now
    /\ \A j \in Remembers(s) : i < j => EntryAt(s, j).ticks <= EntryAt(s, i).ticks

RingInv ==
  HeadsRight /\ FramesRight /\ FramesOrdered /\ ActiveIsNewest /\ RecentInFlightKept /\ TimesRight

\* The places of a ring have an index each.
LEMMA PlaceFacts ==
  ASSUME TypeOK, NEW s \in Slots, NEW i \in Remembers(s)
  PROVE  /\ recorded[s] \in Nat
         /\ i \in Nat \ {0} /\ i <= recorded[s] /\ i <= Capacity
         /\ recorded[s] - i \in Nat
         /\ IndexOf(recorded[s] - i) \in Indices
         /\ EntryAt(s, i) \in Entry
<1>1. recorded[s] \in Nat
  BY DEF TypeOK
<1>2. i \in Nat \ {0} /\ i <= recorded[s] /\ i <= Capacity
  BY <1>1, TrackerAssumption DEF Remembers, MinOf
<1>3. recorded[s] - i \in Nat
  BY <1>1, <1>2
<1>4. IndexOf(recorded[s] - i) \in Indices
  BY <1>3, IndexFacts
<1>5. QED
  BY <1>1, <1>2, <1>3, <1>4 DEF EntryAt, TypeOK

LEMMA InitRingInv == Init => RingInv
<1> SUFFICES ASSUME Init PROVE RingInv
  OBVIOUS
<1> USE TrackerAssumption
<1>1. \A t \in Threads : DOMAIN stack[t] = {}
  <2>1. <<>> \in Seq(Frame) /\ Len(<<>>) = 0
    BY EmptySeq
  <2>2. DOMAIN <<>> = 1 .. 0
    BY <2>1, LenProperties
  <2>3. 1 .. 0 = {}
    OBVIOUS
  <2>4. QED
    BY <2>2, <2>3 DEF Init
<1>2. \A t \in Threads : Tracked(t) = {}
  BY <1>1 DEF Tracked
<1>3. HeadsRight
  <2>1. 0 % HeadMod = 0
    OBVIOUS
  <2>2. QED
    BY <2>1 DEF Init, HeadsRight
<1>4. \A s \in Slots : Remembers(s) = {}
  BY DEF Init, Remembers, MinOf
<1>5. QED
  BY <1>1, <1>2, <1>3, <1>4
  DEF RingInv, FramesRight, FramesOrdered, ActiveIsNewest, RecentInFlightKept, TimesRight, Init

\* A step that records nothing, turns no marker on or off and enters or leaves
\* no tracked call keeps the rings right.
LEMMA SameRing ==
  ASSUME TypeOK, RingInv, UNCHANGED <<head, recorded>>, now' \in Nat, now <= now',
         \A s \in Slots : owner'[s] = NoThread => owner[s] = NoThread,
         \A s \in Slots, i \in Indices :
           /\ ring'[s][i].active = ring[s][i].active
           /\ ring'[s][i].ticks = ring[s][i].ticks
           /\ ring'[s][i].path \in {ring[s][i].path, Torn},
         \A t \in Threads : \A k \in DOMAIN stack[t] :
           k \in DOMAIN stack'[t] /\ stack'[t][k] = stack[t][k],
         \A t \in Threads : \A k \in DOMAIN stack'[t] :
           \/ k \in DOMAIN stack[t] /\ stack'[t][k] = stack[t][k]
           \/ stack'[t][k].slot = 0 /\ stack'[t][k].seq = 0
  PROVE  RingInv'
<1>1. \A t \in Threads : \A k \in Tracked(t)' : k \in Tracked(t) /\ stack'[t][k] = stack[t][k]
  BY DEF Tracked
<1>2. \A t \in Threads : \A k \in Tracked(t) : k \in Tracked(t)' /\ stack'[t][k] = stack[t][k]
  BY DEF Tracked
<1>3. HeadsRight'
  BY DEF RingInv, HeadsRight
<1>4. FramesRight'
  BY DEF RingInv, FramesRight
<1>5. FramesOrdered'
  BY <1>1 DEF RingInv, FramesOrdered
<1>6. ActiveIsNewest'
  BY <1>2 DEF RingInv, ActiveIsNewest
<1>7. RecentInFlightKept'
  <2> SUFFICES ASSUME NEW t \in Threads, NEW k \in Tracked(t)',
                      recorded'[stack'[t][k].slot] - stack'[t][k].seq < Capacity
               PROVE  LET f == stack'[t][k] IN
                      ring'[f.slot][f.index].active /\ ring'[f.slot][f.index].path \in {f.path, Torn}
    BY DEF RecentInFlightKept
  <2> DEFINE f == stack[t][k]
  <2>1. k \in Tracked(t) /\ stack'[t][k] = f
    BY <1>1
  <2>2. f \in Frame /\ f.slot # 0
    <3>1. stack[t] \in Seq(Frame) /\ k \in DOMAIN stack[t]
      BY <2>1 DEF TypeOK, Tracked
    <3>2. QED
      BY <3>1, <2>1, ElementOfSeq, LenProperties DEF Tracked
  <2>3. f.slot \in Slots /\ f.index \in Indices
    BY <2>2, TrackerAssumption DEF Frame, Slots
  <2>4. ring[f.slot][f.index].active /\ ring[f.slot][f.index].path \in {f.path, Torn}
    BY <2>1 DEF RingInv, RecentInFlightKept
  <2>5. QED
    BY <2>1, <2>3, <2>4
<1>8. TimesRight'
  <2>1. \A s \in Slots : Remembers(s)' = Remembers(s)
    BY DEF Remembers
  <2>2. ASSUME NEW s \in Slots, NEW i \in Remembers(s)
        PROVE  EntryAt(s, i)'.ticks = EntryAt(s, i).ticks /\ EntryAt(s, i).ticks \in Nat
    BY <2>2, PlaceFacts DEF EntryAt, Entry
  <2>3. ASSUME NEW s \in Slots, NEW i \in Remembers(s)
        PROVE  EntryAt(s, i).ticks <= now'
    BY <2>2, <2>3 DEF RingInv, TimesRight, TypeOK
  <2>4. QED
    BY <2>1, <2>2, <2>3 DEF RingInv, TimesRight
<1>9. QED
  BY <1>3, <1>4, <1>5, <1>6, <1>7, <1>8 DEF RingInv

\* Where the frames of a call are in the stack.
LEMMA PushPlaces ==
  ASSUME NEW q \in Seq(Frame), NEW f
  PROVE  LET p == Append(q, f) IN
         /\ Len(q) \in Nat
         /\ DOMAIN p = 1 .. Len(q) + 1 /\ DOMAIN q = 1 .. Len(q)
         /\ \A k \in DOMAIN q : k \in DOMAIN p /\ p[k] = q[k] /\ k <= Len(q)
         /\ p[Len(q) + 1] = f
         /\ \A k \in DOMAIN p : k \in DOMAIN q \/ k = Len(q) + 1
BY LenProperties, AppendProperties

\* The entry and the frame of the request a thread is about to record.
NewEntry(t) == [path |-> call[t].path, ticks |-> now, active |-> TRUE]
NewFrame(t) ==
  LET s == call[t].slot IN
  [path |-> call[t].path, slot |-> s, index |-> IndexOf(recorded[s]), seq |-> recorded[s] + 1]

\* What a request that is recorded changes.
LEMMA RecordFacts ==
  ASSUME TypeOK, SlotInv, RingInv, NEW t \in Threads, Record(t),
         NEW s \in Slots, s = call[t].slot
  PROVE  LET n == recorded[s]
             e == NewEntry(t)
             f == NewFrame(t)
         IN
         /\ s # 0 /\ owner[s] = t
         /\ n \in Nat /\ IndexOf(n) \in Indices
         /\ call[t].path \in Paths \cup {NoPath}
         /\ e \in Entry /\ f \in Frame
         /\ head' = [head EXCEPT ![s] = (n + 1) % HeadMod]
         /\ recorded' = [recorded EXCEPT ![s] = n + 1]
         /\ ring'[s][IndexOf(n)] = e
         /\ \A r \in Slots, j \in Indices : ~(r = s /\ j = IndexOf(n)) => ring'[r][j] = ring[r][j]
         /\ stack' = [stack EXCEPT ![t] = Append(stack[t], f)]
         /\ UNCHANGED <<owner, now, report, call>>
<1> DEFINE n == recorded[s]
           e == NewEntry(t)
           f == NewFrame(t)
<1>1. s # 0 /\ s \in 0 .. NumSlots /\ owner[s] = t
  <2>1. owner[s] = t
    BY DEF Record, TypeOK, SlotInv, WritesOwnSlotOnly
  <2>2. QED
    BY <2>1, TrackerAssumption DEF Slots
<1>2. n \in Nat /\ IndexOf(n) \in Indices
  BY IndexFacts DEF TypeOK
<1>3. call[t].path \in Paths \cup {NoPath} /\ now \in Nat
  BY DEF TypeOK, Call
<1>4. e \in Entry /\ f \in Frame
  BY <1>1, <1>2, <1>3 DEF Entry, Frame, NewEntry, NewFrame
<1>5. head[s] = n % HeadMod
  BY DEF RingInv, HeadsRight
<1>6. RecordIndex(s) = IndexOf(n)
  <2> DEFINE m == head[s]
  <2>1. n \in Nat /\ m = n % HeadMod /\ m \in Nat /\ 0 \in Nat /\ 0 <= m
    BY <1>2, <1>5 DEF TypeOK
  <2> HIDE DEF n, m
  <2>2. (m - 0) % Capacity = IndexOf(n - 0)
    BY <2>1, IndexFacts
  <2>3. m - 0 = m /\ n - 0 = n
    BY <2>1
  <2>4. QED
    BY <2>2, <2>3 DEF RecordIndex, m
<1>7. head' = [head EXCEPT ![s] = (n + 1) % HeadMod]
  <2>1. (head[s] + 1) % HeadMod = (n + 1) % HeadMod
    BY <1>2, <1>5, WrappedSuccessor, TrackerAssumption
  <2>2. head' = [head EXCEPT ![s] = (head[s] + 1) % HeadMod]
    BY DEF Record
  <2>3. QED
    BY <2>1, <2>2
<1>8. recorded' = [recorded EXCEPT ![s] = n + 1] /\ UNCHANGED <<owner, now, report, call>>
  BY DEF Record
<1>9. ring' = [ring EXCEPT ![s] = [ring[s] EXCEPT ![IndexOf(n)] = e]]
  BY <1>6 DEF Record, NewEntry, NewFrame
<1>10. stack' = [stack EXCEPT ![t] = Append(stack[t], f)]
  BY <1>6 DEF Record, NewEntry, NewFrame
<1> HIDE DEF e, f, n
<1>11. /\ ring'[s][IndexOf(n)] = e
       /\ \A r \in Slots, j \in Indices : ~(r = s /\ j = IndexOf(n)) => ring'[r][j] = ring[r][j]
  BY <1>2, <1>9 DEF TypeOK
<1>12. QED
  BY <1>1, <1>2, <1>3, <1>4, <1>7, <1>8, <1>10, <1>11 DEF e, f, n

\* A request that is recorded moves the ones its ring remembers one place back.
LEMMA RecordMoves ==
  ASSUME TypeOK, SlotInv, RingInv, NEW t \in Threads, Record(t),
         NEW s \in Slots, s = call[t].slot
  PROVE  /\ \A r \in Slots : r # s => Remembers(r)' = Remembers(r)
                               /\ \A i \in Remembers(r) : EntryAt(r, i)' = EntryAt(r, i)
         /\ Remembers(s)' = 1 .. MinOf(recorded[s] + 1, Capacity)
         /\ 1 \in Remembers(s)'
         /\ EntryAt(s, 1)' = NewEntry(t)
         /\ \A i \in Remembers(s)' : i # 1 =>
              i - 1 \in Remembers(s) /\ EntryAt(s, i)' = EntryAt(s, i - 1)
<1> DEFINE n == recorded[s]
           e == NewEntry(t)
<1>1. /\ n \in Nat /\ IndexOf(n) \in Indices
      /\ recorded' = [recorded EXCEPT ![s] = n + 1]
      /\ ring'[s][IndexOf(n)] = e
      /\ \A r \in Slots, j \in Indices : ~(r = s /\ j = IndexOf(n)) => ring'[r][j] = ring[r][j]
  BY RecordFacts
<1> HIDE DEF e, n
<1>2. recorded'[s] = n + 1 /\ \A r \in Slots : r # s => recorded'[r] = recorded[r]
  BY <1>1 DEF TypeOK
<1>3. ASSUME NEW r \in Slots, r # s
      PROVE  Remembers(r)' = Remembers(r) /\ \A i \in Remembers(r) : EntryAt(r, i)' = EntryAt(r, i)
  <2>1. Remembers(r)' = Remembers(r)
    BY <1>2, <1>3 DEF Remembers
  <2>2. ASSUME NEW i \in Remembers(r) PROVE EntryAt(r, i)' = EntryAt(r, i)
    BY <1>1, <1>2, <1>3, <2>2, PlaceFacts DEF EntryAt
  <2>3. QED
    BY <2>1, <2>2
<1>4. Remembers(s)' = 1 .. MinOf(n + 1, Capacity)
  BY <1>2 DEF Remembers
<1>5. 1 \in Remembers(s)' /\ EntryAt(s, 1)' = e
  <2>1. n + 1 - 1 = n /\ Capacity \in Nat \ {0}
    BY <1>1, TrackerAssumption
  <2>2. QED
    BY <1>1, <1>2, <1>4, <2>1 DEF EntryAt, MinOf
<1>6. ASSUME NEW i \in Remembers(s)', i # 1
      PROVE  i - 1 \in Remembers(s) /\ EntryAt(s, i)' = EntryAt(s, i - 1)
  <2>1. i \in Nat /\ i > 1 /\ i <= n + 1 /\ i <= Capacity
    BY <1>1, <1>4, <1>6, TrackerAssumption DEF MinOf
  <2>2. i - 1 \in Remembers(s)
    BY <1>1, <2>1, TrackerAssumption DEF Remembers, MinOf, n
  <2>3. n + 1 - i = n - (i - 1) /\ n - (i - 1) \in Nat /\ n - (i - 1) < n
    BY <1>1, <2>1
  <2>4. IndexOf(n - (i - 1)) # IndexOf(n)
    <3>1. ASSUME IndexOf(n - (i - 1)) = IndexOf(n) PROVE FALSE
      <4>1. n - (n - (i - 1)) >= Capacity
        BY <1>1, <2>3, <3>1, IndexFacts
      <4>2. Capacity \in Nat
        BY TrackerAssumption
      <4>3. QED
        BY <1>1, <2>1, <4>1, <4>2
    <3>2. QED
      BY <3>1
  <2>5. IndexOf(n - (i - 1)) \in Indices
    BY <2>2, PlaceFacts, <1>1 DEF n
  <2>6. EntryAt(s, i)' = ring'[s][IndexOf(n - (i - 1))]
    BY <1>1, <1>2, <2>1, <2>3 DEF EntryAt
  <2>7. EntryAt(s, i - 1) = ring[s][IndexOf(n - (i - 1))]
    BY DEF EntryAt, n
  <2>8. QED
    BY <1>1, <2>2, <2>4, <2>5, <2>6, <2>7
<1>7. QED
  BY <1>3, <1>4, <1>5, <1>6 DEF n, e

\* A frame of a call that is tracked names a slot of the pool.
LEMMA FrameFacts ==
  ASSUME TypeOK, SlotInv, RingInv, NEW t \in Threads, NEW k \in Tracked(t)
  PROVE  /\ k \in DOMAIN stack[t] /\ k \in Nat
         /\ stack[t][k] \in Frame
         /\ stack[t][k].slot \in Slots /\ stack[t][k].index \in Indices
         /\ owner[stack[t][k].slot] = t
         /\ recorded[stack[t][k].slot] \in Nat
         /\ stack[t][k].seq \in Nat \ {0} /\ stack[t][k].seq <= recorded[stack[t][k].slot]
         /\ stack[t][k].index = IndexOf(stack[t][k].seq - 1)
<1> DEFINE f == stack[t][k]
<1>1. stack[t] \in Seq(Frame) /\ k \in DOMAIN stack[t] /\ f.slot # 0
  BY DEF TypeOK, Tracked
<1>2. k \in Nat /\ f \in Frame
  BY <1>1, ElementOfSeq, LenProperties
<1>3. f.slot \in Slots /\ f.index \in Indices
  BY <1>1, <1>2, TrackerAssumption DEF Frame, Slots
<1>4. recorded[f.slot] \in Nat
  BY <1>3 DEF TypeOK
<1>5. f.seq \in 1 .. recorded[f.slot] /\ f.index = IndexOf(f.seq - 1)
  BY <1>1 DEF RingInv, FramesRight
<1>6. owner[f.slot] = t
  BY DEF SlotInv, WritesOwnSlotOnly
<1>7. QED
  BY <1>1, <1>2, <1>3, <1>4, <1>5, <1>6

\* All tracked calls of a thread have their entries in its one slot.
LEMMA OneSlotFrames ==
  ASSUME TypeOK, SlotInv, RingInv, NEW t \in Threads, NEW s \in Slots, owner[s] = t,
         NEW k \in Tracked(t)
  PROVE  stack[t][k].slot = s
<1>1. stack[t][k].slot \in Slots /\ owner[stack[t][k].slot] = t
  BY FrameFacts
<1>2. t # NoThread
  BY TrackerAssumption
<1>3. QED
  BY <1>1, <1>2 DEF SlotInv, OneSlotPerThread

LEMMA RecordKeepsRing ==
  ASSUME TypeOK, SlotInv, RingInv, NEW t \in Threads, Record(t)
  PROVE  RingInv'
<1>1. PICK s \in Slots : s = call[t].slot
  BY DEF Record, TypeOK
<1> DEFINE n == recorded[s]
           e == NewEntry(t)
           f == NewFrame(t)
           q == stack[t]
<1>2. /\ s # 0 /\ owner[s] = t
      /\ n \in Nat /\ IndexOf(n) \in Indices
      /\ e \in Entry /\ f \in Frame
      /\ head' = [head EXCEPT ![s] = (n + 1) % HeadMod]
      /\ recorded' = [recorded EXCEPT ![s] = n + 1]
      /\ ring'[s][IndexOf(n)] = e
      /\ \A r \in Slots, j \in Indices : ~(r = s /\ j = IndexOf(n)) => ring'[r][j] = ring[r][j]
      /\ stack' = [stack EXCEPT ![t] = Append(q, f)]
      /\ UNCHANGED <<owner, now, report, call>>
  BY <1>1, RecordFacts
<1>3. /\ f.slot = s /\ f.seq = n + 1 /\ f.index = IndexOf(n) /\ f.path = call[t].path
      /\ e.path = call[t].path /\ e.active /\ e.ticks = now
  BY <1>1 DEF NewFrame, NewEntry
<1>4. now \in Nat /\ q \in Seq(Frame) /\ Capacity \in Nat \ {0}
  BY TrackerAssumption DEF TypeOK
<1>5. \A k \in Tracked(t) : /\ stack[t][k].slot = s
                            /\ stack[t][k].seq \in Nat \ {0} /\ stack[t][k].seq <= n
                            /\ stack[t][k].index = IndexOf(stack[t][k].seq - 1)
  BY <1>2, OneSlotFrames, FrameFacts
<1>6. \A u \in Threads : u # t => stack'[u] = stack[u] /\ Tracked(u)' = Tracked(u)
  BY <1>2 DEF TypeOK, Tracked
<1>7. stack'[t] = Append(q, f)
  BY <1>2 DEF TypeOK
<1>8. \A u \in Threads : u # t => \A k \in Tracked(u) : stack[u][k].slot # s
  BY <1>2, FrameFacts
<1>9. recorded'[s] = n + 1 /\ \A r \in Slots : r # s => recorded'[r] = recorded[r]
  BY <1>2 DEF TypeOK
<1> HIDE DEF e, f, n
<1>10. /\ \A k \in DOMAIN q : k \in DOMAIN stack'[t] /\ stack'[t][k] = q[k] /\ k <= Len(q)
       /\ \A k \in DOMAIN stack'[t] : k \in DOMAIN q \/ k = Len(q) + 1
       /\ Len(q) + 1 \in DOMAIN stack'[t] /\ stack'[t][Len(q) + 1] = f
       /\ Len(q) \in Nat
  BY <1>4, <1>7, PushPlaces
<1>11. /\ \A k \in Tracked(t)' : k \in Tracked(t) \/ k = Len(q) + 1
       /\ \A k \in Tracked(t) : k \in Tracked(t)' /\ stack'[t][k] = stack[t][k] /\ k <= Len(q) /\ k \in Nat
       /\ Len(q) + 1 \in Tracked(t)'
  <2>1. \A k \in Tracked(t) : k \in Nat
    BY FrameFacts
  <2>2. QED
    BY <1>2, <1>3, <1>10, <2>1 DEF Tracked
\* An index that a remembered request holds is not the one that is filled.
<1>12. ASSUME NEW m \in Nat, m < n, n - m < Capacity PROVE IndexOf(m) # IndexOf(n)
  BY <1>2, <1>4, <1>12, IndexFacts
<1>13. HeadsRight'
  <2>1. ASSUME NEW r \in Slots PROVE head'[r] = recorded'[r] % HeadMod
    BY <1>2, <1>9, <2>1 DEF RingInv, HeadsRight, TypeOK, n
  <2>2. ASSUME NEW r \in Slots, owner'[r] = NoThread PROVE recorded'[r] = 0
    <3>1. r # s /\ owner[r] = NoThread
      BY <1>2, <2>2, TrackerAssumption
    <3>2. QED
      BY <1>9, <3>1 DEF RingInv, HeadsRight
  <2>3. QED
    BY <2>1, <2>2 DEF HeadsRight
<1>14. FramesRight'
  <2>1. ASSUME NEW u \in Threads, NEW k \in DOMAIN stack'[u]
        PROVE  LET g == stack'[u][k] IN
               /\ g.slot = 0 => g.seq = 0
               /\ g.slot # 0 => g.seq \in 1 .. recorded'[g.slot] /\ g.index = IndexOf(g.seq - 1)
    <3>1. CASE u = t /\ k = Len(q) + 1
      <4>1. n + 1 - 1 = n /\ n + 1 \in 1 .. n + 1
        BY <1>2
      <4>2. QED
        BY <1>2, <1>3, <1>9, <1>10, <3>1, <4>1
    <3>2. CASE ~(u = t /\ k = Len(q) + 1)
      <4>1. k \in DOMAIN stack[u] /\ stack'[u][k] = stack[u][k]
        BY <1>6, <1>10, <2>1, <3>2
      <4>2. CASE stack[u][k].slot = 0
        BY <4>1, <4>2 DEF RingInv, FramesRight
      <4>3. CASE stack[u][k].slot # 0
        <5>1. k \in Tracked(u)
          BY <4>1, <4>3 DEF Tracked
        <5> DEFINE g == stack[u][k]
        <5>2. /\ g.slot \in Slots /\ recorded[g.slot] \in Nat
              /\ g.seq \in Nat \ {0} /\ g.seq <= recorded[g.slot] /\ g.index = IndexOf(g.seq - 1)
          BY <5>1, FrameFacts
        <5> HIDE DEF g
        <5>3. recorded'[g.slot] \in Nat /\ g.seq <= recorded'[g.slot]
          BY <1>2, <1>9, <5>2 DEF n
        <5>4. g.seq \in 1 .. recorded'[g.slot]
          BY <5>2, <5>3
        <5>5. QED
          BY <4>1, <4>3, <5>2, <5>4 DEF g
      <4>4. QED
        BY <4>2, <4>3
    <3>3. QED
      BY <3>1, <3>2
  <2>2. QED
    BY <2>1 DEF FramesRight
<1>15. FramesOrdered'
  <2>1. ASSUME NEW j \in Tracked(t)', NEW k \in Tracked(t)', j < k
        PROVE  stack'[t][j].seq < stack'[t][k].seq
    <3>1. j \in Tracked(t)
      BY <1>10, <1>11, <2>1
    <3>2. CASE k \in Tracked(t)
      BY <1>11, <2>1, <3>1, <3>2 DEF RingInv, FramesOrdered
    <3>3. CASE k = Len(q) + 1
      <4>1. stack'[t][k].seq = n + 1
        BY <1>3, <1>10, <3>3
      <4>2. stack'[t][j] = stack[t][j]
        BY <1>11, <3>1
      <4>3. stack[t][j].seq \in Nat /\ stack[t][j].seq <= n
        BY <1>5, <3>1
      <4>4. stack'[t][j].seq \in Nat /\ stack'[t][j].seq <= n
        BY <4>2, <4>3
      <4>5. n \in Nat
        BY <1>2
      <4>6. QED
        BY <4>1, <4>4, <4>5
    <3>4. QED
      BY <1>11, <3>2, <3>3
  <2>2. ASSUME NEW u \in Threads, u # t, NEW j \in Tracked(u)', NEW k \in Tracked(u)', j < k
        PROVE  stack'[u][j].seq < stack'[u][k].seq
    BY <1>6, <2>2 DEF RingInv, FramesOrdered
  <2>3. QED
    BY <2>1, <2>2 DEF FramesOrdered
<1>16. ActiveIsNewest'
  <2>1. ASSUME NEW r \in Slots, NEW i \in Indices, ring'[r][i].active
        PROVE  \E u \in Threads : \E k \in Tracked(u)' :
                 LET g == stack'[u][k] IN
                 g.slot = r /\ g.index = i /\ recorded'[r] - g.seq < Capacity
    <3>1. CASE r = s /\ i = IndexOf(n)
      <4>1. n + 1 - (n + 1) < Capacity
        BY <1>2, <1>4
      <4>5. stack'[t][Len(q) + 1] = f /\ recorded'[r] = n + 1
        BY <1>9, <1>10, <3>1
      <4>2. /\ stack'[t][Len(q) + 1].slot = r /\ stack'[t][Len(q) + 1].index = i
            /\ recorded'[r] - stack'[t][Len(q) + 1].seq < Capacity
        BY <1>2, <1>3, <1>4, <3>1, <4>1, <4>5
      <4>3. Len(q) + 1 \in Tracked(t)'
        BY <1>11
      <4> HIDE DEF q
      <4>4. QED
        BY <4>2, <4>3
    <3>2. CASE ~(r = s /\ i = IndexOf(n))
      <4>1. ring[r][i].active
        BY <1>2, <2>1, <3>2
      <4>10. PICK u \in Threads :
               \E k \in Tracked(u) : /\ stack[u][k].slot = r /\ stack[u][k].index = i
                                     /\ recorded[r] - stack[u][k].seq < Capacity
        BY <4>1 DEF RingInv, ActiveIsNewest
      <4>2. PICK k \in Tracked(u) : /\ stack[u][k].slot = r /\ stack[u][k].index = i
                                    /\ recorded[r] - stack[u][k].seq < Capacity
        BY <4>10
      <4>3. k \in Tracked(u)' /\ stack'[u][k] = stack[u][k]
        BY <1>6, <1>11
      <4>4. CASE r # s
        BY <1>9, <4>2, <4>3, <4>4
      <4>5. CASE r = s
        <5> DEFINE m == stack[u][k].seq
        <5>1. u = t
          BY <1>8, <4>2, <4>5
        <5>2. m \in Nat \ {0} /\ m <= n /\ i = IndexOf(m - 1)
          BY <1>5, <4>2, <5>1
        <5> HIDE DEF m
        <5>3. n + 1 - m # Capacity
          <6>1. ASSUME n + 1 - m = Capacity PROVE FALSE
            <7>1. m - 1 \in Nat /\ n = m - 1 + Capacity
              BY <1>2, <1>4, <5>2, <6>1
            <7>2. IndexOf(n) = IndexOf(m - 1)
              BY <7>1, IndexFacts
            <7>3. QED
              BY <3>2, <4>5, <5>2, <7>2
          <6>2. QED
            BY <6>1
        <5>4. n + 1 - m < Capacity
          <6>1. n - m < Capacity
            BY <4>2, <4>5 DEF m, n
          <6>2. QED
            BY <1>2, <1>4, <5>2, <5>3, <6>1
        <5>5. recorded'[r] - stack'[u][k].seq < Capacity
          <6>1. recorded'[r] = n + 1 /\ stack'[u][k].seq = m
            BY <1>9, <4>3, <4>5 DEF m
          <6>2. n \in Nat /\ m \in Nat /\ Capacity \in Nat
            BY <1>2, <1>4, <5>2
          <6>3. \A x, y : x = n + 1 /\ y = m => x - y < Capacity
            BY <5>4, <6>2
          <6>4. QED
            BY <6>1, <6>3
        <5>6. stack'[u][k].slot = r /\ stack'[u][k].index = i
          BY <4>2, <4>3
        <5>7. QED
          BY <4>3, <5>5, <5>6
      <4>6. QED
        BY <4>4, <4>5
    <3>3. QED
      BY <3>1, <3>2
  <2>2. QED
    BY <2>1 DEF ActiveIsNewest
<1>17. RecentInFlightKept'
  <2>1. ASSUME NEW u \in Threads, NEW k \in Tracked(u)',
               recorded'[stack'[u][k].slot] - stack'[u][k].seq < Capacity
        PROVE  LET g == stack'[u][k] IN
               ring'[g.slot][g.index].active /\ ring'[g.slot][g.index].path \in {g.path, Torn}
    <3>1. CASE u = t /\ k = Len(q) + 1
      <4>1. stack'[u][k] = f /\ ring'[f.slot][f.index] = e
        BY <1>2, <1>3, <1>10, <3>1
      <4>2. QED
        BY <1>3, <4>1
    <3>2. CASE ~(u = t /\ k = Len(q) + 1)
      <4> DEFINE g == stack[u][k]
      <4>1. k \in Tracked(u) /\ stack'[u][k] = g
        BY <1>6, <1>11, <2>1, <3>2
      <4>2. /\ g.slot \in Slots /\ g.index \in Indices /\ recorded[g.slot] \in Nat
            /\ g.seq \in Nat \ {0} /\ g.seq <= recorded[g.slot] /\ g.index = IndexOf(g.seq - 1)
        BY <4>1, FrameFacts
      <4>3. ~(g.slot = s /\ g.index = IndexOf(n))
        <5>1. ASSUME g.slot = s PROVE g.index # IndexOf(n)
          <6>1. n + 1 - g.seq < Capacity /\ g.seq <= n
            BY <1>9, <2>1, <4>1, <4>2, <5>1 DEF n
          <6> HIDE DEF g
          <6>2. g.seq - 1 \in Nat /\ g.seq - 1 < n /\ n - (g.seq - 1) < Capacity
            BY <1>2, <4>2, <6>1, <1>4
          <6>3. QED
            BY <1>12, <4>2, <6>2
        <5>2. QED
          BY <5>1
      <4>4. recorded[g.slot] - g.seq < Capacity
        <5>1. recorded'[g.slot] - g.seq < Capacity
          BY <2>1, <4>1
        <5>2. recorded'[g.slot] \in {recorded[g.slot], recorded[g.slot] + 1}
          BY <1>9, <4>2 DEF n
        <5> HIDE DEF g
        <5>3. QED
          BY <1>4, <4>2, <5>1, <5>2
      <4>5. ring[g.slot][g.index].active /\ ring[g.slot][g.index].path \in {g.path, Torn}
        BY <4>1, <4>4 DEF RingInv, RecentInFlightKept
      <4> HIDE DEF g
      <4>6. ring'[g.slot][g.index] = ring[g.slot][g.index]
        BY <1>2, <4>2, <4>3
      <4>7. QED
        BY <4>1, <4>5, <4>6
    <3>3. QED
      BY <3>1, <3>2
  <2>2. QED
    BY <2>1 DEF RecentInFlightKept
<1>18. TimesRight'
  <2>1. /\ \A r \in Slots : r # s => Remembers(r)' = Remembers(r)
                               /\ \A i \in Remembers(r) : EntryAt(r, i)' = EntryAt(r, i)
        /\ EntryAt(s, 1)' = e
        /\ \A i \in Remembers(s)' : i # 1 =>
             i - 1 \in Remembers(s) /\ EntryAt(s, i)' = EntryAt(s, i - 1)
    BY <1>1, RecordMoves DEF e
  <2>2. Remembers(s)' \subseteq Nat \ {0}
    <3>1. Remembers(s)' = 1 .. MinOf(n + 1, Capacity)
      BY <1>1, RecordMoves DEF n
    <3>2. MinOf(n + 1, Capacity) \in Nat
      BY <1>2, <1>4 DEF MinOf
    <3>3. QED
      BY <3>1, <3>2
  <2>3. ASSUME NEW i \in Remembers(s)'
        PROVE  EntryAt(s, i)'.ticks <= now /\ EntryAt(s, i)'.ticks \in Nat
    <3>1. CASE i = 1
      BY <1>3, <1>4, <2>1, <3>1
    <3>2. CASE i # 1
      <4>1. i - 1 \in Remembers(s) /\ EntryAt(s, i)' = EntryAt(s, i - 1)
        BY <2>1, <2>3, <3>2
      <4>2. EntryAt(s, i - 1) \in Entry /\ EntryAt(s, i - 1).ticks <= now
        BY <4>1, PlaceFacts DEF RingInv, TimesRight
      <4>3. QED
        BY <4>1, <4>2 DEF Entry
    <3>3. QED
      BY <3>1, <3>2
  <2>4. ASSUME NEW i \in Remembers(s)', NEW j \in Remembers(s)', i < j
        PROVE  EntryAt(s, j)'.ticks <= EntryAt(s, i)'.ticks
    <3>1. j # 1
      BY <2>2, <2>4
    <3>2. CASE i = 1
      BY <1>3, <2>1, <2>3, <3>2
    <3>3. CASE i # 1
      <4>1. /\ i - 1 \in Remembers(s) /\ EntryAt(s, i)' = EntryAt(s, i - 1)
            /\ j - 1 \in Remembers(s) /\ EntryAt(s, j)' = EntryAt(s, j - 1)
        BY <2>1, <3>1, <3>3
      <4>2. i - 1 < j - 1
        BY <2>2, <2>4
      <4>3. QED
        BY <4>1, <4>2 DEF RingInv, TimesRight
    <3>4. QED
      BY <3>2, <3>3
  <2>5. QED
    BY <1>2, <2>1, <2>3, <2>4 DEF RingInv, TimesRight
<1>19. QED
  BY <1>13, <1>14, <1>15, <1>16, <1>17, <1>18 DEF RingInv

\* A guard clears one marker and touches nothing else.
LEMMA GuardEntry ==
  ASSUME NEW t \in Threads, TypeOK, stack[t] # <<>>
  PROVE  \A s \in Slots, i \in Indices :
           /\ GuardReleased(t)[s][i].path = ring[s][i].path
           /\ GuardReleased(t)[s][i].ticks = ring[s][i].ticks
           /\ GuardReleased(t)[s][i] \in Entry
           /\ ~(s = Top(t).slot /\ i = Top(t).index) => GuardReleased(t)[s][i] = ring[s][i]
           /\ s = Top(t).slot /\ i = Top(t).index => ~GuardReleased(t)[s][i].active
<1>1. Top(t) \in Frame /\ ring \in [Slots -> [Indices -> Entry]]
  BY TopFacts DEF TypeOK
<1>2. GuardReleased(t) \in [Slots -> [Indices -> Entry]]
  BY GuardFacts
<1>3. CASE Top(t).slot = 0
  <2>1. \A s \in Slots : s # 0
    BY DEF Slots
  <2>2. QED
    BY <1>1, <1>3, <2>1 DEF GuardReleased
<1>4. CASE Top(t).slot # 0
  <2> DEFINE a == Top(t).slot
             j == Top(t).index
             entry == [ring[a][j] EXCEPT !.active = FALSE]
             row == [ring[a] EXCEPT ![j] = entry]
  <2>1. a \in Slots /\ j \in Indices
    BY <1>1, <1>4, TrackerAssumption DEF Frame, Slots
  <2>2. ring[a] \in [Indices -> Entry] /\ ring[a][j] \in Entry
    BY <1>1, <2>1
  <2>3. entry \in Entry /\ entry.active = FALSE /\ entry.path = ring[a][j].path /\ entry.ticks = ring[a][j].ticks
    BY <2>2 DEF Entry
  <2>4. row \in [Indices -> Entry]
    BY <2>2, <2>3
  <2>5. GuardReleased(t) = [ring EXCEPT ![a] = row]
    BY <1>4 DEF GuardReleased
  <2> HIDE DEF row, entry, a, j
  <2>6. \A s \in Slots, i \in Indices :
          GuardReleased(t)[s][i] = IF s = a /\ i = j THEN entry ELSE ring[s][i]
    BY <1>1, <2>1, <2>2, <2>5 DEF row
  <2>7. QED
    BY <1>2, <2>3, <2>6 DEF a, j
<1>5. QED
  BY <1>3, <1>4

\* The innermost call made the latest of the requests its thread is inside.
LEMMA TopIsLatest ==
  ASSUME TypeOK, SlotInv, RingInv, NEW t \in Threads, stack[t] # <<>>, Top(t).slot # 0
  PROVE  /\ Len(stack[t]) \in Tracked(t) /\ stack[t][Len(stack[t])] = Top(t)
         /\ \A k \in Tracked(t) : k # Len(stack[t]) => stack[t][k].seq < Top(t).seq
<1>1. Len(stack[t]) \in DOMAIN stack[t] /\ stack[t][Len(stack[t])] = Top(t)
  BY TopFacts DEF Top
<1>2. Len(stack[t]) \in Tracked(t)
  BY <1>1 DEF Tracked
<1>3. ASSUME NEW k \in Tracked(t), k # Len(stack[t]) PROVE stack[t][k].seq < Top(t).seq
  <2>1. k < Len(stack[t])
    <3>1. stack[t] \in Seq(Frame) /\ k \in DOMAIN stack[t]
      BY DEF TypeOK, Tracked
    <3>2. Len(stack[t]) \in Nat /\ DOMAIN stack[t] = 1 .. Len(stack[t])
      BY <3>1, LenProperties
    <3>3. QED
      BY <1>3, <3>1, <3>2
  <2>2. QED
    BY <1>1, <1>2, <2>1 DEF RingInv, FramesOrdered
<1>4. QED
  BY <1>1, <1>2, <1>3

LEMMA LeaveKeepsRing ==
  ASSUME TypeOK, SlotInv, RingInv, NEW t \in Threads, Return(t) \/ Unwind(t)
  PROVE  RingInv'
<1>1. stack[t] # <<>>
  BY DEF Return, Unwind, TypeOK
<1>2. /\ stack' = [stack EXCEPT ![t] = Pop(t)]
      /\ ring' = GuardReleased(t)
      /\ UNCHANGED <<owner, head, recorded, now>>
  BY DEF Return, Unwind
<1>3. \A u \in Threads : \A k \in Tracked(u)' :
        k \in Tracked(u) /\ stack'[u][k] = stack[u][k] /\ (u = t => k # Len(stack[t]))
  <2>1. ASSUME NEW k \in Tracked(t)'
        PROVE  k \in Tracked(t) /\ stack'[t][k] = stack[t][k] /\ k # Len(stack[t])
    <3>1. stack'[t] = Pop(t) /\ k \in DOMAIN Pop(t)
      BY <1>2 DEF TypeOK, Tracked
    <3>2. k \in DOMAIN stack[t] /\ Pop(t)[k] = stack[t][k]
      BY <1>1, <3>1, TopFacts
    <3>3. Len(stack[t]) \in Nat /\ DOMAIN Pop(t) = 1 .. Len(stack[t]) - 1
      <4>1. Pop(t) \in Seq(Frame) /\ Len(Pop(t)) = Len(stack[t]) - 1 /\ stack[t] \in Seq(Frame)
        BY <1>1, TopFacts
      <4>2. QED
        BY <4>1, LenProperties
    <3>4. QED
      BY <2>1, <3>1, <3>2, <3>3 DEF Tracked
  <2>2. \A u \in Threads : u # t => stack'[u] = stack[u]
    BY <1>2 DEF TypeOK
  <2>3. QED
    BY <2>1, <2>2 DEF Tracked
<1>4. \A u \in Threads : \A k \in Tracked(u) : ~(u = t /\ k = Len(stack[t])) => k \in Tracked(u)' /\ stack'[u][k] = stack[u][k]
  <2>1. ASSUME NEW k \in Tracked(t), k # Len(stack[t])
        PROVE  k \in Tracked(t)' /\ stack'[t][k] = stack[t][k]
    <3>1. stack'[t] = Pop(t)
      BY <1>2 DEF TypeOK
    <3>2. k \in DOMAIN Pop(t)
      <4>1. Pop(t) \in Seq(Frame) /\ Len(Pop(t)) = Len(stack[t]) - 1 /\ stack[t] \in Seq(Frame)
        BY <1>1, TopFacts
      <4>2. Len(stack[t]) \in Nat /\ DOMAIN Pop(t) = 1 .. Len(stack[t]) - 1 /\ DOMAIN stack[t] = 1 .. Len(stack[t])
        BY <4>1, LenProperties
      <4>3. QED
        BY <2>1, <4>2 DEF Tracked
    <3>3. Pop(t)[k] = stack[t][k]
      BY <1>1, <3>2, TopFacts
    <3>4. QED
      BY <3>1, <3>2, <3>3 DEF Tracked
  <2>2. \A u \in Threads : u # t => stack'[u] = stack[u]
    BY <1>2 DEF TypeOK
  <2>3. QED
    BY <2>1, <2>2 DEF Tracked
<1>5. HeadsRight'
  BY <1>2 DEF RingInv, HeadsRight
<1>6. FramesRight'
  <2>1. \A u \in Threads : \A k \in DOMAIN stack'[u] : k \in DOMAIN stack[u] /\ stack'[u][k] = stack[u][k]
    BY <1>1, <1>2, TopFacts DEF TypeOK
  <2>2. QED
    BY <1>2, <2>1 DEF RingInv, FramesRight
<1>7. FramesOrdered'
  BY <1>3 DEF RingInv, FramesOrdered
<1>8. ActiveIsNewest'
  <2>1. ASSUME NEW s \in Slots, NEW i \in Indices, ring'[s][i].active
        PROVE  \E u \in Threads : \E k \in Tracked(u)' :
                 LET g == stack'[u][k] IN
                 g.slot = s /\ g.index = i /\ recorded'[s] - g.seq < Capacity
    <3>1. ring[s][i].active /\ ~(s = Top(t).slot /\ i = Top(t).index)
      BY <1>1, <1>2, <2>1, GuardFacts
    <3>2. PICK u \in Threads : \E k \in Tracked(u) :
            /\ stack[u][k].slot = s /\ stack[u][k].index = i
            /\ recorded[s] - stack[u][k].seq < Capacity
      BY <3>1 DEF RingInv, ActiveIsNewest
    <3>3. PICK k \in Tracked(u) : /\ stack[u][k].slot = s /\ stack[u][k].index = i
                                  /\ recorded[s] - stack[u][k].seq < Capacity
      BY <3>2
    <3>4. ~(u = t /\ k = Len(stack[t]))
      BY <3>1, <3>3 DEF Top
    <3>5. QED
      BY <1>2, <1>4, <3>3, <3>4
  <2>2. QED
    BY <2>1 DEF ActiveIsNewest
<1>9. RecentInFlightKept'
  <2>1. ASSUME NEW u \in Threads, NEW k \in Tracked(u)',
               recorded'[stack'[u][k].slot] - stack'[u][k].seq < Capacity
        PROVE  LET g == stack'[u][k] IN
               ring'[g.slot][g.index].active /\ ring'[g.slot][g.index].path \in {g.path, Torn}
    <3> DEFINE g == stack[u][k]
    <3>1. k \in Tracked(u) /\ stack'[u][k] = g /\ (u = t => k # Len(stack[t]))
      BY <1>3
    <3>2. /\ g.slot \in Slots /\ g.index \in Indices /\ recorded[g.slot] \in Nat
          /\ g.seq \in Nat \ {0} /\ g.seq <= recorded[g.slot] /\ g.index = IndexOf(g.seq - 1)
          /\ owner[g.slot] = u
      BY <3>1, FrameFacts
    <3>3. recorded[g.slot] - g.seq < Capacity
      BY <1>2, <2>1, <3>1
    <3>4. ring[g.slot][g.index].active /\ ring[g.slot][g.index].path \in {g.path, Torn}
      BY <3>1, <3>3 DEF RingInv, RecentInFlightKept
    <3>5. ~(g.slot = Top(t).slot /\ g.index = Top(t).index)
      <4>1. ASSUME g.slot = Top(t).slot, g.index = Top(t).index PROVE FALSE
        <5>1. Top(t).slot # 0
          BY <3>1, <4>1 DEF Tracked
        <5>2. Len(stack[t]) \in Tracked(t) /\ stack[t][Len(stack[t])] = Top(t)
          BY <1>1, <5>1, TopIsLatest
        <5> DEFINE m == Top(t).seq
        <5>3. /\ owner[g.slot] = t
              /\ m \in Nat \ {0} /\ m <= recorded[g.slot] /\ g.index = IndexOf(m - 1)
          BY <4>1, <5>2, FrameFacts
        <5>4. u = t
          BY <3>2, <5>3
        <5>5. g.seq < m
          BY <1>1, <3>1, <5>1, <5>4, TopIsLatest
        <5> HIDE DEF g, m
        <5>6. Capacity \in Nat
          BY TrackerAssumption
        <5>7. g.seq - 1 \in Nat /\ m - 1 \in Nat /\ g.seq - 1 < m - 1
          BY <3>2, <5>3, <5>5
        <5>8. (m - 1) - (g.seq - 1) >= Capacity
          BY <3>2, <5>3, <5>7, IndexFacts
        <5>9. QED
          BY <3>2, <3>3, <5>3, <5>5, <5>6, <5>8
      <4>2. QED
        BY <4>1
    <3>6. ring'[g.slot][g.index] = ring[g.slot][g.index]
      BY <1>1, <1>2, <3>2, <3>5, GuardEntry
    <3>7. QED
      BY <3>1, <3>4, <3>6
  <2>2. QED
    BY <2>1 DEF RecentInFlightKept
<1>10. TimesRight'
  <2>1. \A s \in Slots : Remembers(s)' = Remembers(s)
    BY <1>2 DEF Remembers
  <2>2. ASSUME NEW s \in Slots, NEW i \in Remembers(s)
        PROVE  EntryAt(s, i)'.ticks = EntryAt(s, i).ticks
    BY <1>1, <1>2, PlaceFacts, GuardEntry DEF EntryAt
  <2>3. QED
    BY <1>2, <2>1, <2>2 DEF RingInv, TimesRight
<1>11. QED
  BY <1>5, <1>6, <1>7, <1>8, <1>9, <1>10 DEF RingInv

\* A copy that faults leaves the path of one entry torn.
LEMMA FaultFacts ==
  ASSUME TypeOK, NEW t \in Threads, FaultInCopy(t)
  PROVE  LET s == call[t].slot IN
         /\ s \in Slots /\ RecordIndex(s) \in Indices
         /\ \A r \in Slots, i \in Indices :
              ring'[r][i] = IF r = s /\ i = RecordIndex(s)
                              THEN [ring[r][i] EXCEPT !.path = Torn] ELSE ring[r][i]
         /\ \A r \in Slots, i \in Indices :
              /\ ring'[r][i] \in Entry
              /\ ring'[r][i].active = ring[r][i].active
              /\ ring'[r][i].ticks = ring[r][i].ticks
              /\ ring'[r][i].path \in {ring[r][i].path, Torn}
<1> DEFINE s == call[t].slot
           j == RecordIndex(s)
<1>1. s \in Slots
  BY DEF FaultInCopy, TypeOK
<1>2. j \in Indices
  <2>1. head[s] \in Nat
    BY <1>1 DEF TypeOK
  <2>2. QED
    BY <2>1, TrackerAssumption DEF RecordIndex, Indices
<1>3. ring' = [ring EXCEPT ![s] = [ring[s] EXCEPT ![j] = [ring[s][j] EXCEPT !.path = Torn]]]
  BY DEF FaultInCopy
<1> HIDE DEF s, j
<1>4. \A r \in Slots, i \in Indices :
        ring'[r][i] = IF r = s /\ i = j THEN [ring[r][i] EXCEPT !.path = Torn] ELSE ring[r][i]
  BY <1>1, <1>2, <1>3 DEF TypeOK
<1>5. \A r \in Slots, i \in Indices : ring[r][i] \in Entry
  BY DEF TypeOK
<1>6. \A r \in Slots, i \in Indices :
        /\ ring'[r][i] \in Entry
        /\ ring'[r][i].active = ring[r][i].active
        /\ ring'[r][i].ticks = ring[r][i].ticks
        /\ ring'[r][i].path \in {ring[r][i].path, Torn}
  <2> SUFFICES ASSUME NEW r \in Slots, NEW i \in Indices
               PROVE  /\ ring'[r][i] \in Entry
                      /\ ring'[r][i].active = ring[r][i].active
                      /\ ring'[r][i].ticks = ring[r][i].ticks
                      /\ ring'[r][i].path \in {ring[r][i].path, Torn}
    OBVIOUS
  <2>1. ring[r][i] \in Entry
    BY <1>5
  <2>2. CASE r = s /\ i = j
    <3>1. ring'[r][i] = [ring[r][i] EXCEPT !.path = Torn]
      BY <1>4, <2>2
    <3>2. QED
      BY <2>1, <3>1 DEF Entry
  <2>3. CASE ~(r = s /\ i = j)
    BY <1>4, <2>1, <2>3
  <2>4. QED
    BY <2>2, <2>3
<1>7. QED
  BY <1>1, <1>2, <1>4, <1>6 DEF s, j

LEMMA StepRingInv == TypeOK /\ SlotInv /\ RingInv /\ [Next]_vars => RingInv'
<1> SUFFICES ASSUME TypeOK, SlotInv, RingInv, [Next]_vars PROVE RingInv'
  OBVIOUS
<1>0. now \in Nat
  BY DEF TypeOK
<1>1. ASSUME NEW t \in Threads, NEW f \in Frame, f.slot = 0, f.seq = 0,
             stack' = [stack EXCEPT ![t] = Append(stack[t], f)],
             UNCHANGED <<owner, head, ring, recorded, now>>
      PROVE  RingInv'
  <2>1. \A u \in Threads : u # t => stack'[u] = stack[u]
    BY <1>1 DEF TypeOK
  <2>2. stack'[t] = Append(stack[t], f)
    BY <1>1 DEF TypeOK
  <2>3. /\ \A k \in DOMAIN stack[t] : k \in DOMAIN stack'[t] /\ stack'[t][k] = stack[t][k]
        /\ \A k \in DOMAIN stack'[t] :
             (k \in DOMAIN stack[t] /\ stack'[t][k] = stack[t][k]) \/ stack'[t][k] = f
    BY <1>1, <2>2, PushFacts
  <2>4. QED
    BY <1>0, <1>1, <2>1, <2>3, SameRing
<1>2. ASSUME NEW t \in Threads, DemandNoPath(t) PROVE RingInv'
  <2>1. Untracked(NoPath) \in Frame /\ Untracked(NoPath).slot = 0 /\ Untracked(NoPath).seq = 0
    BY TrackerAssumption DEF Untracked, Frame, Indices
  <2>2. /\ stack' = [stack EXCEPT ![t] = Append(stack[t], Untracked(NoPath))]
        /\ UNCHANGED <<owner, head, ring, recorded, now>>
    BY <1>2 DEF DemandNoPath, slotVars
  <2>3. QED
    BY <1>1, <2>1, <2>2
<1>3. ASSUME NEW t \in Threads, DropRequest(t) PROVE RingInv'
  <2> DEFINE f == Untracked(call[t].path)
  <2>1. f \in Frame /\ f.slot = 0 /\ f.seq = 0
    BY TrackerAssumption DEF Untracked, Frame, Indices, TypeOK, Call
  <2>2. /\ stack' = [stack EXCEPT ![t] = Append(stack[t], f)]
        /\ UNCHANGED <<owner, head, ring, recorded, now>>
    BY <1>3 DEF DropRequest, slotVars
  <2> HIDE DEF f
  <2>3. QED
    BY <1>1, <2>1, <2>2
<1>4. ASSUME NEW t \in Threads, ClaimSlot(t) PROVE RingInv'
  <2>1. UNCHANGED <<head, ring, recorded, stack, now>>
    BY <1>4 DEF ClaimSlot
  <2>2. \A s \in Slots : owner'[s] = NoThread => owner[s] = NoThread
    BY <1>4, TrackerAssumption DEF ClaimSlot, TypeOK
  <2>3. QED
    BY <1>0, <2>1, <2>2, SameRing
<1>5. ASSUME NEW t \in Threads,
             (\E path \in Paths : Demand(t, path)) \/ FindSlot(t) \/ SkipSlot(t) \/ Throw(t) \/ Crash(t)
      PROVE  RingInv'
  <2>1. UNCHANGED <<owner, head, ring, recorded, stack, now>>
    BY <1>5 DEF Demand, FindSlot, SkipSlot, Throw, Crash, slotVars
  <2>2. QED
    BY <1>0, <2>1, SameRing
<1>6. ASSUME NEW t \in Threads, FaultInCopy(t) PROVE RingInv'
  <2>1. UNCHANGED <<owner, head, recorded, stack, now>>
    BY <1>6 DEF FaultInCopy
  <2>2. \A s \in Slots, i \in Indices :
          /\ ring'[s][i].active = ring[s][i].active
          /\ ring'[s][i].ticks = ring[s][i].ticks
          /\ ring'[s][i].path \in {ring[s][i].path, Torn}
    BY <1>6, FaultFacts
  <2>3. QED
    BY <1>0, <2>1, <2>2, SameRing
<1>7. CASE Tick \/ UNCHANGED vars
  <2>1. UNCHANGED <<owner, head, ring, recorded, stack>> /\ now' \in Nat /\ now <= now'
    BY <1>0, <1>7 DEF Tick, vars, slotVars
  <2>2. QED
    BY <2>1, SameRing
<1>8. QED
  BY <1>2, <1>3, <1>4, <1>5, <1>6, <1>7, RecordKeepsRing, LeaveKeepsRing DEF Next

-----------------------------------------------------------------------------
(* Reports                                                                  *)

\* What a crash report is made of: the places of the slot of the thread, as
\* far back as head reaches.
LEMMA ReportFacts ==
  ASSUME TypeOK, SlotInv, RingInv, NEW t \in Threads, NEW newRing
  PROVE  /\ (\A s \in Slots : owner[s] # t) => CrashReport(t, newRing) = NoReport
         /\ \A s \in Slots : owner[s] = t =>
              /\ CrashReport(t, newRing) = ReportOf(s, newRing[s])
              /\ DOMAIN EntriesOf(s, newRing[s]) = 1 .. MinOf(head[s], Capacity)
              /\ head[s] \in Nat /\ head[s] <= recorded[s]
              /\ \A i \in 1 .. MinOf(head[s], Capacity) :
                   /\ i \in Remembers(s)
                   /\ EntriesOf(s, newRing[s])[i] = newRing[s][IndexOf(recorded[s] - i)]
<1>1. (\A s \in Slots : owner[s] # t) => CrashReport(t, newRing) = NoReport
  BY DEF CrashReport
<1>2. ASSUME NEW s \in Slots, owner[s] = t
      PROVE  /\ CrashReport(t, newRing) = ReportOf(s, newRing[s])
             /\ DOMAIN EntriesOf(s, newRing[s]) = 1 .. MinOf(head[s], Capacity)
             /\ head[s] \in Nat /\ head[s] <= recorded[s]
             /\ \A i \in 1 .. MinOf(head[s], Capacity) :
                  /\ i \in Remembers(s)
                  /\ EntriesOf(s, newRing[s])[i] = newRing[s][IndexOf(recorded[s] - i)]
  <2>1. CrashReport(t, newRing) = ReportOf(s, newRing[s])
    <3> DEFINE First(r) == owner[r] = t /\ \A q \in Slots : q < r => owner[q] # t
    <3>1. \A r \in Slots : owner[r] = t => r = s
      BY <1>2, TrackerAssumption DEF SlotInv, OneSlotPerThread
    <3>2. First(s)
      <4>1. ASSUME NEW q \in Slots, q < s PROVE owner[q] # t
        <5>1. q # s
          BY <4>1 DEF Slots
        <5>2. QED
          BY <3>1, <5>1
      <4>2. QED
        BY <1>2, <4>1
    <3>3. (CHOOSE r \in Slots : First(r)) = s
      BY <3>1, <3>2
    <3>4. CrashReport(t, newRing) = ReportOf(CHOOSE r \in Slots : First(r), newRing[CHOOSE r \in Slots : First(r)])
      BY <1>2 DEF CrashReport
    <3> HIDE DEF First
    <3>5. QED
      BY <3>3, <3>4
  <2> DEFINE m == head[s]
             n == recorded[s]
  <2>2. m \in Nat /\ n \in Nat /\ m = n % HeadMod
    BY DEF TypeOK, RingInv, HeadsRight
  <2>3. DOMAIN EntriesOf(s, newRing[s]) = 1 .. MinOf(m, Capacity)
    BY DEF EntriesOf
  <2>4. \A i \in 1 .. MinOf(m, Capacity) : EntriesOf(s, newRing[s])[i] = newRing[s][(m - i) % Capacity]
    BY DEF EntriesOf
  <2> HIDE DEF m, n
  <2>5. m <= n
    <3>1. 0 \in Nat /\ 0 <= m
      BY <2>2
    <3>2. QED
      BY <2>2, <3>1, IndexFacts
  <2>6. ASSUME NEW i \in 1 .. MinOf(m, Capacity)
        PROVE  i \in Remembers(s) /\ EntriesOf(s, newRing[s])[i] = newRing[s][IndexOf(n - i)]
    <3>1. Capacity \in Nat
      BY TrackerAssumption
    <3>2. i \in Nat /\ 1 <= i /\ i <= m /\ i <= Capacity
      BY <2>2, <2>6, <3>1 DEF MinOf
    <3>3. i \in 1 .. MinOf(n, Capacity)
      BY <2>2, <2>5, <3>1, <3>2 DEF MinOf
    <3>4. (m - i) % Capacity = IndexOf(n - i)
      BY <2>2, <3>2, IndexFacts
    <3>5. QED
      BY <2>4, <2>6, <3>3, <3>4 DEF Remembers, n
  <2>7. QED
    BY <2>1, <2>2, <2>3, <2>5, <2>6 DEF m, n
<1>3. QED
  BY <1>1, <1>2

ReportInv ==
  /\ report = [t \in Threads |-> report[t]]
  /\ RecentInFlightReported
  /\ ReportNewestFirst

\* The list of a report that has none has no places.
LEMMA NoPlaces == DOMAIN <<>> = {}
<1>1. <<>> \in Seq(Frame) /\ Len(<<>>) = 0
  BY EmptySeq
<1>2. DOMAIN <<>> = 1 .. 0
  BY <1>1, LenProperties
<1>3. QED
  BY <1>2

LEMMA InitReportInv == Init => ReportInv
<1> SUFFICES ASSUME Init PROVE ReportInv
  OBVIOUS
<1>1. RecentInFlightReported
  BY DEF Init, RecentInFlightReported
<1>3. ReportNewestFirst
  BY NoPlaces DEF Init, NoReport, ReportNewestFirst
<1>4. report = [t \in Threads |-> report[t]]
  BY DEF Init
<1>5. QED
  BY <1>1, <1>3, <1>4 DEF ReportInv

\* A report taken now, on a ring that may have one torn path, is right.
LEMMA NewReport ==
  ASSUME TypeOK, SlotInv, RingInv, NEW t \in Threads, NEW newRing,
         \A s \in Slots, i \in Indices :
           /\ newRing[s][i].active = ring[s][i].active
           /\ newRing[s][i].ticks = ring[s][i].ticks
           /\ newRing[s][i].path \in {ring[s][i].path, Torn}
  PROVE  LET told == CrashReport(t, newRing) IN
         /\ \A k \in Tracked(t) :
              LET f == stack[t][k] IN
              recorded[f.slot] - f.seq < Capacity /\ recorded[f.slot] < HeadMod =>
                /\ told.inFlight
                /\ \E j \in DOMAIN told.requests :
                     told.requests[j].active /\ told.requests[j].path \in {f.path, Torn}
         /\ \A j, k \in DOMAIN told.requests :
              j < k => told.requests[k].ticks <= told.requests[j].ticks
<1> DEFINE told == CrashReport(t, newRing)
<1>1. ASSUME NEW s \in Slots, owner[s] = t
      PROVE  LET es == EntriesOf(s, newRing[s]) IN
             /\ told.inFlight = \E i \in DOMAIN es : es[i].active
             /\ DOMAIN told.requests = {j \in DOMAIN es : Relevant(es[j])}
             /\ \A j \in DOMAIN told.requests : told.requests[j] = es[j]
  <2>1. told = ReportOf(s, newRing[s])
    BY <1>1, ReportFacts
  <2>2. QED
    BY <2>1 DEF ReportOf, RequestsOf
<1>2. ASSUME NEW k \in Tracked(t),
             recorded[stack[t][k].slot] - stack[t][k].seq < Capacity,
             recorded[stack[t][k].slot] < HeadMod
      PROVE  /\ told.inFlight
             /\ \E j \in DOMAIN told.requests :
                  told.requests[j].active /\ told.requests[j].path \in {stack[t][k].path, Torn}
  <2> DEFINE f == stack[t][k]
             s == f.slot
             n == recorded[s]
             j == n + 1 - f.seq
             es == EntriesOf(s, newRing[s])
  <2>1. /\ s \in Slots /\ f.index \in Indices /\ owner[s] = t /\ n \in Nat
        /\ f.seq \in Nat \ {0} /\ f.seq <= n /\ f.index = IndexOf(f.seq - 1)
    BY FrameFacts
  <2>2. ring[s][f.index].active /\ ring[s][f.index].path \in {f.path, Torn}
    BY <1>2 DEF RingInv, RecentInFlightKept
  <2>3. head[s] = n
    <3>1. head[s] = n % HeadMod
      BY <2>1 DEF RingInv, HeadsRight
    <3>2. n \in 0 .. HeadMod - 1 /\ HeadMod \in Nat \ {0} /\ n = HeadMod * 0 + n
      BY <1>2, <2>1, TrackerAssumption
    <3> HIDE DEF n
    <3>3. n % HeadMod = n
      BY <3>2, Remainder
    <3>4. QED
      BY <3>1, <3>3
  <2>4. /\ DOMAIN es = 1 .. MinOf(n, Capacity)
        /\ \A i \in 1 .. MinOf(n, Capacity) : es[i] = newRing[s][IndexOf(n - i)]
    BY <2>1, <2>3, ReportFacts
  <2>5. n - f.seq < Capacity
    BY <1>2
  <2>6. /\ told.inFlight = \E i \in DOMAIN es : es[i].active
        /\ DOMAIN told.requests = {i \in DOMAIN es : Relevant(es[i])}
        /\ \A i \in DOMAIN told.requests : told.requests[i] = es[i]
    BY <1>1, <2>1
  <2> HIDE DEF f, s, n, es, told
  <2>7. j \in 1 .. MinOf(n, Capacity) /\ n - j = f.seq - 1
    BY <2>1, <2>5, TrackerAssumption DEF MinOf
  <2> HIDE DEF j
  <2>8. es[j] = newRing[s][f.index]
    BY <2>1, <2>4, <2>7
  <2>9. es[j].active /\ es[j].path \in {f.path, Torn}
    BY <2>1, <2>2, <2>8
  <2>10. j \in DOMAIN told.requests /\ told.requests[j] = es[j] /\ told.inFlight
    BY <2>4, <2>6, <2>7, <2>9 DEF Relevant
  <2>11. QED
    BY <2>9, <2>10 DEF f, told
<1>3. ASSUME NEW j \in DOMAIN told.requests, NEW k \in DOMAIN told.requests, j < k
      PROVE  told.requests[k].ticks <= told.requests[j].ticks
  <2>1. CASE \A s \in Slots : owner[s] # t
    <3>1. told.requests = <<>>
      BY <2>1, ReportFacts DEF NoReport
    <3>2. <<>> \in Seq(Frame) /\ Len(<<>>) = 0
      BY EmptySeq
    <3>3. DOMAIN <<>> = 1 .. 0
      BY <3>2, LenProperties
    <3>4. QED
      BY <1>3, <3>1, <3>3
  <2>2. ASSUME NEW s \in Slots, owner[s] = t PROVE told.requests[k].ticks <= told.requests[j].ticks
    <3> DEFINE es == EntriesOf(s, newRing[s])
    <3>1. /\ j \in DOMAIN es /\ k \in DOMAIN es
          /\ told.requests[j] = es[j] /\ told.requests[k] = es[k]
      BY <1>1, <1>3, <2>2
    <3>2. /\ DOMAIN es = 1 .. MinOf(head[s], Capacity)
          /\ \A i \in 1 .. MinOf(head[s], Capacity) :
               i \in Remembers(s) /\ es[i] = newRing[s][IndexOf(recorded[s] - i)]
      BY <2>2, ReportFacts
    <3> HIDE DEF es, told
    <3>3. \A i \in DOMAIN es : i \in Remembers(s) /\ es[i].ticks = EntryAt(s, i).ticks
      BY <3>2, PlaceFacts DEF EntryAt
    <3>4. QED
      BY <1>3, <3>1, <3>3 DEF RingInv, TimesRight
  <2>3. QED
    BY <2>1, <2>2
<1>4. QED
  BY <1>2, <1>3

\* A step that is not a crash of t leaves the report of t right.
LEMMA SameReport ==
  ASSUME TypeOK, SlotInv, RingInv, ReportInv, UNCHANGED report,
         \A t \in Threads : pc'[t] = "crashed" => pc[t] = "crashed" /\ stack'[t] = stack[t],
         \A t \in Threads : pc[t] = "crashed" =>
           \A s \in Slots : owner[s] = t => recorded'[s] = recorded[s]
  PROVE  ReportInv'
<1>1. RecentInFlightReported'
  <2> SUFFICES ASSUME NEW t \in Threads, pc'[t] = "crashed", report'[t].whole, NEW k \in Tracked(t)',
                      recorded'[stack'[t][k].slot] - stack'[t][k].seq < Capacity,
                      recorded'[stack'[t][k].slot] < HeadMod
               PROVE  /\ report'[t].inFlight
                      /\ \E j \in DOMAIN report'[t].requests :
                           /\ report'[t].requests[j].active
                           /\ report'[t].requests[j].path \in {stack'[t][k].path, Torn}
    BY DEF RecentInFlightReported
  <2>1. pc[t] = "crashed" /\ stack'[t] = stack[t]
    OBVIOUS
  <2>2. k \in Tracked(t)
    BY <2>1 DEF Tracked
  <2>3. recorded'[stack[t][k].slot] = recorded[stack[t][k].slot]
    BY <2>1, <2>2, FrameFacts
  <2>4. QED
    BY <2>1, <2>2, <2>3 DEF ReportInv, RecentInFlightReported
<1>2. ReportNewestFirst' /\ (report = [t \in Threads |-> report[t]])'
  BY DEF ReportInv, ReportNewestFirst
<1>3. QED
  BY <1>1, <1>2 DEF ReportInv

\* A thread is told its whole report, or no requests.
LEMMA ToldWholeOrNone ==
  ASSUME NEW t \in Threads, NEW newRing, NEW told \in Told(t, newRing)
  PROVE  told = CrashReport(t, newRing) \/ (told.requests = <<>> /\ told.whole = FALSE)
<1>1. CASE told = CrashReport(t, newRing)
  BY <1>1
<1>2. ASSUME NEW b, told = [inFlight |-> b, requests |-> <<>>, whole |-> FALSE]
      PROVE  told.requests = <<>> /\ told.whole = FALSE
  BY <1>2
<1>3. QED
  BY <1>1, <1>2 DEF Told

LEMMA StepReportInv == TypeOK /\ SlotInv /\ RingInv /\ ReportInv /\ [Next]_vars => ReportInv'
<1> SUFFICES ASSUME TypeOK, SlotInv, RingInv, ReportInv, [Next]_vars PROVE ReportInv'
  OBVIOUS
<1>1. ASSUME NEW t \in Threads,
             NEW told \in Told(t, ring'),
             pc' = [pc EXCEPT ![t] = "crashed"],
             report' = [report EXCEPT ![t] = told],
             UNCHANGED <<owner, recorded, stack, now>>,
             \A s \in Slots, i \in Indices :
               /\ ring'[s][i].active = ring[s][i].active
               /\ ring'[s][i].ticks = ring[s][i].ticks
               /\ ring'[s][i].path \in {ring[s][i].path, Torn}
      PROVE  ReportInv'
  <2>1. /\ \A k \in Tracked(t) :
              LET f == stack[t][k] IN
              told.whole /\ recorded[f.slot] - f.seq < Capacity /\ recorded[f.slot] < HeadMod =>
                /\ told.inFlight
                /\ \E j \in DOMAIN told.requests :
                     told.requests[j].active /\ told.requests[j].path \in {f.path, Torn}
        /\ \A j, k \in DOMAIN told.requests :
              j < k => told.requests[k].ticks <= told.requests[j].ticks
    <3>1. CASE told = CrashReport(t, ring')
      BY <1>1, <3>1, NewReport
    <3>2. CASE told.requests = <<>> /\ told.whole = FALSE
      BY <3>2, NoPlaces
    <3>3. told = CrashReport(t, ring') \/ (told.requests = <<>> /\ told.whole = FALSE)
      BY <1>1, ToldWholeOrNone
    <3>4. QED
      BY <3>1, <3>2, <3>3
  <2>2. report'[t] = told /\ \A u \in Threads : u # t => report'[u] = report[u]
    <3>1. report = [u \in Threads |-> report[u]]
      BY DEF ReportInv
    <3>2. report' = [report EXCEPT ![t] = told]
      BY <1>1
    <3>3. QED
      BY <3>1, <3>2
  <2>3. \A u \in Threads : Tracked(u)' = Tracked(u) /\ (u # t => pc'[u] = pc[u])
    BY <1>1 DEF Tracked, TypeOK
  <2>4. RecentInFlightReported'
    <3>1. SUFFICES ASSUME NEW u \in Threads, (pc[u] = "crashed" /\ report[u].whole)', NEW k \in Tracked(u)'
                   PROVE  (LET f == stack[u][k] IN
                           recorded[f.slot] - f.seq < Capacity /\ recorded[f.slot] < HeadMod =>
                             /\ report[u].inFlight
                             /\ \E j \in DOMAIN report[u].requests :
                                  /\ report[u].requests[j].active
                                  /\ report[u].requests[j].path \in {f.path, Torn})'
      BY DEF RecentInFlightReported
    <3>2. CASE u = t
      BY <1>1, <2>1, <2>2, <2>3, <3>1, <3>2
    <3>3. CASE u # t
      <4>1. report'[u] = report[u] /\ pc[u] = "crashed" /\ k \in Tracked(u)
        BY <2>2, <2>3, <3>1, <3>3
      <4>2. stack' = stack /\ recorded' = recorded /\ report[u].whole
        BY <1>1, <3>1, <4>1
      <4>3. RecentInFlightReported
        BY DEF ReportInv
      <4>4. QED
        BY <4>1, <4>2, <4>3 DEF RecentInFlightReported
    <3>4. QED
      BY <3>2, <3>3
  <2>5. ReportNewestFirst'
    BY <1>1, <2>1, <2>2 DEF ReportInv, ReportNewestFirst
  <2>6. (report = [u \in Threads |-> report[u]])'
    <3>1. report = [u \in Threads |-> report[u]]
      BY DEF ReportInv
    <3>2. report' = [report EXCEPT ![t] = told]
      BY <1>1
    <3>3. QED
      BY <3>1, <3>2
  <2>7. QED
    BY <2>4, <2>5, <2>6 DEF ReportInv
<1>2. ASSUME NEW t \in Threads, Crash(t) PROVE ReportInv'
  <2>1. /\ pc' = [pc EXCEPT ![t] = "crashed"]
        /\ UNCHANGED <<owner, recorded, stack, now, ring>>
    BY <1>2 DEF Crash, slotVars
  <2>2. PICK r \in Told(t, ring) : report' = [report EXCEPT ![t] = r]
    BY <1>2 DEF Crash
  <2>3. r \in Told(t, ring')
    BY <2>1, <2>2
  <2>4. QED
    BY <1>1, <2>1, <2>2, <2>3
<1>3. ASSUME NEW t \in Threads, FaultInCopy(t) PROVE ReportInv'
  <2>1. /\ pc' = [pc EXCEPT ![t] = "crashed"]
        /\ UNCHANGED <<owner, recorded, stack, now>>
        /\ \E r \in Told(t, ring') : report' = [report EXCEPT ![t] = r]
    BY <1>3 DEF FaultInCopy
  <2>2. \A s \in Slots, i \in Indices :
          /\ ring'[s][i].active = ring[s][i].active
          /\ ring'[s][i].ticks = ring[s][i].ticks
          /\ ring'[s][i].path \in {ring[s][i].path, Torn}
    BY <1>3, FaultFacts
  <2>3. QED
    BY <1>1, <2>1, <2>2
<1>4. ASSUME NEW t \in Threads, Record(t) PROVE ReportInv'
  <2>1. PICK s \in Slots : s = call[t].slot
    BY <1>4 DEF Record, TypeOK
  <2>2. /\ owner[s] = t /\ UNCHANGED report
        /\ recorded' = [recorded EXCEPT ![s] = recorded[s] + 1]
    BY <1>4, <2>1, RecordFacts
  <2>3. pc[t] = "record" /\ pc'[t] = "run" /\ \A u \in Threads : u # t => pc'[u] = pc[u] /\ stack'[u] = stack[u]
    BY <1>4 DEF Record, TypeOK
  <2>4. \A u \in Threads : pc[u] = "crashed" => \A r \in Slots : owner[r] = u => recorded'[r] = recorded[r]
    BY <2>2, <2>3 DEF TypeOK
  <2>5. \A u \in Threads : pc'[u] = "crashed" => pc[u] = "crashed" /\ stack'[u] = stack[u]
    BY <2>3
  <2>6. QED
    BY <2>2, <2>4, <2>5, SameReport
<1>5. ASSUME NEW t \in Threads, Return(t) \/ Unwind(t) \/ DemandNoPath(t) \/ DropRequest(t) PROVE ReportInv'
  <2>1. pc'[t] # "crashed" /\ \A u \in Threads : u # t => pc'[u] = pc[u] /\ stack'[u] = stack[u]
    BY <1>5 DEF Return, Unwind, DemandNoPath, DropRequest, TypeOK
  <2>2. UNCHANGED <<report, recorded>>
    BY <1>5 DEF Return, Unwind, DemandNoPath, DropRequest, slotVars
  <2>3. QED
    BY <2>1, <2>2, SameReport
<1>6. ASSUME NEW t \in Threads,
             (\E path \in Paths : Demand(t, path)) \/ FindSlot(t) \/ ClaimSlot(t) \/ SkipSlot(t) \/ Throw(t)
      PROVE  ReportInv'
  <2>1. UNCHANGED <<report, recorded, stack>>
    BY <1>6 DEF Demand, FindSlot, ClaimSlot, SkipSlot, Throw, slotVars
  <2>2. pc'[t] # "crashed" /\ \A u \in Threads : u # t => pc'[u] = pc[u]
    BY <1>6 DEF Demand, FindSlot, ClaimSlot, SkipSlot, Throw, TypeOK
  <2>3. QED
    BY <2>1, <2>2, SameReport
<1>7. CASE Tick \/ UNCHANGED vars
  <2>1. UNCHANGED <<report, recorded, stack, pc>>
    BY <1>7 DEF Tick, vars, slotVars
  <2>2. QED
    BY <2>1, SameReport
<1>8. QED
  BY <1>2, <1>3, <1>4, <1>5, <1>6, <1>7 DEF Next

\* A thread that dies inside the engine is told of every request it is inside,
\* as long as fewer than Capacity followed it; and a report lists the newest
\* request first, for rings and counters of any size and any number of laps.
THEOREM RecentRequestsReported == Spec => []RecentInFlight
<1>1. RingInv /\ ReportInv => RecentInFlight
  BY DEF RingInv, ReportInv, RecentInFlight
<1>2. QED
  BY <1>1, InitTypeOK, StepTypeOK, InitSlotInv, StepSlotInv, InitRingInv, StepRingInv,
     InitReportInv, StepReportInv, PTL DEF Spec

-----------------------------------------------------------------------------
(* The list each thread sees                                                *)

\* A function on an initial segment is a sequence.
LEMMA AsSeq ==
  ASSUME NEW S, NEW n \in Nat, NEW f \in [1 .. n -> S]
  PROVE  f \in Seq(S) /\ Len(f) = n /\ DOMAIN f = 1 .. n
<1>1. f \in Seq(S)
  BY SeqDef
<1>2. Len(f) \in Nat /\ 1 .. Len(f) = 1 .. n
  BY <1>1, LenProperties
<1>3. Len(f) = n
  <2>1. CASE Len(f) < n
    BY <1>2, <2>1
  <2>2. CASE Len(f) > n
    BY <1>2, <2>2
  <2>3. QED
    BY <1>2, <2>1, <2>2
<1>4. QED
  BY <1>1, <1>3

\* The log of a thread with a slot is a list of entries.
LEMMA LogFacts ==
  ASSUME TypeOK, NEW s \in Slots
  PROVE  LET l == [i \in Remembers(s) |-> EntryAt(s, i)] IN
         l \in Seq(Entry) /\ Len(l) = MinOf(recorded[s], Capacity) /\ DOMAIN l = Remembers(s)
<1>1. MinOf(recorded[s], Capacity) \in Nat
  BY TrackerAssumption DEF MinOf, TypeOK
<1>2. [i \in Remembers(s) |-> EntryAt(s, i)] \in [1 .. MinOf(recorded[s], Capacity) -> Entry]
  BY PlaceFacts DEF Remembers
<1>3. QED
  BY <1>1, <1>2, AsSeq DEF Remembers

\* What a thread remembers is what its slot remembers, if it has one.
Viewed ==
  \A t \in Threads :
    /\ (\A s \in Slots : owner[s] # t) => RecordedOf(t) = 0 /\ Remembered(t) = <<>>
    /\ \A s \in Slots : owner[s] = t =>
         /\ RecordedOf(t) = recorded[s]
         /\ Remembered(t) = [i \in Remembers(s) |-> EntryAt(s, i)]
    /\ RecordedOf(t) \in Nat
    /\ Remembered(t) \in Seq(Entry)
    /\ Len(Remembered(t)) = MinOf(RecordedOf(t), Capacity)

LEMMA View == TypeOK /\ SlotInv => Viewed
<1> SUFFICES ASSUME TypeOK, SlotInv, NEW t \in Threads
             PROVE  /\ (\A s \in Slots : owner[s] # t) => RecordedOf(t) = 0 /\ Remembered(t) = <<>>
                    /\ \A s \in Slots : owner[s] = t =>
                         /\ RecordedOf(t) = recorded[s]
                         /\ Remembered(t) = [i \in Remembers(s) |-> EntryAt(s, i)]
                    /\ RecordedOf(t) \in Nat
                    /\ Remembered(t) \in Seq(Entry)
                    /\ Len(Remembered(t)) = MinOf(RecordedOf(t), Capacity)
  BY DEF Viewed
<1>1. ASSUME \A s \in Slots : owner[s] # t
      PROVE  RecordedOf(t) = 0 /\ Remembered(t) = <<>>
  <2>1. RecordedOf(t) = 0
    BY <1>1 DEF RecordedOf, SlotsOf
  <2>2. MinOf(0, Capacity) = 0
    BY TrackerAssumption DEF MinOf
  <2>3. Remembered(t) \in [1 .. 0 -> Entry]
    BY <2>1, <2>2 DEF Remembered
  <2>4. Remembered(t) \in Seq(Entry) /\ Len(Remembered(t)) = 0
    BY <2>3, AsSeq
  <2>5. QED
    BY <2>1, <2>4, EmptySeq
<1>2. ASSUME NEW s \in Slots, owner[s] = t
      PROVE  /\ RecordedOf(t) = recorded[s]
             /\ Remembered(t) = [i \in Remembers(s) |-> EntryAt(s, i)]
  <2>1. SlotsOf(t) = {s}
    BY <1>2, TrackerAssumption DEF SlotsOf, SlotInv, OneSlotPerThread
  <2>2. (CHOOSE r \in SlotsOf(t) : TRUE) = s
    BY <2>1
  <2>3. RecordedOf(t) = recorded[s]
    BY <2>1, <2>2 DEF RecordedOf
  <2>4. Remembered(t) = [i \in Remembers(s) |-> EntryAt(s, i)]
    <3> DEFINE r == CHOOSE r \in SlotsOf(t) : TRUE
               n == RecordedOf(t)
    <3>1. Remembered(t) = [i \in 1 .. MinOf(n, Capacity) |-> ring[r][IndexOf(n - i)]]
      BY DEF Remembered, IndexOf
    <3>2. r = s /\ n = recorded[s]
      BY <2>2, <2>3
    <3> HIDE DEF r, n
    <3>3. QED
      BY <3>1, <3>2 DEF Remembers, EntryAt
  <2>5. QED
    BY <2>3, <2>4
<1>3. CASE \A s \in Slots : owner[s] # t
  <2>1. RecordedOf(t) = 0 /\ Remembered(t) = <<>>
    BY <1>1, <1>3
  <2>2. MinOf(0, Capacity) = 0
    BY TrackerAssumption DEF MinOf
  <2>3. <<>> \in Seq(Entry) /\ Len(<<>>) = 0
    BY EmptySeq
  <2>4. QED
    BY <1>3, <2>1, <2>2, <2>3
<1>4. ASSUME NEW s \in Slots, owner[s] = t
      PROVE  /\ RecordedOf(t) \in Nat
             /\ Remembered(t) \in Seq(Entry)
             /\ Len(Remembered(t)) = MinOf(RecordedOf(t), Capacity)
  <2>1. RecordedOf(t) = recorded[s] /\ Remembered(t) = [i \in Remembers(s) |-> EntryAt(s, i)]
    BY <1>2, <1>4
  <2>2. recorded[s] \in Nat
    BY DEF TypeOK
  <2>3. QED
    BY <2>1, <2>2, LogFacts
<1>5. QED
  BY <1>1, <1>2, <1>3, <1>4

LEMMA ViewAfter == TypeOK' /\ SlotInv' => Viewed'
BY View, PTL

\* A list that is cut short.
LEMMA FirstFacts ==
  ASSUME NEW l \in Seq(Entry), NEW n \in Nat
  PROVE  /\ Recent!First(n, l) \in Seq(Entry)
         /\ Len(Recent!First(n, l)) = MinOf(n, Len(l))
         /\ \A i \in 1 .. MinOf(n, Len(l)) : Recent!First(n, l)[i] = l[i]
<1> DEFINE m == MinOf(n, Len(l))
<1>1. m \in Nat /\ m <= Len(l) /\ Len(l) \in Nat
  BY LenProperties DEF MinOf
<1>2. Recent!First(n, l) = SubSeq(l, 1, m)
  BY DEF Recent!First, Recent!Least, MinOf
<1>3. \A i \in 1 .. m : l[i] \in Entry
  BY <1>1, ElementOfSeq
<1> HIDE DEF m
<1>4. 1 \in Int /\ m \in Int
  BY <1>1
<1>5. /\ SubSeq(l, 1, m) \in Seq(Entry)
      /\ Len(SubSeq(l, 1, m)) = IF 1 <= m THEN m - 1 + 1 ELSE 0
      /\ \A i \in 1 .. m - 1 + 1 : SubSeq(l, 1, m)[i] = l[1 + i - 1]
  BY <1>3, <1>4, SubSeqProperties
<1>6. Len(SubSeq(l, 1, m)) = m /\ m - 1 + 1 = m
  BY <1>1, <1>5
<1>7. \A i \in 1 .. m : SubSeq(l, 1, m)[i] = l[i]
  BY <1>1, <1>5, <1>6
<1>8. QED
  BY <1>2, <1>5, <1>6, <1>7 DEF m

\* The numbers of the calls of a thread, as they are entered and left.
Numbers(q) == [k \in DOMAIN q |-> q[k].seq]

LEMMA NumbersFacts ==
  ASSUME NEW q \in Seq(Frame)
  PROVE  /\ Numbers(q) \in Seq(Nat) /\ Len(Numbers(q)) = Len(q)
         /\ \A k \in 1 .. Len(q) : Numbers(q)[k] = q[k].seq
<1>1. Len(q) \in Nat /\ DOMAIN q = 1 .. Len(q)
  BY LenProperties
<1>2. \A k \in 1 .. Len(q) : q[k].seq \in Nat
  <2>1. \A k \in 1 .. Len(q) : q[k] \in Frame
    BY ElementOfSeq
  <2>2. QED
    BY <2>1 DEF Frame
<1>3. Numbers(q) \in [1 .. Len(q) -> Nat]
  BY <1>1, <1>2 DEF Numbers
<1>4. QED
  BY <1>1, <1>3, AsSeq DEF Numbers

LEMMA NumbersPush ==
  ASSUME NEW q \in Seq(Frame), NEW f \in Frame
  PROVE  Numbers(Append(q, f)) = Append(Numbers(q), f.seq)
<1> DEFINE p == Append(q, f)
           a == Numbers(p)
           b == Append(Numbers(q), f.seq)
<1>1. /\ p \in Seq(Frame) /\ Len(p) = Len(q) + 1 /\ Len(q) \in Nat
      /\ \A k \in 1 .. Len(q) : p[k] = q[k]
      /\ p[Len(q) + 1] = f
  BY AppendProperties, LenProperties
<1>2. /\ a \in Seq(Nat) /\ Len(a) = Len(q) + 1
      /\ \A k \in 1 .. Len(q) + 1 : a[k] = p[k].seq
  BY <1>1, NumbersFacts
<1>3. /\ Numbers(q) \in Seq(Nat) /\ Len(Numbers(q)) = Len(q) /\ f.seq \in Nat
      /\ \A k \in 1 .. Len(q) : Numbers(q)[k] = q[k].seq
  BY NumbersFacts DEF Frame
<1>4. /\ b \in Seq(Nat) /\ Len(b) = Len(q) + 1
      /\ \A k \in 1 .. Len(q) : b[k] = Numbers(q)[k]
      /\ b[Len(q) + 1] = f.seq
  BY <1>3, AppendProperties
<1> HIDE DEF p, a, b
<1>5. \A k \in 1 .. Len(q) + 1 : a[k] = b[k]
  <2> SUFFICES ASSUME NEW k \in 1 .. Len(q) + 1 PROVE a[k] = b[k]
    OBVIOUS
  <2>1. CASE k = Len(q) + 1
    BY <1>1, <1>2, <1>4, <2>1
  <2>2. CASE k # Len(q) + 1
    <3>1. k \in 1 .. Len(q)
      BY <1>1, <2>2
    <3>2. QED
      BY <1>1, <1>2, <1>3, <1>4, <3>1
  <2>3. QED
    BY <2>1, <2>2
<1>6. a = b
  BY <1>2, <1>4, <1>5, SeqEqual
<1>7. QED
  BY <1>6 DEF a, b, p

LEMMA NumbersPop ==
  ASSUME NEW q \in Seq(Frame), q # <<>>
  PROVE  Numbers(SubSeq(q, 1, Len(q) - 1)) = SubSeq(Numbers(q), 1, Len(Numbers(q)) - 1)
<1> DEFINE p == SubSeq(q, 1, Len(q) - 1)
           a == Numbers(p)
           b == SubSeq(Numbers(q), 1, Len(Numbers(q)) - 1)
<1>1. /\ p \in Seq(Frame) /\ Len(p) = Len(q) - 1 /\ Len(q) \in Nat \ {0}
      /\ \A k \in 1 .. Len(q) - 1 : p[k] = q[k]
  BY PopFacts, EmptySeq
<1>2. /\ a \in Seq(Nat) /\ Len(a) = Len(q) - 1
      /\ \A k \in 1 .. Len(q) - 1 : a[k] = p[k].seq
  BY <1>1, NumbersFacts
<1>3. /\ Numbers(q) \in Seq(Nat) /\ Len(Numbers(q)) = Len(q)
      /\ \A k \in 1 .. Len(q) : Numbers(q)[k] = q[k].seq
  BY NumbersFacts
<1>4. Numbers(q) # <<>>
  BY <1>1, <1>3, EmptySeq
<1>5. /\ b \in Seq(Nat) /\ Len(b) = Len(q) - 1
      /\ \A k \in 1 .. Len(q) - 1 : b[k] = Numbers(q)[k]
  BY <1>3, <1>4, PopFacts
<1> HIDE DEF p, a, b
<1>6. \A k \in 1 .. Len(q) - 1 : a[k] = b[k]
  <2> SUFFICES ASSUME NEW k \in 1 .. Len(q) - 1 PROVE a[k] = b[k]
    OBVIOUS
  <2>1. k \in 1 .. Len(q)
    BY <1>1
  <2>2. QED
    BY <1>1, <1>2, <1>3, <1>5, <2>1
<1>7. a = b
  BY <1>2, <1>5, <1>6, SeqEqual
<1>8. QED
  BY <1>7 DEF a, b, p

\* A report is the one that is promised of the list the thread sees.
LEMMA SameReports ==
  ASSUME TypeOK, SlotInv, RingInv, NEW t \in Threads, NEW newRing, NEW l,
         \A s \in Slots : owner[s] = t =>
           /\ l = [i \in Remembers(s) |-> newRing[s][IndexOf(recorded[s] - i)]]
           /\ \A i \in Indices : newRing[s][i] \in Entry,
         (\A s \in Slots : owner[s] # t) => l = <<>>
  PROVE  CrashReport(t, newRing) = Recent!ReportOf(Recent!First(RecordedOf(t) % HeadMod, l))
<1>1. Viewed
  BY View
<1>2. ASSUME \A s \in Slots : owner[s] # t
      PROVE  CrashReport(t, newRing) = Recent!ReportOf(Recent!First(RecordedOf(t) % HeadMod, l))
  <2> DEFINE c == Recent!First(RecordedOf(t) % HeadMod, l)
  <2>1. RecordedOf(t) % HeadMod \in Nat
    <3>1. RecordedOf(t) = 0
      BY <1>1, <1>2 DEF Viewed
    <3>2. 0 % HeadMod \in Nat
      BY TrackerAssumption
    <3>3. QED
      BY <3>1, <3>2
  <2>2. l = <<>> /\ l \in Seq(Entry) /\ Len(l) = 0
    BY <1>2, EmptySeq
  <2>3. c \in Seq(Entry) /\ Len(c) = MinOf(RecordedOf(t) % HeadMod, 0)
    BY <2>1, <2>2, FirstFacts
  <2>4. Len(c) = 0
    BY <2>1, <2>3 DEF MinOf
  <2> HIDE DEF c
  <2>5. DOMAIN c = 1 .. 0
    BY <2>3, <2>4, LenProperties
  <2> DEFINE r == [i \in {j \in DOMAIN c : Recent!Relevant(c[j])} |-> c[i]]
  <2>6. r \in [1 .. 0 -> Entry]
    BY <2>5
  <2>7. r \in Seq(Entry) /\ Len(r) = 0
    BY <2>6, AsSeq
  <2>8. r = <<>>
    BY <2>7, EmptySeq
  <2>9. Recent!ReportOf(c) = [inFlight |-> FALSE, requests |-> r, whole |-> TRUE]
    BY <2>5 DEF Recent!ReportOf
  <2>10. CrashReport(t, newRing) = NoReport
    BY <1>2, ReportFacts
  <2>11. QED
    BY <2>8, <2>9, <2>10 DEF NoReport, c
<1>3. ASSUME NEW s \in Slots, owner[s] = t
      PROVE  CrashReport(t, newRing) = Recent!ReportOf(Recent!First(RecordedOf(t) % HeadMod, l))
  <2> DEFINE es == EntriesOf(s, newRing[s])
             n == recorded[s]
             m == head[s]
             c == Recent!First(m, l)
  <2>1. /\ CrashReport(t, newRing) = ReportOf(s, newRing[s])
        /\ DOMAIN es = 1 .. MinOf(m, Capacity)
        /\ m \in Nat /\ m <= n
        /\ \A i \in 1 .. MinOf(m, Capacity) :
             i \in Remembers(s) /\ es[i] = newRing[s][IndexOf(n - i)]
    BY <1>3, ReportFacts
  <2>2. RecordedOf(t) = n /\ m = n % HeadMod
    BY <1>1, <1>3 DEF Viewed, RingInv, HeadsRight
  <2>3. n \in Nat /\ Capacity \in Nat
    BY TrackerAssumption DEF TypeOK
  <2>4. l = [i \in Remembers(s) |-> newRing[s][IndexOf(n - i)]] /\ \A i \in Indices : newRing[s][i] \in Entry
    BY <1>3
  <2>5. l \in [1 .. MinOf(n, Capacity) -> Entry]
    BY <2>4, PlaceFacts DEF Remembers
  <2>6. MinOf(n, Capacity) \in Nat
    BY <2>3 DEF MinOf
  <2>7. l \in Seq(Entry) /\ Len(l) = MinOf(n, Capacity)
    BY <2>5, <2>6, AsSeq
  <2>8. MinOf(m, MinOf(n, Capacity)) = MinOf(m, Capacity) /\ MinOf(m, Capacity) \in Nat
    BY <2>1, <2>3 DEF MinOf
  <2>9. /\ c \in Seq(Entry) /\ Len(c) = MinOf(m, Capacity)
        /\ \A i \in 1 .. MinOf(m, Capacity) : c[i] = l[i]
    <3> HIDE DEF m, n
    <3>1. /\ c \in Seq(Entry) /\ Len(c) = MinOf(m, Len(l))
          /\ \A i \in 1 .. MinOf(m, Len(l)) : c[i] = l[i]
      BY <2>1, <2>7, FirstFacts
    <3>2. MinOf(m, Len(l)) = MinOf(m, Capacity)
      BY <2>7, <2>8
    <3>3. QED
      BY <3>1, <3>2
  <2>10. es = c
    <3>1. \A i \in 1 .. MinOf(m, Capacity) : es[i] = c[i]
      BY <2>1, <2>4, <2>9
    <3>2. c \in [1 .. MinOf(m, Capacity) -> Entry]
      BY <2>9, LenProperties
    <3>3. es = [i \in 1 .. MinOf(m, Capacity) |-> es[i]]
      BY DEF EntriesOf
    <3> HIDE DEF es, c, m
    <3>4. QED
      BY <3>1, <3>2, <3>3
  <2>11. ReportOf(s, newRing[s]) = Recent!ReportOf(es)
    BY DEF ReportOf, RequestsOf, Relevant, Recent!ReportOf, Recent!Relevant
  <2>12. QED
    BY <2>1, <2>2, <2>10, <2>11
<1>4. QED
  BY <1>2, <1>3

-----------------------------------------------------------------------------
(* Refinement of RecentRequests                                             *)

\* A thread that is about to record a request has a path to record.
PathInHand == \A t \in Threads : pc[t] \in {"find", "claim", "record"} => call[t].path \in Paths

LEMMA InitPathInHand == Init => PathInHand
BY DEF Init, PathInHand

LEMMA StepPathInHand == TypeOK /\ PathInHand /\ [Next]_vars => PathInHand'
<1> SUFFICES ASSUME TypeOK, PathInHand, [Next]_vars PROVE PathInHand'
  OBVIOUS
<1>1. ASSUME NEW t \in Threads, NEW path \in Paths, Demand(t, path) PROVE PathInHand'
  <2>1. /\ call'[t].path = path
        /\ \A u \in Threads : u # t => pc'[u] = pc[u] /\ call'[u] = call[u]
    BY <1>1 DEF Demand, TypeOK
  <2>2. QED
    BY <1>1, <2>1 DEF PathInHand
<1>2. ASSUME NEW t \in Threads, FindSlot(t) \/ SkipSlot(t) PROVE PathInHand'
  <2>1. pc[t] \in {"find", "claim"}
    BY <1>2 DEF FindSlot, SkipSlot
  <2>2. PICK s : call' = [call EXCEPT ![t].slot = s]
    BY <1>2 DEF FindSlot, SkipSlot
  <2>3. \A u \in Threads : call'[u].path = call[u].path
    <3>1. \A u \in Threads : call[u] \in Call
      BY DEF TypeOK
    <3>2. QED
      BY <2>2, <3>1 DEF TypeOK, Call
  <2>4. \A u \in Threads : u # t => pc'[u] = pc[u]
    BY <1>2 DEF FindSlot, SkipSlot, TypeOK
  <2>5. QED
    BY <2>1, <2>3, <2>4 DEF PathInHand
<1>3. ASSUME NEW t \in Threads,
             \/ DemandNoPath(t) \/ ClaimSlot(t) \/ DropRequest(t) \/ Record(t) \/ Return(t)
             \/ Throw(t) \/ Unwind(t) \/ Crash(t) \/ FaultInCopy(t)
      PROVE  PathInHand'
  <2>1. UNCHANGED call /\ \A u \in Threads : u # t => pc'[u] = pc[u]
    BY <1>3 DEF DemandNoPath, ClaimSlot, DropRequest, Record, Return, Throw, Unwind, Crash,
                FaultInCopy, TypeOK
  <2>2. pc'[t] \in {"find", "claim", "record"} => pc[t] \in {"find", "claim", "record"}
    BY <1>3 DEF DemandNoPath, ClaimSlot, DropRequest, Record, Return, Throw, Unwind, Crash,
                FaultInCopy, TypeOK
  <2>3. QED
    BY <2>1, <2>2 DEF PathInHand
<1>4. CASE Tick \/ UNCHANGED vars
  BY <1>4 DEF Tick, vars, slotVars, PathInHand
<1>5. QED
  BY <1>1, <1>2, <1>3, <1>4 DEF Next

\* The state of the list each thread sees.
Counts == [t \in Threads |-> RecordedOf(t)]
Logs == [t \in Threads |-> Remembered(t)]
CallNumbers == [t \in Threads |-> Numbers(stack[t])]
Crashed == {t \in Threads : pc[t] = "crashed"}

\* The refinement mapping, by these names.
LEMMA Mapped ==
  /\ Recent!vars = <<Counts, Logs, CallNumbers, now, Crashed, report>>
  /\ \A t \in Threads : Counts[t] = RecordedOf(t) /\ Logs[t] = Remembered(t)
                         /\ CallNumbers[t] = Numbers(stack[t])
BY DEF Recent!vars, Counts, Logs, CallNumbers, Crashed, Numbers

LEMMA InitRefines == Init => Recent!Init
<1> SUFFICES ASSUME Init PROVE Recent!Init
  OBVIOUS
<1>1. Viewed
  BY View, InitTypeOK, InitSlotInv
<1>2. \A t \in Threads : RecordedOf(t) = 0 /\ Remembered(t) = <<>>
  <2>1. \A t \in Threads, s \in Slots : owner[s] # t
    BY TrackerAssumption DEF Init
  <2>2. QED
    BY <1>1, <2>1 DEF Viewed
<1>3. \A t \in Threads : [k \in DOMAIN stack[t] |-> stack[t][k].seq] = <<>>
  <2> SUFFICES ASSUME NEW t \in Threads PROVE Numbers(stack[t]) = <<>>
    BY DEF Numbers
  <2>1. stack[t] = <<>> /\ stack[t] \in Seq(Frame) /\ Len(stack[t]) = 0
    BY EmptySeq DEF Init
  <2>2. Numbers(stack[t]) \in Seq(Nat) /\ Len(Numbers(stack[t])) = 0
    BY <2>1, NumbersFacts
  <2>3. QED
    BY <2>2, EmptySeq
<1>4. [t \in Threads |-> RecordedOf(t)] = [t \in Threads |-> 0]
  BY <1>2
<1>5. [t \in Threads |-> Remembered(t)] = [t \in Threads |-> <<>>]
  BY <1>2
<1>6. [t \in Threads |-> [k \in DOMAIN stack[t] |-> stack[t][k].seq]] = [t \in Threads |-> <<>>]
  BY <1>3
<1>7. {t \in Threads : pc[t] = "crashed"} = {}
  BY DEF Init
<1>8. now = 0 /\ report = [t \in Threads |-> [inFlight |-> FALSE, requests |-> <<>>, whole |-> TRUE]]
  BY DEF Init, NoReport
<1>9. QED
  BY <1>4, <1>5, <1>6, <1>7, <1>8 DEF Recent!Init

\* What a thread sees does not change while its slot does not.
LEMMA SameView ==
  ASSUME TypeOK, Viewed, Viewed', NEW u \in Threads,
         \A s \in Slots : owner'[s] = u <=> owner[s] = u,
         \A s \in Slots : owner[s] = u =>
           recorded'[s] = recorded[s] /\ \A i \in Indices : ring'[s][i] = ring[s][i]
  PROVE  RecordedOf(u)' = RecordedOf(u) /\ Remembered(u)' = Remembered(u)
<1>1. CASE \A s \in Slots : owner[s] # u
  BY <1>1 DEF Viewed
<1>2. ASSUME NEW s \in Slots, owner[s] = u
      PROVE  RecordedOf(u)' = RecordedOf(u) /\ Remembered(u)' = Remembered(u)
  <2>1. owner'[s] = u /\ recorded'[s] = recorded[s] /\ \A i \in Indices : ring'[s][i] = ring[s][i]
    BY <1>2
  <2>2. RecordedOf(u) = recorded[s] /\ Remembered(u) = [i \in Remembers(s) |-> EntryAt(s, i)]
    BY <1>2 DEF Viewed
  <2>3. RecordedOf(u)' = recorded'[s] /\ Remembered(u)' = [i \in Remembers(s)' |-> EntryAt(s, i)']
    BY <2>1 DEF Viewed
  <2>4. Remembers(s)' = Remembers(s)
    BY <2>1 DEF Remembers
  <2>5. \A i \in Remembers(s) : EntryAt(s, i)' = EntryAt(s, i)
    BY <2>1, PlaceFacts DEF EntryAt
  <2>6. QED
    BY <2>1, <2>2, <2>3, <2>4, <2>5
<1>3. QED
  BY <1>1, <1>2

\* When nothing a thread sees changes, the list is as it was.
LEMMA SameLists ==
  ASSUME \A u \in Threads : RecordedOf(u)' = RecordedOf(u) /\ Remembered(u)' = Remembered(u)
  PROVE  Counts' = Counts /\ Logs' = Logs
BY DEF Counts, Logs

\* A thread that finds no slot, searches for one, claims one or throws.
LEMMA HiddenSteps ==
  ASSUME TypeOK, SlotInv, RingInv, TypeOK', SlotInv', NEW t \in Threads,
         \/ \E path \in Paths : Demand(t, path)
         \/ FindSlot(t) \/ ClaimSlot(t) \/ SkipSlot(t) \/ Throw(t)
  PROVE  UNCHANGED Recent!vars
<1>1. UNCHANGED <<head, ring, recorded, stack, now, report>>
  BY DEF Demand, FindSlot, ClaimSlot, SkipSlot, Throw, slotVars
<1>2. Crashed' = Crashed
  BY DEF Crashed, Demand, FindSlot, ClaimSlot, SkipSlot, Throw, TypeOK
<1>3. Viewed /\ Viewed'
  BY View, ViewAfter
<1>4. ASSUME NEW u \in Threads
      PROVE  RecordedOf(u)' = RecordedOf(u) /\ Remembered(u)' = Remembered(u)
  <2>1. CASE owner' = owner
    BY <1>1, <1>3, <2>1, SameView
  <2>2. CASE ClaimSlot(t) /\ u # t
    <3>1. \A s \in Slots : owner'[s] = u <=> owner[s] = u
      BY <2>2, TrackerAssumption DEF ClaimSlot, TypeOK
    <3>2. QED
      BY <1>1, <1>3, <3>1, SameView
  <2>3. CASE ClaimSlot(t) /\ u = t
    <3>1. PICK s \in Slots : owner'[s] = t /\ owner[s] = NoThread
      BY <2>3 DEF ClaimSlot, TypeOK
    <3>2. \A r \in Slots : owner[r] # t
      BY <2>3 DEF ClaimSlot, SlotInv, DropOnlyWhenFull
    <3>3. recorded'[s] = 0
      BY <1>1, <3>1 DEF RingInv, HeadsRight
    <3>4. RecordedOf(t) = 0 /\ Remembered(t) = <<>>
      BY <1>3, <3>2 DEF Viewed
    <3>5. /\ RecordedOf(t)' = 0
          /\ Remembered(t)' \in Seq(Entry) /\ Len(Remembered(t)') = MinOf(0, Capacity)
      BY <1>3, <3>1, <3>3 DEF Viewed
    <3>6. MinOf(0, Capacity) = 0
      BY TrackerAssumption DEF MinOf
    <3>7. Remembered(t)' = <<>>
      BY <3>5, <3>6, EmptySeq
    <3>8. QED
      BY <2>3, <3>4, <3>5, <3>7
  <2>4. owner' = owner \/ ClaimSlot(t)
    BY DEF Demand, FindSlot, SkipSlot, Throw, slotVars
  <2>5. QED
    BY <2>1, <2>2, <2>3, <2>4
<1>5. Counts' = Counts /\ Logs' = Logs
  BY <1>4, SameLists
<1>6. CallNumbers' = CallNumbers
  BY <1>1 DEF CallNumbers
<1>7. Recent!vars = <<Counts, Logs, CallNumbers, now, Crashed, report>>
  BY Mapped
<1>8. Recent!vars' = <<Counts', Logs', CallNumbers', now', Crashed', report'>>
  BY DEF Recent!vars, Counts, Logs, CallNumbers, Crashed, Numbers
<1>9. QED
  BY <1>1, <1>2, <1>5, <1>6, <1>7, <1>8

\* A request that is not tracked is ignored.
LEMMA IgnoreSteps ==
  ASSUME TypeOK, SlotInv, RingInv, TypeOK', SlotInv', NEW t \in Threads,
         DemandNoPath(t) \/ DropRequest(t)
  PROVE  Recent!Ignore(t)
<1>1. PICK f \in Frame : f.seq = 0 /\ stack' = [stack EXCEPT ![t] = Append(stack[t], f)]
  <2>1. CASE DemandNoPath(t)
    <3>1. Untracked(NoPath) \in Frame /\ Untracked(NoPath).seq = 0
      BY TrackerAssumption DEF Untracked, Frame, Indices
    <3>2. stack' = [stack EXCEPT ![t] = Append(stack[t], Untracked(NoPath))]
      BY <2>1 DEF DemandNoPath
    <3>3. QED
      BY <3>1, <3>2
  <2>2. CASE DropRequest(t)
    <3>1. Untracked(call[t].path) \in Frame /\ Untracked(call[t].path).seq = 0
      BY TrackerAssumption DEF Untracked, Frame, Indices, TypeOK, Call
    <3>2. stack' = [stack EXCEPT ![t] = Append(stack[t], Untracked(call[t].path))]
      BY <2>2 DEF DropRequest
    <3>3. QED
      BY <3>1, <3>2
  <2>3. QED
    BY <2>1, <2>2
<1>2. UNCHANGED <<owner, ring, recorded, now, report>>
  BY DEF DemandNoPath, DropRequest, slotVars
<1>3. Crashed' = Crashed /\ t \notin Crashed
  BY DEF Crashed, DemandNoPath, DropRequest, TypeOK
<1>4. Counts' = Counts /\ Logs' = Logs
  BY <1>2, View, ViewAfter, SameView, SameLists
<1>5. CallNumbers' = [CallNumbers EXCEPT ![t] = Append(CallNumbers[t], 0)]
  <2>1. stack'[t] = Append(stack[t], f) /\ \A u \in Threads : u # t => stack'[u] = stack[u]
    BY <1>1 DEF TypeOK
  <2>2. Numbers(stack'[t]) = Append(Numbers(stack[t]), 0)
    BY <1>1, <2>1, NumbersPush DEF TypeOK
  <2>3. QED
    BY <2>1, <2>2 DEF CallNumbers
<1>6. QED
  BY <1>2, <1>3, <1>4, <1>5
  DEF Recent!Ignore, Counts, Logs, CallNumbers, Crashed, Numbers

\* A request that is recorded is noted, at the head of the list.
LEMMA NoteStep ==
  ASSUME TypeOK, SlotInv, RingInv, PathInHand, TypeOK', SlotInv', NEW t \in Threads, Record(t)
  PROVE  \E path \in Paths : Recent!Note(t, path)
<1>1. PICK s \in Slots : s = call[t].slot
  BY DEF Record, TypeOK
<1> DEFINE n == recorded[s]
           e == NewEntry(t)
           f == NewFrame(t)
           l == Remembered(t)
           c == <<e>> \o l
           new == Recent!First(Capacity, c)
<1>2. /\ owner[s] = t
      /\ n \in Nat
      /\ e \in Entry /\ f \in Frame
      /\ recorded' = [recorded EXCEPT ![s] = n + 1]
      /\ \A r \in Slots, j \in Indices : ~(r = s /\ j = IndexOf(n)) => ring'[r][j] = ring[r][j]
      /\ stack' = [stack EXCEPT ![t] = Append(stack[t], f)]
      /\ UNCHANGED <<owner, now, report>>
  BY <1>1, RecordFacts
<1>3. Viewed /\ Viewed' /\ Capacity \in Nat \ {0}
  BY View, ViewAfter, TrackerAssumption
<1>4. call[t].path \in Paths /\ t \notin Crashed /\ Crashed' = Crashed
  BY DEF Record, PathInHand, Crashed, TypeOK
<1>5. recorded'[s] = n + 1 /\ \A r \in Slots : r # s => recorded'[r] = recorded[r]
  BY <1>2 DEF TypeOK
<1>6. /\ RecordedOf(t) = n /\ RecordedOf(t)' = n + 1
      /\ l \in Seq(Entry) /\ Len(l) = MinOf(n, Capacity)
      /\ Remembered(t)' \in Seq(Entry) /\ Len(Remembered(t)') = MinOf(n + 1, Capacity)
      /\ l = [i \in Remembers(s) |-> EntryAt(s, i)]
      /\ Remembered(t)' = [i \in Remembers(s)' |-> EntryAt(s, i)']
  BY <1>2, <1>3, <1>5 DEF Viewed
<1>7. Remembered(t)' = new
  <2> HIDE DEF l, e, n
  <2>1. <<e>> \in Seq(Entry) /\ Len(<<e>>) = 1 /\ <<e>>[1] = e
    BY <1>2
  <2>2. /\ c \in Seq(Entry) /\ Len(c) = 1 + Len(l)
        /\ \A i \in 1 .. 1 + Len(l) : c[i] = IF i <= 1 THEN <<e>>[i] ELSE l[i - 1]
    BY <1>6, <2>1, ConcatProperties
  <2> HIDE DEF c
  <2>3. /\ new \in Seq(Entry) /\ Len(new) = MinOf(Capacity, Len(c))
        /\ \A i \in 1 .. MinOf(Capacity, Len(c)) : new[i] = c[i]
    BY <1>3, <2>2, FirstFacts
  <2> HIDE DEF new
  <2>4. Len(c) = 1 + MinOf(n, Capacity) /\ MinOf(Capacity, Len(c)) = MinOf(n + 1, Capacity)
    BY <1>2, <1>3, <1>6, <2>2 DEF MinOf
  <2>5. /\ Remembers(s)' = 1 .. MinOf(n + 1, Capacity)
        /\ EntryAt(s, 1)' = e
        /\ \A i \in Remembers(s)' : i # 1 => i - 1 \in Remembers(s) /\ EntryAt(s, i)' = EntryAt(s, i - 1)
    BY <1>1, RecordMoves DEF e, n
  <2>6. ASSUME NEW i \in 1 .. MinOf(n + 1, Capacity) PROVE Remembered(t)'[i] = new[i]
    <3>1. new[i] = c[i] /\ i \in 1 .. 1 + Len(l) /\ i \in Remembers(s)'
      <4>1. MinOf(n + 1, Capacity) <= 1 + MinOf(n, Capacity)
        BY <1>2, <1>3 DEF MinOf
      <4>2. MinOf(n + 1, Capacity) \in Nat /\ MinOf(n, Capacity) \in Nat
        BY <1>2, <1>3 DEF MinOf
      <4>3. QED
        BY <1>6, <2>3, <2>4, <2>5, <2>6, <4>1, <4>2
    <3>2. Remembered(t)'[i] = EntryAt(s, i)'
      BY <1>6, <3>1
    <3>3. CASE i = 1
      BY <2>1, <2>2, <2>5, <3>1, <3>2, <3>3
    <3>4. CASE i # 1
      <4>1. i - 1 \in Remembers(s) /\ EntryAt(s, i)' = EntryAt(s, i - 1)
        BY <2>5, <3>1, <3>4
      <4>2. l[i - 1] = EntryAt(s, i - 1)
        BY <1>6, <4>1
      <4>3. ~(i <= 1)
        BY <3>1, <3>4
      <4>4. c[i] = l[i - 1]
        BY <2>2, <3>1, <4>3
      <4>5. QED
        BY <3>1, <3>2, <4>1, <4>2, <4>4
    <3>5. QED
      BY <3>3, <3>4
  <2>7. QED
    BY <1>6, <2>3, <2>4, <2>6, SeqEqual
<1>8. ASSUME NEW u \in Threads, u # t
      PROVE  RecordedOf(u)' = RecordedOf(u) /\ Remembered(u)' = Remembered(u)
  <2>1. \A r \in Slots : owner[r] = u =>
          recorded'[r] = recorded[r] /\ \A i \in Indices : ring'[r][i] = ring[r][i]
    BY <1>2, <1>5, <1>8
  <2>2. QED
    BY <1>2, <1>3, <2>1, SameView
<1>9. Counts' = [Counts EXCEPT ![t] = Counts[t] + 1]
  BY <1>6, <1>8 DEF Counts
<1>10. Logs' = [Logs EXCEPT ![t] = Recent!First(Capacity, <<NewEntry(t)>> \o Logs[t])]
  BY <1>7, <1>8 DEF Logs
<1>11. CallNumbers' = [CallNumbers EXCEPT ![t] = Append(CallNumbers[t], Counts[t] + 1)]
  <2>1. stack'[t] = Append(stack[t], f) /\ \A u \in Threads : u # t => stack'[u] = stack[u]
    BY <1>2 DEF TypeOK
  <2>2. f.seq = n + 1
    BY <1>1 DEF NewFrame
  <2>3. Numbers(stack'[t]) = Append(Numbers(stack[t]), n + 1)
    BY <1>2, <2>1, <2>2, NumbersPush DEF TypeOK
  <2>4. QED
    BY <1>6, <2>1, <2>3 DEF CallNumbers, Counts
<1>12. UNCHANGED <<now, report>>
  BY <1>2
<1>13. PICK path \in Paths : path = call[t].path
  BY <1>4
<1>14. Recent!Note(t, path)
  BY <1>4, <1>13, <1>9, <1>10, <1>11, <1>12
  DEF Recent!Note, Counts, Logs, CallNumbers, Crashed, Numbers, NewEntry
<1>15. QED
  BY <1>14

\* A call that leaves takes its own mark along, if its request is still in the
\* list, and no other.
LEMMA LeaveSteps ==
  ASSUME TypeOK, SlotInv, RingInv, TypeOK', SlotInv', NEW t \in Threads, Return(t) \/ Unwind(t)
  PROVE  Recent!Leave(t)
<1>1. stack[t] # <<>> /\ pc[t] # "crashed"
  BY DEF Return, Unwind, TypeOK
<1>2. /\ stack' = [stack EXCEPT ![t] = Pop(t)]
      /\ ring' = GuardReleased(t)
      /\ UNCHANGED <<owner, head, recorded, now, report>>
  BY DEF Return, Unwind
<1>3. Viewed /\ Viewed' /\ Capacity \in Nat \ {0}
  BY View, ViewAfter, TrackerAssumption
<1>4. t \notin Crashed /\ Crashed' = Crashed
  BY <1>1 DEF Crashed, Return, Unwind, TypeOK
<1>5. CallNumbers' = [CallNumbers EXCEPT ![t] = SubSeq(CallNumbers[t], 1, Len(CallNumbers[t]) - 1)]
  <2>1. stack'[t] = Pop(t) /\ \A u \in Threads : u # t => stack'[u] = stack[u]
    BY <1>2 DEF TypeOK
  <2>2. Numbers(Pop(t)) = SubSeq(Numbers(stack[t]), 1, Len(Numbers(stack[t])) - 1)
    BY <1>1, NumbersPop DEF Pop, TypeOK
  <2>3. QED
    BY <2>1, <2>2 DEF CallNumbers
<1> DEFINE number == CallNumbers[t][Len(CallNumbers[t])]
           place == Counts[t] + 1 - number
<1>6. CallNumbers[t] # <<>> /\ number = Top(t).seq /\ Top(t) \in Frame
  <2> DEFINE q == stack[t]
  <2>1. q \in Seq(Frame) /\ Len(q) \in Nat \ {0} /\ Top(t) \in Frame
    BY <1>1, TopFacts, EmptySeq
  <2>2. /\ Numbers(q) \in Seq(Nat) /\ Len(Numbers(q)) = Len(q)
        /\ \A k \in 1 .. Len(q) : Numbers(q)[k] = q[k].seq
    BY <2>1, NumbersFacts
  <2>3. Numbers(q)[Len(q)] = Top(t).seq
    BY <2>1, <2>2 DEF Top
  <2>4. Numbers(q) # <<>>
    BY <2>1, <2>2, EmptySeq
  <2>5. QED
    BY <2>1, <2>2, <2>3, <2>4 DEF CallNumbers
<1>7. ASSUME NEW u \in Threads
      PROVE  RecordedOf(u)' = RecordedOf(u)
  <2>1. CASE \A s \in Slots : owner[s] # u
    BY <1>2, <1>3, <2>1 DEF Viewed
  <2>2. ASSUME NEW s \in Slots, owner[s] = u PROVE RecordedOf(u)' = RecordedOf(u)
    BY <1>2, <1>3, <2>2 DEF Viewed
  <2>3. QED
    BY <2>1, <2>2
<1>8. Counts' = Counts
  BY <1>7 DEF Counts
<1>9. Logs' = IF number # 0 /\ place <= Len(Logs[t])
                THEN [Logs EXCEPT ![t] = [Logs[t] EXCEPT ![place] = [Logs[t][place] EXCEPT !.active = FALSE]]]
                ELSE Logs
  <2>1. CASE Top(t).slot = 0
    <3>1. Len(stack[t]) \in DOMAIN stack[t] /\ stack[t][Len(stack[t])] = Top(t)
      BY <1>1, TopFacts DEF Top
    <3>2. number = 0
      BY <1>6, <2>1, <3>1 DEF RingInv, FramesRight
    <3>3. ring' = ring
      BY <1>2, <2>1 DEF GuardReleased
    <3>4. Logs' = Logs
      BY <1>2, <1>3, <3>3, SameView DEF Logs
    <3>5. QED
      BY <3>2, <3>4
  <2>2. CASE Top(t).slot # 0
    <3>0. PICK s \in Slots : s = Top(t).slot
      BY <1>6, <2>2, TrackerAssumption DEF Frame, Slots
    <3> DEFINE m == Top(t).seq
               n == recorded[s]
               b == Top(t).index
               l == Remembered(t)
    <3>1. Len(stack[t]) \in Tracked(t) /\ stack[t][Len(stack[t])] = Top(t)
      BY <1>1, <2>2, TopIsLatest
    <3>2. /\ s \in Slots /\ b \in Indices /\ owner[s] = t /\ n \in Nat
          /\ m \in Nat \ {0} /\ m <= n /\ b = IndexOf(m - 1)
      BY <3>0, <3>1, FrameFacts
    <3>3. \A r \in Slots, i \in Indices : ~(r = s /\ i = b) => ring'[r][i] = ring[r][i]
      BY <1>1, <1>2, <3>0, GuardEntry
    <3>4. ring'[s][b] = [ring[s][b] EXCEPT !.active = FALSE]
      <4>1. ring' = [ring EXCEPT ![s] = [ring[s] EXCEPT ![b] = [ring[s][b] EXCEPT !.active = FALSE]]]
        BY <1>2, <2>2, <3>0 DEF GuardReleased
      <4>2. QED
        BY <3>2, <4>1 DEF TypeOK
    <3>5. /\ RecordedOf(t) = n
          /\ l = [i \in Remembers(s) |-> EntryAt(s, i)]
          /\ l \in Seq(Entry) /\ Len(l) = MinOf(n, Capacity)
      BY <1>3, <3>2 DEF Viewed
    <3>6. Remembered(t)' = [i \in Remembers(s)' |-> EntryAt(s, i)']
      BY <1>2, <1>3, <3>2 DEF Viewed
    <3>7. Remembers(s)' = Remembers(s)
      BY <1>2 DEF Remembers
    <3>8. Counts[t] = n /\ Logs[t] = l /\ number = m
      BY <1>6, <3>5 DEF Counts, Logs
    <3>9. \A i \in Remembers(s) : EntryAt(s, i)' = ring'[s][IndexOf(n - i)] /\ EntryAt(s, i) = ring[s][IndexOf(n - i)]
      BY <1>2 DEF EntryAt
    <3>10. \A u \in Threads : u # t => Remembered(u)' = Remembered(u)
      <4> SUFFICES ASSUME NEW u \in Threads, u # t PROVE Remembered(u)' = Remembered(u)
        OBVIOUS
      <4>1. \A r \in Slots : owner[r] = u =>
              recorded'[r] = recorded[r] /\ \A i \in Indices : ring'[r][i] = ring[r][i]
        BY <1>2, <3>2, <3>3
      <4>2. QED
        BY <1>2, <1>3, <4>1, SameView
    <3> HIDE DEF m, n, b, l, number
    <3>11. place = n + 1 - m /\ place \in Nat \ {0} /\ place <= n /\ n - place = m - 1
      BY <3>2, <3>8
    <3>20. PICK d : d = place
      OBVIOUS
    <3>12. \A i \in Remembers(s) : i \in Nat \ {0} /\ i <= n /\ i <= Capacity /\ IndexOf(n - i) \in Indices
      BY <3>2, PlaceFacts DEF n
    <3> HIDE DEF place
    <3>13. CASE place <= Len(l)
      <4>1. d \in Remembers(s)
        BY <1>3, <3>2, <3>5, <3>11, <3>13, <3>20 DEF Remembers, MinOf, n
      <4>2. EntryAt(s, d)' = [EntryAt(s, d) EXCEPT !.active = FALSE]
        <5>1. n - d = m - 1
          BY <3>11, <3>20
        <5>2. EntryAt(s, d)' = ring'[s][b] /\ EntryAt(s, d) = ring[s][b]
          BY <3>2, <3>9, <4>1, <5>1
        <5>3. QED
          BY <3>4, <5>2
      <4>3. ASSUME NEW i \in Remembers(s), i # d PROVE EntryAt(s, i)' = EntryAt(s, i)
        <5>1. /\ i \in Nat \ {0} /\ i <= n /\ i <= Capacity /\ IndexOf(n - i) \in Indices
              /\ d <= Capacity
          BY <3>12, <4>1
        <5>2. n - i \in Nat /\ n - d \in Nat
          BY <3>2, <3>11, <3>20, <5>1
        <5>3. IndexOf(n - i) # IndexOf(n - d)
          <6>1. CASE i < d
            <7>1. n - d < n - i /\ (n - i) - (n - d) < Capacity
              BY <1>3, <3>2, <3>11, <3>20, <5>1, <6>1
            <7>2. QED
              BY <1>3, <5>2, <7>1, IndexFacts
          <6>2. CASE i > d
            <7>1. n - i < n - d /\ (n - d) - (n - i) < Capacity
              BY <1>3, <3>2, <3>11, <3>20, <5>1, <6>2
            <7>2. QED
              BY <1>3, <5>2, <7>1, IndexFacts
          <6>3. QED
            BY <3>11, <3>20, <4>3, <5>1, <6>1, <6>2
        <5>4. IndexOf(n - i) # b
          BY <3>2, <3>11, <3>20, <5>3
        <5>5. ring'[s][IndexOf(n - i)] = ring[s][IndexOf(n - i)]
          BY <3>2, <3>3, <5>1, <5>4
        <5>6. QED
          BY <3>9, <5>5
      <4>4. Remembered(t)' = [l EXCEPT ![place] = [l[place] EXCEPT !.active = FALSE]]
        BY <3>5, <3>6, <3>7, <3>20, <4>1, <4>2, <4>3
      <4>5. number # 0 /\ place <= Len(Logs[t])
        BY <3>2, <3>8, <3>13
      <4>6. Logs' = [Logs EXCEPT ![t] = [l EXCEPT ![place] = [l[place] EXCEPT !.active = FALSE]]]
        BY <3>10, <4>4 DEF Logs
      <4>7. QED
        BY <3>8, <4>5, <4>6
    <3>14. CASE ~(place <= Len(l))
      <4>1. n - m >= Capacity
        BY <1>3, <3>2, <3>5, <3>11, <3>14 DEF MinOf
      <4>2. ~ring[s][b].active
        <5>1. ASSUME ring[s][b].active PROVE FALSE
          <6>1. PICK u \in Threads : \E k \in Tracked(u) :
                  /\ stack[u][k].slot = s /\ stack[u][k].index = b
                  /\ recorded[s] - stack[u][k].seq < Capacity
            BY <3>2, <5>1 DEF RingInv, ActiveIsNewest
          <6>2. PICK k \in Tracked(u) : /\ stack[u][k].slot = s
                                        /\ recorded[s] - stack[u][k].seq < Capacity
            BY <6>1
          <6>3. u = t
            BY <3>2, <6>2, FrameFacts
          <6>4. stack[t][k].seq <= m /\ stack[t][k].seq \in Nat
            <7>1. stack[t][k].seq < m \/ stack[t][k] = Top(t)
              BY <1>1, <2>2, <3>1, <6>2, <6>3, TopIsLatest DEF m
            <7>2. stack[t][k].seq \in Nat
              BY <6>2, <6>3, FrameFacts
            <7>3. QED
              BY <3>2, <7>1, <7>2 DEF m
          <6>5. n - stack[t][k].seq < Capacity
            BY <6>2, <6>3 DEF n
          <6>6. QED
            BY <1>3, <3>2, <4>1, <6>4, <6>5
        <5>2. QED
          BY <5>1
      <4>3. ring'[s][b] = ring[s][b]
        <5>1. ring[s][b] \in Entry
          BY <3>2 DEF TypeOK
        <5>2. ring[s][b].active = FALSE
          BY <4>2, <5>1 DEF Entry
        <5>3. QED
          BY <3>4, <5>1, <5>2 DEF Entry
      <4>4. \A r \in Slots, i \in Indices : ring'[r][i] = ring[r][i]
        BY <3>3, <4>3
      <4>5. Remembered(t)' = Remembered(t)
        BY <1>2, <1>3, <4>4, SameView
      <4>6. Logs' = Logs
        BY <3>10, <4>5 DEF Logs
      <4>7. QED
        BY <3>8, <3>14, <4>6
    <3>15. QED
      BY <3>13, <3>14
  <2>3. QED
    BY <2>1, <2>2
<1>10. UNCHANGED <<now, report>>
  BY <1>2
<1>11. QED
  BY <1>4, <1>5, <1>6, <1>8, <1>9, <1>10
  DEF Recent!Leave, Counts, Logs, CallNumbers, Crashed, Numbers

\* The ways in which a report may be cut short are those that are promised.
LEMMA ToldIsCut ==
  ASSUME NEW t \in Threads, NEW newRing PROVE Told(t, newRing) \subseteq Recent!Cut(CrashReport(t, newRing))
BY DEF Told, Recent!Cut

\* A thread that crashes outside a copy is told what the list says of it.
LEMMA CrashStep ==
  ASSUME TypeOK, SlotInv, RingInv, TypeOK', SlotInv', NEW t \in Threads, Crash(t)
  PROVE  Recent!Report(t)
<1>1. UNCHANGED <<owner, head, ring, recorded, stack, now>>
  BY DEF Crash, slotVars
<1>2. Viewed /\ Viewed'
  BY View, ViewAfter
<1>3. t \notin Crashed /\ Crashed' = Crashed \cup {t}
  BY DEF Crash, Crashed, TypeOK
<1>4. Counts' = Counts /\ Logs' = Logs
  BY <1>1, <1>2, SameView, SameLists
<1>5. CallNumbers' = CallNumbers
  BY <1>1 DEF CallNumbers
<1>6. CrashReport(t, ring) = Recent!ReportOf(Recent!First(RecordedOf(t) % HeadMod, Remembered(t)))
  <2>1. ASSUME NEW s \in Slots, owner[s] = t
        PROVE  /\ Remembered(t) = [i \in Remembers(s) |-> ring[s][IndexOf(recorded[s] - i)]]
               /\ \A i \in Indices : ring[s][i] \in Entry
    BY <1>2, <2>1 DEF Viewed, EntryAt, TypeOK
  <2>2. (\A s \in Slots : owner[s] # t) => Remembered(t) = <<>>
    BY <1>2 DEF Viewed
  <2>3. QED
    BY <2>1, <2>2, SameReports
<1>7. \E r \in Recent!Cut(Recent!ReportOf(Recent!First(Counts[t] % HeadMod, Logs[t]))) :
        report' = [report EXCEPT ![t] = r]
  <2>1. CrashReport(t, ring) = Recent!ReportOf(Recent!First(Counts[t] % HeadMod, Logs[t]))
    BY <1>6 DEF Counts, Logs
  <2>2. PICK r \in Told(t, ring) : report' = [report EXCEPT ![t] = r]
    BY DEF Crash
  <2>3. QED
    BY <2>1, <2>2, ToldIsCut
<1>8. QED
  BY <1>1, <1>3, <1>4, <1>5, <1>7
  DEF Recent!Report, Recent!Crash, Counts, Logs, CallNumbers, Crashed, Numbers

\* The entry a copy faults in is the oldest that the ring remembers, or none of
\* these while the ring is not full.
LEMMA TornEntry ==
  ASSUME TypeOK, SlotInv, RingInv, NEW t \in Threads, FaultInCopy(t),
         NEW s \in Slots, s = call[t].slot
  PROVE  /\ owner[s] = t
         /\ \A r \in Slots, i \in Indices : r # s => ring'[r][i] = ring[r][i]
         /\ \A i \in Remembers(s) : i # Capacity => EntryAt(s, i)' = EntryAt(s, i)
         /\ Capacity \in Remembers(s) =>
              EntryAt(s, Capacity)' = [EntryAt(s, Capacity) EXCEPT !.path = Torn]
<1> DEFINE n == recorded[s]
           m == head[s]
<1>1. owner[s] = t
  BY DEF FaultInCopy, SlotInv, WritesOwnSlotOnly
<1>2. /\ n \in Nat /\ m \in Nat /\ m = n % HeadMod
      /\ Capacity \in Nat \ {0}
  BY TrackerAssumption DEF TypeOK, RingInv, HeadsRight
<1>3. RecordIndex(s) = IndexOf(n)
  <2> HIDE DEF n, m
  <2>1. 0 \in Nat /\ 0 <= m /\ m - 0 = m /\ n - 0 = n
    BY <1>2
  <2>2. (m - 0) % Capacity = IndexOf(n - 0)
    BY <1>2, <2>1, IndexFacts
  <2>3. QED
    BY <2>1, <2>2 DEF RecordIndex, m
<1>4. \A r \in Slots, i \in Indices :
        ring'[r][i] = IF r = s /\ i = IndexOf(n)
                        THEN [ring[r][i] EXCEPT !.path = Torn] ELSE ring[r][i]
  BY <1>3, FaultFacts
<1>5. UNCHANGED recorded
  BY DEF FaultInCopy
<1>6. \A i \in Remembers(s) : EntryAt(s, i)' = ring'[s][IndexOf(n - i)] /\ EntryAt(s, i) = ring[s][IndexOf(n - i)]
  BY <1>5 DEF EntryAt
<1>7. \A i \in Remembers(s) : /\ i \in Nat \ {0} /\ i <= n /\ i <= Capacity
                              /\ n - i \in Nat /\ IndexOf(n - i) \in Indices
  BY PlaceFacts
<1> HIDE DEF n, m
<1>8. ASSUME NEW i \in Remembers(s), i # Capacity PROVE EntryAt(s, i)' = EntryAt(s, i)
  <2>1. n - i < n /\ n - (n - i) < Capacity
    BY <1>2, <1>7, <1>8
  <2>2. IndexOf(n - i) # IndexOf(n)
    BY <1>2, <1>7, <2>1, IndexFacts
  <2>3. ring'[s][IndexOf(n - i)] = ring[s][IndexOf(n - i)]
    BY <1>4, <1>7, <2>2
  <2>4. QED
    BY <1>6, <2>3
<1>9. ASSUME Capacity \in Remembers(s)
      PROVE  EntryAt(s, Capacity)' = [EntryAt(s, Capacity) EXCEPT !.path = Torn]
  <2>1. n - Capacity \in Nat /\ IndexOf(n - Capacity) \in Indices /\ (n - Capacity) + Capacity = n
    BY <1>2, <1>7, <1>9
  <2>2. IndexOf(n - Capacity) = IndexOf(n)
    BY <2>1, IndexFacts
  <2>3. QED
    BY <1>4, <1>6, <1>9, <2>1, <2>2
<1>10. QED
  BY <1>1, <1>4, <1>8, <1>9

\* A thread that crashes in a copy is told the list with its oldest entry torn.
LEMMA TornStep ==
  ASSUME TypeOK, SlotInv, RingInv, TypeOK', SlotInv', NEW t \in Threads, FaultInCopy(t)
  PROVE  Recent!ReportTorn(t)
<1>1. PICK s \in Slots : s = call[t].slot
  BY DEF FaultInCopy, TypeOK
<1> DEFINE n == recorded[s]
           l == Remembered(t)
<1>2. UNCHANGED <<owner, head, recorded, stack, now>>
  BY DEF FaultInCopy
<1>3. Viewed /\ Viewed' /\ Capacity \in Nat \ {0}
  BY View, ViewAfter, TrackerAssumption
<1>4. t \notin Crashed /\ Crashed' = Crashed \cup {t}
  BY DEF FaultInCopy, Crashed, TypeOK
<1>5. /\ owner[s] = t
      /\ \A r \in Slots, i \in Indices : r # s => ring'[r][i] = ring[r][i]
      /\ \A i \in Remembers(s) : i # Capacity => EntryAt(s, i)' = EntryAt(s, i)
      /\ Capacity \in Remembers(s) =>
           EntryAt(s, Capacity)' = [EntryAt(s, Capacity) EXCEPT !.path = Torn]
  BY <1>1, TornEntry
<1>6. /\ n \in Nat /\ l \in Seq(Entry) /\ Len(l) = MinOf(n, Capacity)
      /\ l = [i \in Remembers(s) |-> EntryAt(s, i)]
      /\ Remembered(t)' = [i \in Remembers(s)' |-> EntryAt(s, i)']
      /\ Remembers(s)' = Remembers(s)
  BY <1>2, <1>3, <1>5 DEF Viewed, Remembers, TypeOK
<1>7. ASSUME NEW u \in Threads
      PROVE  RecordedOf(u)' = RecordedOf(u)
  <2>1. CASE \A r \in Slots : owner[r] # u
    BY <1>2, <1>3, <2>1 DEF Viewed
  <2>2. ASSUME NEW r \in Slots, owner[r] = u PROVE RecordedOf(u)' = RecordedOf(u)
    BY <1>2, <1>3, <2>2 DEF Viewed
  <2>3. QED
    BY <2>1, <2>2
<1>8. Counts' = Counts
  BY <1>7 DEF Counts
<1>9. ASSUME NEW u \in Threads, u # t PROVE Remembered(u)' = Remembered(u)
  <2>1. \A r \in Slots : owner[r] = u =>
          recorded'[r] = recorded[r] /\ \A i \in Indices : ring'[r][i] = ring[r][i]
    BY <1>2, <1>5, <1>9
  <2>2. QED
    BY <1>2, <1>3, <2>1, SameView
<1>10. CallNumbers' = CallNumbers
  BY <1>2 DEF CallNumbers
<1>11. Logs' = IF Len(Logs[t]) = Capacity
                 THEN [Logs EXCEPT ![t] = [Logs[t] EXCEPT ![Capacity] = [Logs[t][Capacity] EXCEPT !.path = Torn]]]
                 ELSE Logs
  <2>1. Logs[t] = l
    BY DEF Logs
  <2>2. Len(l) = Capacity <=> Capacity \in Remembers(s)
    BY <1>3, <1>6 DEF Remembers, MinOf
  <2>3. CASE Capacity \in Remembers(s)
    <3>1. Remembered(t)' = [l EXCEPT ![Capacity] = [l[Capacity] EXCEPT !.path = Torn]]
      <4>1. l[Capacity] = EntryAt(s, Capacity)
        BY <1>6, <2>3
      <4>2. \A i \in Remembers(s) :
              EntryAt(s, i)' = IF i = Capacity THEN [l[Capacity] EXCEPT !.path = Torn] ELSE EntryAt(s, i)
        BY <1>5, <2>3, <4>1
      <4> HIDE DEF l
      <4>3. QED
        BY <1>6, <2>3, <4>2
    <3>2. Logs' = [Logs EXCEPT ![t] = [l EXCEPT ![Capacity] = [l[Capacity] EXCEPT !.path = Torn]]]
      BY <1>9, <3>1 DEF Logs
    <3>3. QED
      BY <2>1, <2>2, <2>3, <3>2
  <2>4. CASE Capacity \notin Remembers(s)
    <3>1. Remembered(t)' = l
      BY <1>5, <1>6, <2>4
    <3>2. Logs' = Logs
      BY <1>9, <3>1 DEF Logs
    <3>3. QED
      BY <2>1, <2>2, <2>4, <3>2
  <2>5. QED
    BY <2>3, <2>4
<1>12. PICK new : new = Remembered(t)'
  OBVIOUS
<1>13. CrashReport(t, ring') = Recent!ReportOf(Recent!First(RecordedOf(t) % HeadMod, new))
  <2>1. PICK newRing : newRing = ring'
    OBVIOUS
  <2>2. ASSUME NEW r \in Slots, owner[r] = t
        PROVE  /\ new = [i \in Remembers(r) |-> newRing[r][IndexOf(recorded[r] - i)]]
               /\ \A i \in Indices : newRing[r][i] \in Entry
    <3>1. r = s
      BY <1>5, <2>2, TrackerAssumption DEF SlotInv, OneSlotPerThread
    <3>2. \A i \in Remembers(s) : EntryAt(s, i)' = ring'[s][IndexOf(recorded[s] - i)]
      BY <1>2 DEF EntryAt
    <3>3. \A i \in Indices : ring'[r][i] \in Entry
      BY DEF TypeOK
    <3>4. QED
      BY <1>6, <1>12, <2>1, <3>1, <3>2, <3>3
  <2>3. ~ \A r \in Slots : owner[r] # t
    BY <1>5
  <2>4. CrashReport(t, newRing) = Recent!ReportOf(Recent!First(RecordedOf(t) % HeadMod, new))
    BY <2>2, <2>3, SameReports
  <2>5. QED
    BY <2>1, <2>4
<1>14. \E r \in Recent!Cut(Recent!ReportOf(Recent!First(Counts[t] % HeadMod, Logs'[t]))) :
         report' = [report EXCEPT ![t] = r]
  <2>1. Logs'[t] = new /\ Counts[t] = RecordedOf(t)
    BY <1>12 DEF Logs, Counts
  <2>2. PICK r \in Told(t, ring') : report' = [report EXCEPT ![t] = r]
    BY DEF FaultInCopy
  <2>3. CrashReport(t, ring') = Recent!ReportOf(Recent!First(Counts[t] % HeadMod, Logs'[t]))
    BY <1>13, <2>1
  <2>4. r \in Recent!Cut(CrashReport(t, ring'))
    BY <2>2, ToldIsCut
  <2>5. QED
    BY <2>2, <2>3, <2>4
<1>15. now' = now
  BY <1>2
<1>16. QED
  BY <1>4, <1>8, <1>10, <1>11, <1>14, <1>15
  DEF Recent!ReportTorn, Recent!Crash, Counts, Logs, CallNumbers, Crashed, Numbers

\* Every step of the tracker is one of the list, or none.
LEMMA StepRefines ==
  ASSUME TypeOK, SlotInv, RingInv, PathInHand, TypeOK', SlotInv', [Next]_vars
  PROVE  [Recent!Next]_(Recent!vars)
<1>1. ASSUME NEW t \in Threads, NEW path \in Paths, Demand(t, path)
      PROVE  UNCHANGED Recent!vars
  BY <1>1, HiddenSteps
<1>2. ASSUME NEW t \in Threads, FindSlot(t) \/ ClaimSlot(t) \/ SkipSlot(t) \/ Throw(t)
      PROVE  UNCHANGED Recent!vars
  BY <1>2, HiddenSteps
<1>3. ASSUME NEW t \in Threads, DemandNoPath(t) \/ DropRequest(t) PROVE Recent!Next
  <2>1. Recent!Ignore(t)
    BY <1>3, IgnoreSteps
  <2>2. QED
    BY <2>1 DEF Recent!Next
<1>4. ASSUME NEW t \in Threads, Record(t) PROVE Recent!Next
  <2>1. \E path \in Paths : Recent!Note(t, path)
    BY <1>4, NoteStep
  <2>2. QED
    BY <2>1 DEF Recent!Next
<1>5. ASSUME NEW t \in Threads, Return(t) \/ Unwind(t) PROVE Recent!Next
  <2>1. Recent!Leave(t)
    BY <1>5, LeaveSteps
  <2>2. QED
    BY <2>1 DEF Recent!Next
<1>6. ASSUME NEW t \in Threads, Crash(t) PROVE Recent!Next
  <2>1. Recent!Report(t)
    BY <1>6, CrashStep
  <2>2. QED
    BY <2>1 DEF Recent!Next
<1>7. ASSUME NEW t \in Threads, FaultInCopy(t) PROVE Recent!Next
  <2>1. Recent!ReportTorn(t)
    BY <1>7, TornStep
  <2>2. QED
    BY <2>1 DEF Recent!Next
<1>8. ASSUME Tick \/ UNCHANGED vars PROVE Recent!Tick \/ UNCHANGED Recent!vars
  <2>1. UNCHANGED <<owner, head, ring, recorded, pc, stack, report>>
    BY <1>8 DEF Tick, vars, slotVars
  <2>2. Viewed /\ Viewed'
    BY View, ViewAfter
  <2>3. Counts' = Counts /\ Logs' = Logs
    BY <2>1, <2>2, SameView, SameLists
  <2>4. CallNumbers' = CallNumbers /\ Crashed' = Crashed
    BY <2>1 DEF CallNumbers, Crashed
  <2>5. CASE Tick
    <3>1. now' = now + 1
      BY <2>5 DEF Tick
    <3>2. Recent!Tick
      BY <2>1, <2>3, <2>4, <3>1 DEF Recent!Tick, Counts, Logs, CallNumbers, Crashed, Numbers
    <3>3. QED
      BY <3>2
  <2>6. CASE UNCHANGED vars
    <3>1. now' = now
      BY <2>6 DEF vars
    <3>2. UNCHANGED Recent!vars
      BY <2>1, <2>3, <2>4, <3>1 DEF Recent!vars, Counts, Logs, CallNumbers, Crashed, Numbers
    <3>3. QED
      BY <3>2
  <2>7. QED
    BY <1>8, <2>5, <2>6
<1>9. Recent!Tick => Recent!Next
  BY DEF Recent!Next
<1>10. QED
  BY <1>1, <1>2, <1>3, <1>4, <1>5, <1>6, <1>7, <1>8, <1>9 DEF Next

\* Whatever the number of threads, of slots, and the size of the ring and of
\* its counter, each thread is told the newest of its own requests: the slots
\* that threads race for, the laps of the ring, the guards that leave after
\* their entry was taken and the copies that fault are never seen
\* (ModelDemandTracker.cpp, HookedDemand and get_report).
THEOREM TrackerImplementsRecentRequests == Spec => RefinesRecentRequests
<1>1. Init => TypeOK /\ SlotInv /\ RingInv /\ PathInHand /\ Recent!Init
  BY InitTypeOK, InitSlotInv, InitRingInv, InitPathInHand, InitRefines
<1>2. TypeOK /\ SlotInv /\ RingInv /\ PathInHand /\ [Next]_vars
        => /\ TypeOK' /\ SlotInv' /\ RingInv' /\ PathInHand'
           /\ [Recent!Next]_(Recent!vars)
  BY StepTypeOK, StepSlotInv, StepRingInv, StepPathInHand, StepRefines
<1>3. QED
  BY <1>1, <1>2, PTL DEF Spec, RefinesRecentRequests, Recent!Spec
=============================================================================
