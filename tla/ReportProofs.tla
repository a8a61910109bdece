---------------------------- MODULE ReportProofs ----------------------------
(***************************************************************************)
(* Theorems about the parts of a report: the exception and what is nested  *)
(* in it (ExceptionReport), the relevant objects (RelevantObjects), the    *)
(* table of the modules that call stacks are told in (ModuleTable, as a    *)
(* part of CallStack), the call stack itself, the sections and the upload  *)
(* (ReportSections), and all of them as parts of ReportParts.              *)
(***************************************************************************)
EXTENDS ReportParts, SequenceTheorems, FiniteSetTheorems, WellOrders

-----------------------------------------------------------------------------
(* The report on the exception                                              *)

ReportLevels == 1 .. MaxDepth + 1
LevelCall == [record : Records, at : {"header", "details", "nested", "return"}]

\* The kinds of the variables, the depth of the calls, and that a call waits at its end
\* for the one it has made.
CallsRight ==
  /\ chain \in [Records -> Records \cup {NoRecord}] /\ kind \in [Records -> Kinds]
  /\ levels \in Seq(LevelCall)
  /\ lines \subseteq [what : {"header", "nested", "nested failed", "limit"}, level : ReportLevels, record : Records]
  /\ depth \in 0 .. MaxDepth /\ throwing \in BOOLEAN /\ reports \in 0 .. MaxReports /\ left \in BOOLEAN
  /\ DepthRight
  /\ left => levels = <<>>
  /\ \A i \in 1 .. Depth : throwing \/ i # Depth => levels[i].at = "return"

\* Where a line says that a nested record follows, it follows, has failed, is about to
\* begin, or an exception is on its way to the one that wrote the line.
NestedFollows == \A l \in ReportLevels, r \in Records : Line("nested", l, r) \in lines =>
  \/ Line("nested failed", l, r) \in lines
  \/ Line("header", l + 1, chain[r]) \in lines
  \/ ~throwing /\ Depth = l + 1 /\ Here = Call(chain[r]) /\ levels[l].record = r
  \/ throwing /\ Depth = l /\ levels[l].record = r

\* Where a record with another one nested in it is told, that one is announced or cut off,
\* or its turn is yet to come, or an exception has left the record.
HeaderFollows == \A l \in ReportLevels, r \in Records : Line("header", l, r) \in lines /\ chain[r] # NoRecord =>
  \/ Line("nested", l, r) \in lines
  \/ l = MaxDepth + 1 /\ Line("limit", l, r) \in lines
  \/ \E m \in lines : m.what = "nested failed" /\ m.level = l - 1
  \/ ~throwing /\ Depth = l /\ Here.record = r /\ Here.at \in {"details", "nested"}
  \/ throwing /\ Depth = l - 1 /\ Depth # 0
  \/ left

ReportInv == CallsRight /\ NestedFollows /\ HeaderFollows

\* A call that goes on keeps its record, and the calls around it are as before.
LEMMA GoesKeeps ==
  ASSUME levels \in Seq(LevelCall), levels # <<>>, NEW at \in {"header", "details", "nested", "return"}, Goes(at)
  PROVE  /\ levels' \in Seq(LevelCall) /\ Len(levels') = Len(levels) /\ Len(levels) \in Nat \ {0}
         /\ levels'[Len(levels)].record = levels[Len(levels)].record /\ levels'[Len(levels)].at = at
         /\ \A i \in 1 .. Len(levels) : i # Len(levels) => levels'[i] = levels[i]
<1>1. PICK n \in Nat : n = Len(levels)
  OBVIOUS
<1>2. n # 0 /\ n \in 1 .. n /\ levels[n] \in LevelCall
  BY <1>1
<1>3. PICK c : c = [levels[n] EXCEPT !.at = at]
  OBVIOUS
<1>4. c \in LevelCall /\ c.record = levels[n].record /\ c.at = at
  BY <1>2, <1>3 DEF LevelCall
<1>5. levels' = [levels EXCEPT ![n] = c]
  BY <1>1, <1>2, <1>3 DEF Goes, Depth
<1>6. /\ levels' \in Seq(LevelCall) /\ Len(levels') = n /\ levels'[n] = c
      /\ \A i \in 1 .. n : i # n => levels'[i] = levels[i]
  BY <1>1, <1>2, <1>4, <1>5
<1>7. QED
  BY <1>1, <1>2, <1>4, <1>6

\* The last call is gone, the others are as before.
LEMMA EndKeeps ==
  ASSUME levels \in Seq(LevelCall), levels # <<>>, levels' = SubSeq(levels, 1, Depth - 1)
  PROVE  /\ levels' \in Seq(LevelCall) /\ Len(levels) \in Nat \ {0} /\ Len(levels') = Len(levels) - 1
         /\ \A i \in 1 .. Len(levels') : levels'[i] = levels[i] /\ i \in 1 .. Len(levels) /\ i # Len(levels)
<1>1. PICK k \in Nat : Len(levels) = k + 1
  <2>1. Len(levels) \in Nat /\ Len(levels) # 0
    OBVIOUS
  <2>2. QED
    BY <2>1
<1>2. \A i \in 1 .. k : i \in 1 .. k + 1 /\ i # k + 1
  OBVIOUS
<1>3. \A i \in 1 .. k : levels[i] \in LevelCall
  BY <1>1, <1>2
<1>4. PICK below : below = [i \in 1 .. k |-> levels[i]]
  OBVIOUS
<1>5. below \in Seq(LevelCall) /\ Len(below) = k /\ \A i \in 1 .. k : below[i] = levels[i]
  BY <1>3, <1>4
<1>6. levels' = SubSeq(levels, 1, k)
  BY <1>1 DEF Depth
<1>7. levels' = below
  <2>1. SubSeq(levels, 1, k) = below
    BY <1>1, <1>4
  <2>2. QED
    BY <1>6, <2>1
<1>8. k = Len(levels) - 1
  BY <1>1
<1>9. QED
  <2>1. /\ levels' \in Seq(LevelCall) /\ Len(levels') = k
        /\ \A i \in 1 .. k : levels'[i] = levels[i]
    BY <1>5, <1>7
  <2>2. QED
    BY <1>1, <1>2, <1>8, <2>1

LEMMA InitReportInv == ExceptionInit => ReportInv
<1> SUFFICES ASSUME ExceptionInit PROVE ReportInv
  OBVIOUS
<1>1. Depth = 0 /\ levels \in Seq(LevelCall)
  BY DEF ExceptionInit, Depth
<1>2. CallsRight
  <2>1. depth \in 0 .. MaxDepth /\ reports \in 0 .. MaxReports
    BY DepthAssumption DEF ExceptionInit
  <2>2. DepthRight
    BY DEF ExceptionInit, DepthRight
  <2>3. \A i \in 1 .. Depth : FALSE
    BY <1>1
  <2>4. QED
    BY <1>1, <2>1, <2>2, <2>3 DEF ExceptionInit, CallsRight
<1>3. QED
  BY <1>2 DEF ReportInv, NestedFollows, HeaderFollows, ExceptionInit

LEMMA BeginInv == ReportInv /\ Begin => ReportInv'
<1> SUFFICES ASSUME ReportInv, Begin PROVE ReportInv'
  OBVIOUS
<1> USE DEF ReportInv
<1>1. PICK record \in Records :
        /\ levels = <<>> /\ ~throwing /\ reports < MaxReports
        /\ levels' = <<Call(record)>>
        /\ lines' = {} /\ left' = FALSE /\ reports' = reports + 1
        /\ UNCHANGED <<chain, kind, depth, throwing>>
  BY DEF Begin
<1>2. Call(record) \in LevelCall
  BY DEF Call, LevelCall
<1>3. levels' \in Seq(LevelCall) /\ Len(levels') = 1 /\ levels' # <<>>
  BY <1>1, <1>2
<1>4. depth = 0 /\ Depth' = 1
  BY <1>1, <1>3 DEF CallsRight, DepthRight, Depth
<1>5. CallsRight'
  <2>1. DepthRight'
    BY <1>1, <1>3, <1>4 DEF DepthRight
  <2>2. reports' \in 0 .. MaxReports
    <3>1. reports \in 0 .. MaxReports
      BY DEF CallsRight
    <3>2. QED
      BY <1>1, <3>1, DepthAssumption
  <2>3. \A i \in 1 .. Depth' : i = Depth'
    BY <1>4
  <2>4. QED
    BY <1>1, <1>3, <2>1, <2>2, <2>3 DEF CallsRight
<1>6. QED
  BY <1>1, <1>5 DEF NestedFollows, HeaderFollows

LEMMA HeaderInv == ReportInv /\ Header => ReportInv'
<1> SUFFICES ASSUME ReportInv, Header PROVE ReportInv'
  OBVIOUS
<1> USE DEF ReportInv
<1>1. /\ levels # <<>> /\ ~throwing /\ Here.at = "header" /\ Goes("details")
      /\ lines' = lines \cup {Line("header", Depth, Here.record)}
      /\ UNCHANGED <<chain, kind, depth, throwing, reports, left>>
  BY DEF Header, Busy, Tell
<1>2. /\ levels' \in Seq(LevelCall) /\ Depth' = Depth /\ Depth \in Nat \ {0}
      /\ levels'[Depth].record = Here.record /\ levels'[Depth].at = "details"
      /\ \A i \in 1 .. Depth : i # Depth => levels'[i] = levels[i]
  BY <1>1, GoesKeeps DEF CallsRight, Depth, Here
<1>3. PICK n, record : n \in Nat \ {0} /\ n = Depth /\ record = Here.record
  BY <1>2
<1>4. depth = n - 1 /\ n \in ReportLevels /\ levels' # <<>> /\ n \in 1 .. n
  <2>1. depth \in 0 .. MaxDepth /\ DepthRight
    BY DEF CallsRight
  <2>2. depth = n - 1
    BY <1>1, <1>3, <2>1 DEF DepthRight
  <2>3. levels' # <<>>
    BY <1>2 DEF Depth
  <2>4. QED
    BY <1>3, <2>1, <2>2, <2>3, DepthAssumption DEF ReportLevels
<1>5. record \in Records
  <2>1. levels[n] \in LevelCall
    <3>1. levels \in Seq(LevelCall) /\ n = Len(levels)
      BY <1>3 DEF CallsRight, Depth
    <3>2. QED
      BY <1>4, <3>1
  <2>2. QED
    BY <1>3, <2>1 DEF LevelCall, Here
<1>6. CallsRight'
  <2>1. DepthRight'
    BY <1>1, <1>2, <1>4 DEF CallsRight, DepthRight
  <2>2. Line("header", n, record) \in [what : {"header", "nested", "nested failed", "limit"}, level : ReportLevels, record : Records]
    BY <1>4, <1>5 DEF Line
  <2>3. QED
    BY <1>1, <1>2, <1>3, <2>1, <2>2 DEF CallsRight
<1>7. Here'.record = record /\ Here'.at = "details"
  BY <1>2, <1>3 DEF Here
<1>8. NestedFollows'
  <2> SUFFICES ASSUME NEW l \in ReportLevels, NEW r \in Records, Line("nested", l, r) \in lines'
               PROVE  \/ Line("nested failed", l, r) \in lines'
                      \/ Line("header", l + 1, chain[r]) \in lines'
    BY <1>1 DEF NestedFollows, ReportLevels
  <2>1. Line("nested", l, r) \in lines
    BY <1>1 DEF Line
  <2>2. CASE Depth = l + 1 /\ Here = Call(chain[r])
    BY <1>1, <2>2 DEF Call
  <2>3. QED
    BY <1>1, <2>1, <2>2 DEF NestedFollows
<1>9. HeaderFollows'
  <2> SUFFICES ASSUME NEW l \in ReportLevels, NEW r \in Records, Line("header", l, r) \in lines', chain[r] # NoRecord
               PROVE  \/ Line("nested", l, r) \in lines'
                      \/ l = MaxDepth + 1 /\ Line("limit", l, r) \in lines'
                      \/ \E m \in lines' : m.what = "nested failed" /\ m.level = l - 1
                      \/ Depth' = l /\ Here'.record = r /\ Here'.at \in {"details", "nested"}
                      \/ left'
    BY <1>1 DEF HeaderFollows, ReportLevels
  <2>1. CASE l = n /\ r = record
    BY <1>2, <1>3, <1>7, <2>1
  <2>2. CASE ~(l = n /\ r = record)
    <3>1. Line("header", l, r) \in lines
      BY <1>1, <1>3, <2>2 DEF Line
    <3>2. ~(Depth = l /\ Here.record = r /\ Here.at \in {"details", "nested"})
      BY <1>1
    <3>3. lines \subseteq lines'
      BY <1>1
    <3>4. QED
      BY <1>1, <3>1, <3>2, <3>3 DEF HeaderFollows
  <2>3. QED
    BY <2>1, <2>2
<1>10. QED
  BY <1>6, <1>8, <1>9

\* Whatever the kind of the record, its details change nothing but where the call is.
LEMMA DetailsInv ==
  ASSUME ReportInv, Busy, Here.at = "details", Goes("nested"),
         UNCHANGED <<chain, kind, depth, lines, throwing, reports, left>>
  PROVE  ReportInv'
<1> USE DEF ReportInv
<1>1. levels # <<>> /\ ~throwing
  BY DEF Busy
<1>2. /\ levels' \in Seq(LevelCall) /\ Depth' = Depth /\ Depth \in Nat \ {0}
      /\ levels'[Depth].record = Here.record /\ levels'[Depth].at = "nested"
      /\ \A i \in 1 .. Depth : i # Depth => levels'[i] = levels[i]
  BY <1>1, GoesKeeps DEF CallsRight, Depth, Here
<1>3. Here'.record = Here.record /\ Here'.at = "nested" /\ levels' # <<>>
  BY <1>2 DEF Here, Depth
<1>4. CallsRight'
  <2>1. DepthRight'
    BY <1>1, <1>2, <1>3 DEF CallsRight, DepthRight
  <2>2. QED
    BY <1>1, <1>2, <2>1 DEF CallsRight
<1>5. NestedFollows'
  <2>1. \A r \in Records : Here # Call(chain[r])
    BY DEF Call
  <2>2. QED
    BY <1>1, <2>1 DEF NestedFollows
<1>6. HeaderFollows'
  BY <1>1, <1>2, <1>3 DEF HeaderFollows
<1>7. QED
  BY <1>4, <1>5, <1>6

LEMMA NestedInv == ReportInv /\ Nested => ReportInv'
<1> SUFFICES ASSUME ReportInv, Nested PROVE ReportInv'
  OBVIOUS
<1> USE DEF ReportInv
<1>0. levels \in Seq(LevelCall)
  BY DEF CallsRight
<1>1. PICK n \in Nat : n = Len(levels)
  BY <1>0
<1>2. PICK upper, record, inner : /\ upper = Here.record /\ record = chain[upper] /\ inner = Call(record)
  OBVIOUS
<1>3. /\ levels # <<>> /\ ~throwing /\ Here.at = "nested" /\ record # NoRecord /\ depth < MaxDepth
      /\ lines' = lines \cup {Line("nested", n, upper)} /\ depth' = depth + 1
      /\ levels' = Append([levels EXCEPT ![n].at = "return"], inner)
      /\ UNCHANGED <<chain, kind, throwing, reports, left>>
  BY <1>1, <1>2 DEF Nested, Busy, Tell, Depth
<1>4. n \in 1 .. n /\ levels[n] \in LevelCall /\ levels \in Seq(LevelCall)
  BY <1>0, <1>1, <1>3
<1>5. upper = levels[n].record /\ upper \in Records
  BY <1>1, <1>2, <1>4 DEF Here, Depth, LevelCall
<1>6. record \in Records /\ inner \in LevelCall
  BY <1>2, <1>3, <1>5 DEF CallsRight, LevelCall, Call
<1>7. PICK c : c = [levels[n] EXCEPT !.at = "return"]
  OBVIOUS
<1>8. c \in LevelCall /\ c.record = upper /\ c.at = "return"
  BY <1>4, <1>5, <1>7 DEF LevelCall
<1>9. PICK outer : outer = [levels EXCEPT ![n] = c]
  OBVIOUS
<1>10. /\ outer \in Seq(LevelCall) /\ Len(outer) = n /\ outer[n] = c
       /\ \A i \in 1 .. n : i # n => outer[i] = levels[i]
  BY <1>1, <1>4, <1>8, <1>9
<1>11. levels' = Append(outer, inner)
  BY <1>3, <1>7, <1>9
<1>12. /\ levels' \in Seq(LevelCall) /\ Len(levels') = n + 1 /\ levels'[n + 1] = inner /\ levels'[n] = c
       /\ \A i \in 1 .. n : levels'[i] = outer[i] /\ i # n + 1
  BY <1>4, <1>6, <1>10, <1>11
<1>13. Depth = n /\ Depth' = n + 1 /\ Here' = inner /\ levels' # <<>>
  BY <1>1, <1>12 DEF Depth, Here
<1>14. depth = n - 1 /\ depth' = n /\ n \in ReportLevels /\ n # 0 /\ depth' \in 0 .. MaxDepth
  <2>1. depth \in 0 .. MaxDepth /\ DepthRight
    BY DEF CallsRight
  <2>2. depth = n - 1
    BY <1>3, <1>13, <2>1 DEF DepthRight
  <2>3. QED
    BY <1>3, <1>4, <2>1, <2>2, DepthAssumption DEF ReportLevels
<1>15. CallsRight'
  <2>1. DepthRight'
    BY <1>3, <1>13, <1>14 DEF DepthRight
  <2>2. Line("nested", n, upper) \in [what : {"header", "nested", "nested failed", "limit"}, level : ReportLevels, record : Records]
    BY <1>5, <1>14 DEF Line
  <2>3. \A i \in 1 .. Depth' : i # Depth' => levels'[i].at = "return"
    <3>1. \A i \in 1 .. n + 1 : i # n + 1 => i \in 1 .. n
      BY <1>1
    <3>2. \A i \in 1 .. n : i # n => levels[i].at = "return"
      BY <1>3, <1>13 DEF CallsRight
    <3>3. \A i \in 1 .. n : levels'[i].at = "return"
      BY <1>8, <1>10, <1>12, <3>2
    <3>4. QED
      BY <1>13, <3>1, <3>3
  <2>4. QED
    BY <1>3, <1>12, <1>14, <2>1, <2>2, <2>3 DEF CallsRight
<1>16. NestedFollows'
  <2> SUFFICES ASSUME NEW l \in ReportLevels, NEW r \in Records, Line("nested", l, r) \in lines'
               PROVE  \/ Line("nested failed", l, r) \in lines'
                      \/ Line("header", l + 1, chain[r]) \in lines'
                      \/ Depth' = l + 1 /\ Here' = Call(chain[r]) /\ levels'[l].record = r
    BY <1>3 DEF NestedFollows, ReportLevels
  <2>1. CASE l = n /\ r = upper
    BY <1>2, <1>8, <1>12, <1>13, <2>1
  <2>2. CASE ~(l = n /\ r = upper)
    <3>1. Line("nested", l, r) \in lines
      BY <1>3, <2>2 DEF Line
    <3>2. Here # Call(chain[r])
      BY <1>3 DEF Call
    <3>3. QED
      BY <1>3, <3>1, <3>2 DEF NestedFollows
  <2>3. QED
    BY <2>1, <2>2
<1>17. HeaderFollows'
  <2> SUFFICES ASSUME NEW l \in ReportLevels, NEW r \in Records, Line("header", l, r) \in lines', chain[r] # NoRecord
               PROVE  \/ Line("nested", l, r) \in lines'
                      \/ l = MaxDepth + 1 /\ Line("limit", l, r) \in lines'
                      \/ \E m \in lines' : m.what = "nested failed" /\ m.level = l - 1
                      \/ left'
    BY <1>3 DEF HeaderFollows, ReportLevels
  <2>1. Line("header", l, r) \in lines
    BY <1>3 DEF Line
  <2>2. CASE Depth = l /\ Here.record = r
    BY <1>2, <1>3, <1>13, <2>2
  <2>3. CASE ~(Depth = l /\ Here.record = r)
    BY <1>3, <2>1, <2>3 DEF HeaderFollows
  <2>4. QED
    BY <2>2, <2>3
<1>18. QED
  BY <1>15, <1>16, <1>17

\* A call that ends its look at the nested record goes on to its return: what was told of
\* its record, if it has a nested one, says that the limit was reached.
LEMMA ReturnsInv ==
  ASSUME ReportInv, Busy, Here.at = "nested", Goes("return"), lines \subseteq lines',
         \/ lines' = lines /\ chain[Here.record] = NoRecord
         \/ lines' = lines \cup {Line("limit", Depth, Here.record)} /\ depth >= MaxDepth,
         UNCHANGED <<chain, kind, depth, throwing, reports, left>>
  PROVE  ReportInv'
<1> USE DEF ReportInv
<1>1. levels # <<>> /\ ~throwing
  BY DEF Busy
<1>2. /\ levels' \in Seq(LevelCall) /\ Depth' = Depth /\ Depth \in Nat \ {0}
      /\ levels'[Depth].record = Here.record /\ levels'[Depth].at = "return"
      /\ \A i \in 1 .. Depth : i # Depth => levels'[i] = levels[i]
  BY <1>1, GoesKeeps DEF CallsRight, Depth, Here
<1>3. PICK n, record : n \in Nat \ {0} /\ n = Depth /\ record = Here.record
  BY <1>2
<1>4. depth = n - 1 /\ n \in ReportLevels /\ levels' # <<>> /\ n \in 1 .. n
  <2>1. depth \in 0 .. MaxDepth /\ DepthRight
    BY DEF CallsRight
  <2>2. depth = n - 1
    BY <1>1, <1>3, <2>1 DEF DepthRight
  <2>3. levels' # <<>>
    BY <1>2 DEF Depth
  <2>4. QED
    BY <1>3, <2>1, <2>2, <2>3, DepthAssumption DEF ReportLevels
<1>5. record \in Records
  <2>1. levels[n] \in LevelCall
    <3>1. levels \in Seq(LevelCall) /\ n = Len(levels)
      BY <1>3 DEF CallsRight, Depth
    <3>2. QED
      BY <1>4, <3>1
  <2>2. QED
    BY <1>3, <2>1 DEF LevelCall, Here
<1>6. CallsRight'
  <2>1. DepthRight'
    BY <1>1, <1>2, <1>4 DEF CallsRight, DepthRight
  <2>2. Line("limit", n, record) \in [what : {"header", "nested", "nested failed", "limit"}, level : ReportLevels, record : Records]
    BY <1>4, <1>5 DEF Line
  <2>3. lines' \subseteq [what : {"header", "nested", "nested failed", "limit"}, level : ReportLevels, record : Records]
    BY <1>3, <2>2 DEF CallsRight
  <2>4. QED
    BY <1>1, <1>2, <2>1, <2>3 DEF CallsRight
<1>7. NestedFollows'
  <2>1. \A r \in Records : Here # Call(chain[r])
    BY DEF Call
  <2>2. \A l \in ReportLevels, r \in Records : Line("nested", l, r) \in lines' => Line("nested", l, r) \in lines
    BY DEF Line
  <2>3. QED
    BY <1>1, <2>1, <2>2 DEF NestedFollows
<1>8. HeaderFollows'
  <2> SUFFICES ASSUME NEW l \in ReportLevels, NEW r \in Records, Line("header", l, r) \in lines', chain[r] # NoRecord
               PROVE  \/ Line("nested", l, r) \in lines'
                      \/ l = MaxDepth + 1 /\ Line("limit", l, r) \in lines'
                      \/ \E m \in lines' : m.what = "nested failed" /\ m.level = l - 1
                      \/ left'
    BY DEF HeaderFollows, ReportLevels
  <2>1. Line("header", l, r) \in lines
    BY DEF Line
  <2>2. CASE l = n /\ r = record
    <3>1. Line("limit", n, record) \in lines' /\ depth >= MaxDepth
      BY <1>3, <2>2
    <3>2. n = MaxDepth + 1
      <4>1. depth \in 0 .. MaxDepth
        BY DEF CallsRight
      <4>2. QED
        BY <1>4, <3>1, <4>1, DepthAssumption
    <3>3. QED
      BY <2>2, <3>1, <3>2
  <2>3. CASE ~(l = n /\ r = record)
    BY <1>1, <1>3, <2>1, <2>3 DEF HeaderFollows
  <2>4. QED
    BY <2>2, <2>3
<1>9. QED
  BY <1>6, <1>7, <1>8

LEMMA ReturnInv == ReportInv /\ Return => ReportInv'
<1> SUFFICES ASSUME ReportInv, Return PROVE ReportInv'
  OBVIOUS
<1> USE DEF ReportInv
<1>1. /\ levels # <<>> /\ ~throwing /\ Here.at = "return"
      /\ levels' = SubSeq(levels, 1, Depth - 1)
      /\ depth' = IF Depth > 1 THEN depth - 1 ELSE depth
      /\ UNCHANGED <<chain, kind, lines, throwing, reports, left>>
  BY DEF Return, Busy
<1>0. levels \in Seq(LevelCall)
  BY DEF CallsRight
<1>2. PICK n \in Nat \ {0}, k \in Nat : n = Len(levels) /\ k = Len(levels') /\ k = n - 1
  <2>1. Len(levels) \in Nat \ {0} /\ Len(levels') = Len(levels) - 1
    BY <1>0, <1>1, EndKeeps
  <2>2. Len(levels) - 1 \in Nat
    BY <2>1
  <2>3. QED
    BY <2>1, <2>2
<1>3. levels' \in Seq(LevelCall) /\ \A i \in 1 .. k : levels'[i] = levels[i] /\ i \in 1 .. n /\ i # n
  BY <1>1, <1>2, EndKeeps DEF CallsRight
<1>4. Depth = n /\ Depth' = k
  BY <1>2 DEF Depth
<1>5. depth = n - 1 /\ depth' \in 0 .. MaxDepth /\ DepthRight'
  <2>1. depth \in 0 .. MaxDepth /\ DepthRight
    BY DEF CallsRight
  <2>2. depth = n - 1
    BY <1>1, <1>4, <2>1 DEF DepthRight
  <2>3. CASE n = 1
    <3>1. k = 0 /\ depth' = 0
      BY <1>1, <1>2, <1>4, <2>2, <2>3
    <3>2. levels' = <<>>
      <4>1. levels' \in Seq(LevelCall) /\ Len(levels') = 0
        BY <1>2, <1>3, <3>1
      <4>2. QED
        BY <4>1
    <3>3. QED
      BY <1>1, <2>1, <2>2, <3>1, <3>2, DepthAssumption DEF DepthRight
  <2>4. CASE n # 1
    <3>1. n > 1 /\ k # 0 /\ depth' = k - 1 /\ depth' \in 0 .. MaxDepth
      BY <1>1, <1>2, <1>4, <2>1, <2>2, <2>4, DepthAssumption
    <3>2. levels' # <<>>
      BY <1>2, <3>1
    <3>3. QED
      BY <1>1, <1>4, <2>2, <3>1, <3>2 DEF DepthRight
  <2>5. QED
    BY <2>3, <2>4
<1>6. CallsRight'
  <2>1. \A i \in 1 .. k : levels'[i].at = "return"
    BY <1>1, <1>3, <1>4 DEF CallsRight
  <2>2. QED
    BY <1>1, <1>3, <1>4, <1>5, <2>1 DEF CallsRight
<1>7. NestedFollows'
  <2>1. \A r \in Records : Here # Call(chain[r])
    BY <1>1 DEF Call
  <2>2. QED
    BY <1>1, <2>1 DEF NestedFollows
<1>8. HeaderFollows'
  BY <1>1 DEF HeaderFollows
<1>9. QED
  BY <1>6, <1>7, <1>8

LEMMA ThrowInv == ReportInv /\ Throw => ReportInv'
<1> SUFFICES ASSUME ReportInv, Throw PROVE ReportInv'
  OBVIOUS
<1> USE DEF ReportInv
<1>1. /\ levels # <<>> /\ ~throwing /\ Here.at \in {"header", "details"}
      /\ levels' = SubSeq(levels, 1, Depth - 1)
      /\ throwing' = TRUE /\ left' = (Depth = 1)
      /\ UNCHANGED <<chain, kind, lines, depth, reports>>
  BY DEF Throw, Busy
<1>0. levels \in Seq(LevelCall)
  BY DEF CallsRight
<1>2. PICK n \in Nat \ {0}, k \in Nat : n = Len(levels) /\ k = Len(levels') /\ k = n - 1
  <2>1. Len(levels) \in Nat \ {0} /\ Len(levels') = Len(levels) - 1
    BY <1>0, <1>1, EndKeeps
  <2>2. Len(levels) - 1 \in Nat
    BY <2>1
  <2>3. QED
    BY <2>1, <2>2
<1>3. levels' \in Seq(LevelCall) /\ \A i \in 1 .. k : levels'[i] = levels[i] /\ i \in 1 .. n /\ i # n
  BY <1>1, <1>2, EndKeeps DEF CallsRight
<1>4. Depth = n /\ Depth' = k
  BY <1>2 DEF Depth
<1>5. depth = n - 1
  BY <1>1, <1>4 DEF CallsRight, DepthRight
<1>6. CallsRight'
  <2>1. \A i \in 1 .. k : levels'[i].at = "return"
    BY <1>1, <1>3, <1>4 DEF CallsRight
  <2>2. DepthRight'
    BY <1>1, <1>2, <1>4, <1>5 DEF DepthRight
  <2>3. left' => levels' = <<>>
    <3>1. SUFFICES ASSUME n = 1 PROVE levels' = <<>>
      BY <1>1, <1>4
    <3>2. levels' \in Seq(LevelCall) /\ Len(levels') = 0
      BY <1>2, <1>3, <3>1
    <3>3. QED
      BY <3>2
  <2>4. left' \in BOOLEAN
    BY <1>1
  <2>5. QED
    BY <1>1, <1>3, <1>4, <2>1, <2>2, <2>3, <2>4 DEF CallsRight
<1>7. NestedFollows'
  <2> SUFFICES ASSUME NEW l \in ReportLevels, NEW r \in Records, Line("nested", l, r) \in lines'
               PROVE  \/ Line("nested failed", l, r) \in lines'
                      \/ Line("header", l + 1, chain[r]) \in lines'
                      \/ Depth' = l /\ levels'[l].record = r
    BY <1>1 DEF NestedFollows, ReportLevels
  <2>1. CASE Depth = l + 1 /\ levels[l].record = r
    <3>1. l = k /\ l \in 1 .. k
      BY <1>2, <1>4, <2>1, DepthAssumption DEF ReportLevels
    <3>2. QED
      BY <1>3, <1>4, <2>1, <3>1
  <2>2. QED
    BY <1>1, <2>1 DEF NestedFollows
<1>8. HeaderFollows'
  <2> SUFFICES ASSUME NEW l \in ReportLevels, NEW r \in Records, Line("header", l, r) \in lines', chain[r] # NoRecord
               PROVE  \/ Line("nested", l, r) \in lines'
                      \/ l = MaxDepth + 1 /\ Line("limit", l, r) \in lines'
                      \/ \E m \in lines' : m.what = "nested failed" /\ m.level = l - 1
                      \/ Depth' = l - 1 /\ Depth' # 0
                      \/ left'
    BY <1>1 DEF HeaderFollows, ReportLevels
  <2>1. CASE Depth = l
    <3>1. CASE n = 1
      BY <1>1, <1>4, <3>1
    <3>2. CASE n # 1
      <4>1. Depth' = l - 1 /\ Depth' # 0
        BY <1>2, <1>4, <2>1, <3>2
      <4>2. QED
        BY <4>1
    <3>3. QED
      BY <3>1, <3>2
  <2>2. ~left
    BY <1>1 DEF CallsRight
  <2>3. QED
    BY <1>1, <2>1, <2>2 DEF HeaderFollows
<1>9. QED
  BY <1>6, <1>7, <1>8

LEMMA CaughtInv == ReportInv /\ Caught => ReportInv'
<1> SUFFICES ASSUME ReportInv, Caught PROVE ReportInv'
  OBVIOUS
<1> USE DEF ReportInv
<1>0. levels \in Seq(LevelCall)
  BY DEF CallsRight
<1>1. PICK n, record : n \in Nat /\ n = Len(levels) /\ record = Here.record
  BY <1>0
<1>2. /\ throwing /\ levels # <<>>
      /\ lines' = lines \cup {Line("nested failed", depth, record)}
      /\ depth' = depth - 1 /\ throwing' = FALSE
      /\ UNCHANGED <<chain, kind, levels, reports, left>>
  BY <1>1 DEF Caught
<1>3. n \in 1 .. n /\ levels[n] \in LevelCall /\ Depth = n /\ Depth' = n
  <2>1. levels # <<>> /\ levels' = levels
    BY <1>2
  <2>2. n \in 1 .. n
    BY <1>0, <1>1, <2>1
  <2>3. QED
    BY <1>0, <1>1, <2>1, <2>2 DEF Depth
<1>4. record = levels[n].record /\ record \in Records
  BY <1>1, <1>3 DEF Here, LevelCall
<1>5. depth = n /\ depth \in 0 .. MaxDepth
  BY <1>2, <1>3 DEF CallsRight, DepthRight
<1>6. CallsRight'
  <2>1. n \in ReportLevels /\ depth' \in 0 .. MaxDepth /\ depth' = n - 1
    <3>1. depth' = depth - 1
      BY <1>2
    <3>2. QED
      BY <1>3, <1>5, <3>1, DepthAssumption DEF ReportLevels
  <2>2. DepthRight'
    BY <1>2, <1>3, <2>1 DEF DepthRight
  <2>3. Line("nested failed", depth, record) \in [what : {"header", "nested", "nested failed", "limit"}, level : ReportLevels, record : Records]
    BY <1>4, <1>5, <2>1 DEF Line
  <2>4. left' => levels' = <<>>
    BY <1>2 DEF CallsRight
  <2>5. \A i \in 1 .. Depth' : levels'[i].at = "return"
    BY <1>2, <1>3 DEF CallsRight
  <2>6. lines' \subseteq [what : {"header", "nested", "nested failed", "limit"}, level : ReportLevels, record : Records]
    BY <1>2, <2>3 DEF CallsRight
  <2>7. QED
    BY <1>2, <2>1, <2>2, <2>4, <2>5, <2>6 DEF CallsRight
<1>7. NestedFollows'
  <2> SUFFICES ASSUME NEW l \in ReportLevels, NEW r \in Records, Line("nested", l, r) \in lines'
               PROVE  \/ Line("nested failed", l, r) \in lines'
                      \/ Line("header", l + 1, chain[r]) \in lines'
    BY <1>2 DEF NestedFollows, ReportLevels
  <2>1. Line("nested", l, r) \in lines
    BY <1>2 DEF Line
  <2>2. CASE Depth = l /\ levels[l].record = r
    BY <1>2, <1>3, <1>4, <1>5, <2>2
  <2>3. QED
    BY <1>2, <2>1, <2>2 DEF NestedFollows
<1>8. HeaderFollows'
  <2> SUFFICES ASSUME NEW l \in ReportLevels, NEW r \in Records, Line("header", l, r) \in lines', chain[r] # NoRecord
               PROVE  \/ Line("nested", l, r) \in lines'
                      \/ l = MaxDepth + 1 /\ Line("limit", l, r) \in lines'
                      \/ \E m \in lines' : m.what = "nested failed" /\ m.level = l - 1
                      \/ left'
    BY <1>2 DEF HeaderFollows, ReportLevels
  <2>1. Line("header", l, r) \in lines
    BY <1>2 DEF Line
  <2>2. CASE Depth = l - 1
    <3>1. PICK m : m = Line("nested failed", depth, record)
      OBVIOUS
    <3>2. m \in lines' /\ m.what = "nested failed" /\ m.level = l - 1
      BY <1>2, <1>3, <1>5, <2>2, <3>1 DEF Line
    <3>3. QED
      BY <3>2
  <2>3. QED
    BY <1>2, <2>1, <2>2 DEF HeaderFollows
<1>9. QED
  BY <1>6, <1>7, <1>8

LEMMA UncaughtInv == ReportInv /\ Uncaught => ReportInv'
<1> SUFFICES ASSUME ReportInv, Uncaught PROVE ReportInv'
  OBVIOUS
<1> USE DEF ReportInv
<1>1. /\ throwing /\ levels = <<>> /\ throwing' = FALSE
      /\ UNCHANGED <<chain, kind, levels, depth, lines, reports, left>>
  BY DEF Uncaught
<1>2. Depth = 0 /\ Depth' = 0
  BY <1>1 DEF Depth
<1>3. CallsRight'
  <2>1. DepthRight'
    BY <1>1, <1>2 DEF CallsRight, DepthRight
  <2>2. \A i \in 1 .. Depth' : FALSE
    BY <1>2
  <2>3. QED
    BY <1>1, <2>1, <2>2 DEF CallsRight
<1>4. NestedFollows'
  <2>1. \A l \in ReportLevels : Depth # l
    BY <1>2 DEF ReportLevels
  <2>2. QED
    BY <1>1, <2>1 DEF NestedFollows
<1>5. HeaderFollows'
  BY <1>1, <1>2 DEF HeaderFollows
<1>6. QED
  BY <1>3, <1>4, <1>5

LEMMA StepReportInv == ReportInv /\ [ExceptionNext]_exceptionVars => ReportInv'
<1> SUFFICES ASSUME ReportInv, [ExceptionNext]_exceptionVars PROVE ReportInv'
  OBVIOUS
<1>1. ASSUME \E said : Busy /\ Here.at = "details" /\ Looked(said),
             UNCHANGED <<chain, kind, depth, lines, throwing, reports, left>>
      PROVE  ReportInv'
  BY <1>1, DetailsInv DEF Looked
<1>2. CASE AccessViolation \/ InPageError \/ Otherwise \/ Parameters \/ CppException \/ CppExceptionFails
  <2>1. CASE AccessViolation
    BY <1>1, <2>1 DEF AccessViolation
  <2>2. CASE InPageError
    BY <1>1, <2>2 DEF InPageError
  <2>3. CASE Otherwise
    BY <1>1, <2>3 DEF Otherwise
  <2>4. CASE Parameters
    BY <1>1, <2>4 DEF Parameters
  <2>5. CASE CppException
    BY <1>1, <2>5 DEF CppException
  <2>6. CASE CppExceptionFails
    BY <1>1, <2>6 DEF CppExceptionFails
  <2>7. QED
    BY <1>2, <2>1, <2>2, <2>3, <2>4, <2>5, <2>6
<1>3. CASE LimitReached
  <2>1. /\ Busy /\ Here.at = "nested" /\ Goes("return") /\ depth >= MaxDepth
        /\ lines' = lines \cup {Line("limit", Depth, Here.record)}
        /\ UNCHANGED <<chain, kind, depth, throwing, reports, left>>
    BY <1>3 DEF LimitReached, Tell
  <2>2. lines \subseteq lines'
    BY <2>1
  <2>3. QED
    BY <2>1, <2>2, ReturnsInv
<1>4. CASE NotNested
  <2>1. /\ Busy /\ Here.at = "nested" /\ Goes("return") /\ chain[Here.record] = NoRecord
        /\ lines' = lines
        /\ UNCHANGED <<chain, kind, depth, throwing, reports, left>>
    BY <1>4 DEF NotNested
  <2>2. QED
    BY <2>1, ReturnsInv
<1>5. CASE UNCHANGED exceptionVars
  <2>1. /\ UNCHANGED <<chain, kind, levels, depth, lines, throwing, reports, left>>
    BY <1>5 DEF exceptionVars
  <2>2. Depth' = Depth /\ Here' = Here
    BY <2>1 DEF Depth, Here
  <2>3. DepthRight' = DepthRight
    BY <2>1, <2>2 DEF DepthRight
  <2>4. QED
    BY <2>1, <2>2, <2>3 DEF ReportInv, CallsRight, NestedFollows, HeaderFollows
<1>6. QED
  BY <1>2, <1>3, <1>4, <1>5, BeginInv, HeaderInv, NestedInv, ReturnInv, ThrowInv, CaughtInv, UncaughtInv
     DEF ExceptionNext

LEMMA ReportInvHolds == ExceptionSpec => []ReportInv
BY InitReportInv, StepReportInv, PTL DEF ExceptionSpec

\* Every variable of a report on an exception has its kind; no line is of a record deeper
\* than one below the limit (print_exception).
THEOREM ExceptionTypeCorrect == ExceptionSpec => []ExceptionTypeOK
<1>1. ReportInv => ExceptionTypeOK
  <2> SUFFICES ASSUME CallsRight PROVE ExceptionTypeOK
    BY DEF ReportInv
  <2>1. \A i \in 1 .. Depth : levels[i] \in LevelCall
    <3>1. levels \in Seq(LevelCall)
      BY DEF CallsRight
    <3>2. QED
      BY <3>1 DEF Depth
  <2>2. QED
    BY <2>1 DEF CallsRight, ExceptionTypeOK, LevelCall, ReportLevels
<1>2. QED
  BY <1>1, ReportInvHolds, PTL

\* The depth of the thread is that of the calls, also while an exception unwinds them;
\* and, however long the chain of records or whether it is a circle, a report that is not
\* left by an exception tells every nested record to the limit or says that it failed
\* (print_exception).
THEOREM ExceptionIsTold == ExceptionSpec => []ExceptionTold
<1>1. ReportInv => ExceptionTold
  <2> SUFFICES ASSUME ReportInv PROVE ExceptionTold
    OBVIOUS
  <2> USE DEF ReportInv
  <2>1. DepthRight
    BY DEF CallsRight
  <2>2. ASSUME levels = <<>>, ~throwing, ~left, NEW m \in lines
        PROVE  /\ m.level <= MaxDepth + 1
               /\ m.what = "nested" => \/ Line("nested failed", m.level, m.record) \in lines
                                       \/ Line("header", m.level + 1, chain[m.record]) \in lines
               /\ m.what = "header" /\ chain[m.record] # NoRecord =>
                    \/ Line("nested", m.level, m.record) \in lines
                    \/ m.level = MaxDepth + 1 /\ Line("limit", m.level, m.record) \in lines
                    \/ \E q \in lines : q.what = "nested failed" /\ q.level = m.level - 1
    <3>0. m \in [what : {"header", "nested", "nested failed", "limit"}, level : ReportLevels, record : Records]
      BY DEF CallsRight
    <3>1. PICK what, l, r : what = m.what /\ l = m.level /\ r = m.record
      OBVIOUS
    <3>2. l \in ReportLevels /\ r \in Records /\ m = Line(what, l, r)
      BY <3>0, <3>1 DEF Line
    <3>3. Depth = 0 /\ l <= MaxDepth + 1 /\ l # 0 /\ l + 1 # 0
      BY <2>2, <3>2, DepthAssumption DEF Depth, ReportLevels
    <3>4. CASE what = "nested"
      BY <2>2, <3>1, <3>2, <3>3, <3>4 DEF NestedFollows
    <3>5. CASE what = "header"
      BY <2>2, <3>1, <3>2, <3>3, <3>5 DEF HeaderFollows
    <3>6. QED
      BY <3>1, <3>3, <3>4, <3>5
  <2>3. NestedTold
    BY <2>2 DEF NestedTold
  <2>4. QED
    BY <2>1, <2>3 DEF ExceptionTold
<1>2. QED
  BY <1>1, ReportInvHolds, PTL

-----------------------------------------------------------------------------
(* The relevant objects                                                     *)

\* Each address was kept once, at its least distance.
LeastKept ==
  /\ objects \subseteq Offer /\ offered \subseteq Offer /\ IsFiniteSet(objects)
  /\ \A o \in offered : \E p \in objects : p.address = o.address /\ p.distance <= o.distance
  /\ \A p, q \in objects : p.address = q.address => p = q

\* The list has all objects, by rising distance.
ListRight ==
  /\ relevantAt \in {"collect", "print", "done", "none found", "failed"}
  /\ relevantAt = "collect" => sorted = <<>> /\ row = 0 /\ rows = <<>>
  /\ relevantAt # "collect" =>
       /\ sorted \in Seq(objects) /\ Len(sorted) = Cardinality(objects)
       /\ \A i, j \in 1 .. Len(sorted) : i # j => sorted[i] # sorted[j]
       /\ \A o \in objects : \E i \in 1 .. Len(sorted) : sorted[i] = o
       /\ \A i, j \in 1 .. Len(sorted) : i < j => sorted[i].distance <= sorted[j].distance

\* A position that was passed has its row, or nothing to show.
RowsRight ==
  /\ row \in Nat /\ row <= Len(sorted) /\ row <= MaxObjects
  /\ rows \in Seq(1 .. row) /\ Len(rows) <= row
  /\ \A j, k \in 1 .. Len(rows) : j < k => rows[j] < rows[k]
  /\ \A i \in 1 .. row : Simplified(sorted[i].analysis) = <<>> \/ \E k \in 1 .. Len(rows) : rows[k] = i

EndRight ==
  /\ more \in Nat
  /\ relevantAt \in {"done", "none found"} =>
       /\ row = ObjectCount /\ more = Len(sorted) - ObjectCount
       /\ relevantAt = "none found" <=> ObjectCount = 0

ObjectsInv == LeastKept /\ ListRight /\ RowsRight /\ EndRight

\* SetToSeqs lists a finite set: each member at one place.
LEMMA ListOfSet ==
  ASSUME NEW S, IsFiniteSet(S), NEW s \in SetToSeqs(S)
  PROVE  /\ s \in Seq(S) /\ Len(s) = Cardinality(S) /\ Len(s) \in Nat
         /\ \A i, j \in 1 .. Len(s) : i # j => s[i] # s[j]
         /\ \A x \in S : \E i \in 1 .. Len(s) : s[i] = x
<1>1. PICK n \in Nat : n = Cardinality(S)
  BY FS_CardinalityType
<1>2. s \in [1 .. n -> S] /\ \A i, j \in 1 .. n : i # j => s[i] # s[j]
  BY <1>1 DEF SetToSeqs
<1>3. s \in Seq(S) /\ Len(s) = n
  BY <1>2
<1>4. s \in Injection(1 .. n, S)
  BY <1>2 DEF Injection, IsInjective
<1>5. IsFiniteSet(1 .. n) /\ Cardinality(1 .. n) = n
  <2>1. 1 \in Int /\ n \in Int
    OBVIOUS
  <2>2. IsFiniteSet(1 .. n) /\ Cardinality(1 .. n) = IF 1 > n THEN 0 ELSE n - 1 + 1
    BY <2>1, FS_Interval
  <2>3. QED
    BY <2>2
<1>6. s \in Surjection(1 .. n, S)
  BY <1>1, <1>4, <1>5, FS_Injection
<1>7. \A x \in S : \E i \in 1 .. n : s[i] = x
  BY <1>6 DEF Surjection
<1>8. QED
  BY <1>1, <1>2, <1>3, <1>7

\* The image of a finite set under a function that tells its members apart has as many.
LEMMA ImageCounts ==
  ASSUME NEW S, IsFiniteSet(S), NEW f, \A x, y \in S : f[x] = f[y] => x = y
  PROVE  Cardinality({f[x] : x \in S}) = Cardinality(S)
<1>1. PICK g : g = [x \in S |-> f[x]]
  OBVIOUS
<1>2. PICK T : T = {f[x] : x \in S}
  OBVIOUS
<1>3. g \in Injection(S, T) /\ g \in Surjection(S, T)
  BY <1>1, <1>2 DEF Injection, Surjection, IsInjective
<1>4. ExistsBijection(S, T)
  BY <1>3 DEF ExistsBijection, Bijection
<1>5. QED
  BY <1>2, <1>4, FS_Bijection

LEMMA ObjectCountIs ==
  ASSUME Len(sorted) \in Nat
  PROVE  /\ ObjectCount \in Nat /\ ObjectCount <= Len(sorted) /\ ObjectCount <= MaxObjects
         /\ ObjectCount = Len(sorted) \/ ObjectCount = MaxObjects
<1>1. PICK n \in Nat : n = Len(sorted)
  OBVIOUS
<1>2. MaxObjects \in Nat
  BY RelevantAssumption
<1>3. \E m \in {n, MaxObjects} : \A y \in {n, MaxObjects} : m =< y
  BY <1>2
<1>4. Min({n, MaxObjects}) \in {n, MaxObjects} /\ \A y \in {n, MaxObjects} : Min({n, MaxObjects}) =< y
  BY <1>3 DEF Min
<1>5. QED
  BY <1>1, <1>2, <1>4 DEF ObjectCount

LEMMA OfferNumbers == \A o \in Offer : o.distance \in Nat
BY RelevantAssumption DEF Offer

LEMMA InitObjectsInv == RelevantInit => ObjectsInv
<1> SUFFICES ASSUME RelevantInit PROVE ObjectsInv
  OBVIOUS
<1>1. LeastKept
  BY FS_EmptySet DEF RelevantInit, LeastKept
<1>2. ListRight /\ EndRight
  BY DEF RelevantInit, ListRight, EndRight
<1>3. RowsRight
  <2>1. Len(sorted) = 0 /\ Len(rows) = 0 /\ rows \in Seq(1 .. row) /\ row = 0 /\ 0 <= MaxObjects
    BY RelevantAssumption DEF RelevantInit
  <2>2. QED
    BY <2>1 DEF RowsRight
<1>4. QED
  BY <1>1, <1>2, <1>3 DEF ObjectsInv

LEMMA AddInv == ObjectsInv /\ Add => ObjectsInv'
<1> SUFFICES ASSUME ObjectsInv, Add PROVE ObjectsInv'
  OBVIOUS
<1> USE DEF ObjectsInv
<1>1. PICK o \in Offer :
        /\ relevantAt = "collect"
        /\ objects' = Kept(o) /\ offered' = offered \cup {o}
        /\ UNCHANGED <<sorted, row, rows, more, relevantAt>>
  BY DEF Add
<1>2. PICK known : known = {p \in objects : p.address = o.address}
  OBVIOUS
<1>3. objects' = IF known = {} THEN objects \cup {o}
                 ELSE IF \A p \in known : o.distance < p.distance THEN (objects \ known) \cup {o} ELSE objects
  BY <1>1, <1>2 DEF Kept
<1>4. LeastKept'
  <2>1. objects' \subseteq Offer /\ offered' \subseteq Offer
    BY <1>1, <1>3 DEF LeastKept
  <2>2. IsFiniteSet(objects')
    <3>1. IsFiniteSet(objects)
      BY DEF LeastKept
    <3>2. IsFiniteSet(objects \cup {o})
      BY <3>1, FS_AddElement
    <3>3. objects' \in SUBSET (objects \cup {o})
      BY <1>3
    <3>4. QED
      BY <3>2, <3>3, FS_Subset
  <2>3. \A p, q \in objects' : p.address = q.address => p = q
    BY <1>2, <1>3 DEF LeastKept
  <2>4. \E p \in objects' : p.address = o.address /\ p.distance <= o.distance
    <3>1. o.distance \in Nat /\ \A p \in objects : p.distance \in Nat
      BY OfferNumbers DEF LeastKept
    <3>2. CASE known = {} \/ \A p \in known : o.distance < p.distance
      <4>1. o \in objects'
        BY <1>3, <3>2
      <4>2. QED
        BY <3>1, <4>1
    <3>3. CASE ~(known = {} \/ \A p \in known : o.distance < p.distance)
      <4>1. PICK p \in known : ~(o.distance < p.distance)
        BY <3>3
      <4>2. p \in objects' /\ p \in objects /\ p.address = o.address
        BY <1>2, <1>3, <3>3, <4>1
      <4>3. QED
        BY <3>1, <4>1, <4>2
    <3>4. QED
      BY <3>2, <3>3
  <2>5. ASSUME NEW q \in offered PROVE \E p \in objects' : p.address = q.address /\ p.distance <= q.distance
    <3>1. PICK p \in objects : p.address = q.address /\ p.distance <= q.distance
      BY DEF LeastKept
    <3>2. p.distance \in Nat /\ q.distance \in Nat /\ o.distance \in Nat
      BY OfferNumbers DEF LeastKept
    <3>3. CASE p \in objects'
      BY <3>1, <3>3
    <3>4. CASE p \notin objects'
      <4>1. p \in known /\ o.distance < p.distance /\ o \in objects' /\ o.address = p.address
        BY <1>2, <1>3, <3>4
      <4>2. o.address = q.address /\ o.distance <= q.distance
        BY <3>1, <3>2, <4>1
      <4>3. QED
        BY <4>1, <4>2
    <3>5. QED
      BY <3>3, <3>4
  <2>6. QED
    BY <1>1, <2>1, <2>2, <2>3, <2>4, <2>5 DEF LeastKept
<1>5. ListRight' /\ RowsRight'
  BY <1>1 DEF ListRight, RowsRight
<1>6. EndRight'
  BY <1>1 DEF EndRight
<1>7. QED
  BY <1>4, <1>5, <1>6

LEMMA SortInv == ObjectsInv /\ Sort => ObjectsInv'
<1> SUFFICES ASSUME ObjectsInv, Sort PROVE ObjectsInv'
  OBVIOUS
<1> USE DEF ObjectsInv
<1>1. /\ relevantAt = "collect" /\ relevantAt' = "print" /\ sorted' \in SetToSeqs(objects)
      /\ \A i, j \in 1 .. Len(sorted') : i < j => sorted'[i].distance <= sorted'[j].distance
      /\ UNCHANGED <<objects, row, rows, more, offered>>
  BY DEF Sort
<1>2. /\ sorted' \in Seq(objects) /\ Len(sorted') = Cardinality(objects) /\ Len(sorted') \in Nat
      /\ \A i, j \in 1 .. Len(sorted') : i # j => sorted'[i] # sorted'[j]
      /\ \A x \in objects : \E i \in 1 .. Len(sorted') : sorted'[i] = x
  <2>1. IsFiniteSet(objects)
    BY DEF LeastKept
  <2>2. \A s \in SetToSeqs(objects) :
          /\ s \in Seq(objects) /\ Len(s) = Cardinality(objects) /\ Len(s) \in Nat
          /\ \A i, j \in 1 .. Len(s) : i # j => s[i] # s[j]
          /\ \A x \in objects : \E i \in 1 .. Len(s) : s[i] = x
    BY <2>1, ListOfSet
  <2>3. QED
    BY <1>1, <2>2
<1>3. LeastKept' /\ ListRight' /\ EndRight'
  BY <1>1, <1>2 DEF LeastKept, ListRight, EndRight
<1>4. RowsRight'
  <2>1. row = 0 /\ rows = <<>> /\ row' = 0 /\ rows' = <<>>
    BY <1>1 DEF ListRight
  <2>2. Len(rows') = 0 /\ rows' \in Seq(1 .. row') /\ 0 <= MaxObjects /\ 0 <= Len(sorted')
    BY <1>2, <2>1, RelevantAssumption
  <2>3. QED
    BY <2>1, <2>2 DEF RowsRight
<1>5. QED
  BY <1>3, <1>4

LEMMA PrintRowInv == ObjectsInv /\ PrintRow => ObjectsInv'
<1> SUFFICES ASSUME ObjectsInv, PrintRow PROVE ObjectsInv'
  OBVIOUS
<1> USE DEF ObjectsInv
<1>1. /\ relevantAt = "print" /\ row < ObjectCount /\ row' = row + 1
      /\ rows' = IF Simplified(sorted[row + 1].analysis) = <<>> THEN rows ELSE Append(rows, row + 1)
      /\ UNCHANGED <<objects, sorted, more, relevantAt, offered>>
  BY DEF PrintRow
<1>2. LeastKept' /\ ListRight' /\ EndRight'
  BY <1>1 DEF LeastKept, ListRight, EndRight
<1>3. sorted \in Seq(objects) /\ Len(sorted) \in Nat
  BY <1>1 DEF ListRight
<1>4. /\ row \in Nat /\ rows \in Seq(1 .. row) /\ Len(rows) <= row
      /\ \A j, k \in 1 .. Len(rows) : j < k => rows[j] < rows[k]
      /\ \A i \in 1 .. row : Simplified(sorted[i].analysis) = <<>> \/ \E k \in 1 .. Len(rows) : rows[k] = i
  BY DEF RowsRight
<1>5. row' \in Nat /\ row' <= Len(sorted) /\ row' <= MaxObjects
  BY <1>1, <1>3, <1>4, ObjectCountIs, RelevantAssumption
<1>6. PICK n \in Nat : n = Len(rows)
  BY <1>4
<1>7. \A k \in 1 .. n : rows[k] \in 1 .. row
  BY <1>4, <1>6
<1>8. CASE Simplified(sorted[row + 1].analysis) = <<>>
  <2>1. rows' = rows
    BY <1>1, <1>8
  <2>2. rows \in Seq(1 .. row') /\ Len(rows) <= row'
    BY <1>1, <1>4, <1>6, <1>7
  <2>3. \A i \in 1 .. row' : i = row + 1 \/ i \in 1 .. row
    BY <1>1, <1>4
  <2>4. \A i \in 1 .. row' : Simplified(sorted'[i].analysis) = <<>> \/ \E k \in 1 .. Len(rows') : rows'[k] = i
    BY <1>1, <1>4, <1>8, <2>1, <2>3
  <2>5. QED
    BY <1>1, <1>2, <1>4, <1>5, <2>1, <2>2, <2>4 DEF RowsRight
<1>9. CASE Simplified(sorted[row + 1].analysis) # <<>>
  <2>1. rows' = Append(rows, row + 1)
    BY <1>1, <1>9
  <2>2. rows \in Seq(1 .. row + 1) /\ row + 1 \in 1 .. row + 1
    BY <1>4, <1>6, <1>7
  <2>3. /\ rows' \in Seq(1 .. row + 1) /\ Len(rows') = n + 1 /\ rows'[n + 1] = row + 1
        /\ \A k \in 1 .. n : rows'[k] = rows[k]
    BY <1>6, <2>1, <2>2
  <2>4. \A k \in 1 .. n + 1 : k = n + 1 \/ k \in 1 .. n
    BY <1>6
  <2>5. \A j, k \in 1 .. n + 1 : j < k => rows'[j] < rows'[k]
    <3>1. \A j, k \in 1 .. n : j < k => rows'[j] < rows'[k]
      BY <1>4, <1>6, <2>3
    <3>2. \A j \in 1 .. n : rows'[j] < rows'[n + 1]
      BY <1>4, <1>7, <2>3
    <3>3. \A j, k \in 1 .. n + 1 : j < k => j \in 1 .. n
      BY <1>6
    <3>4. QED
      BY <2>4, <3>1, <3>2, <3>3
  <2>6. \A i \in 1 .. row + 1 : Simplified(sorted[i].analysis) = <<>> \/ \E k \in 1 .. n + 1 : rows'[k] = i
    <3>1. \A i \in 1 .. row + 1 : i = row + 1 \/ i \in 1 .. row
      BY <1>4
    <3>2. n + 1 \in 1 .. n + 1 /\ \A k \in 1 .. n : k \in 1 .. n + 1
      BY <1>6
    <3>3. QED
      BY <1>4, <1>6, <2>3, <3>1, <3>2
  <2>7. Len(rows') <= row'
    BY <1>1, <1>4, <1>6, <2>3
  <2>8. QED
    BY <1>1, <1>2, <1>5, <2>3, <2>5, <2>6, <2>7 DEF RowsRight
<1>10. QED
  BY <1>8, <1>9

LEMMA StepObjectsInv == ObjectsInv /\ [RelevantNext]_relevantVars => ObjectsInv'
<1> SUFFICES ASSUME ObjectsInv, [RelevantNext]_relevantVars PROVE ObjectsInv'
  OBVIOUS
<1>1. CASE PrintEnd
  <2>1. /\ relevantAt = "print" /\ row = ObjectCount /\ more' = Len(sorted) - ObjectCount
        /\ relevantAt' = IF ObjectCount = 0 THEN "none found" ELSE "done"
        /\ UNCHANGED <<objects, sorted, row, rows, offered>>
    BY <1>1 DEF PrintEnd
  <2>2. LeastKept' /\ ListRight' /\ RowsRight'
    <3>1. LeastKept'
      BY <2>1 DEF ObjectsInv, LeastKept
    <3>2. ListRight'
      <4>1. /\ sorted' \in Seq(objects') /\ Len(sorted') = Cardinality(objects')
            /\ \A i, j \in 1 .. Len(sorted') : i # j => sorted'[i] # sorted'[j]
            /\ \A o \in objects' : \E i \in 1 .. Len(sorted') : sorted'[i] = o
            /\ \A i, j \in 1 .. Len(sorted') : i < j => sorted'[i].distance <= sorted'[j].distance
        <5>1. objects' = objects /\ sorted' = sorted /\ relevantAt # "collect"
          BY <2>1
        <5>2. /\ sorted \in Seq(objects) /\ Len(sorted) = Cardinality(objects)
              /\ \A i, j \in 1 .. Len(sorted) : i # j => sorted[i] # sorted[j]
              /\ \A o \in objects : \E i \in 1 .. Len(sorted) : sorted[i] = o
              /\ \A i, j \in 1 .. Len(sorted) : i < j => sorted[i].distance <= sorted[j].distance
          BY <5>1 DEF ObjectsInv, ListRight
        <5>3. QED
          BY <5>1, <5>2
      <4>2. relevantAt' \in {"done", "none found"}
        BY <2>1
      <4>3. QED
        BY <4>1, <4>2 DEF ListRight
    <3>3. RowsRight'
      BY <2>1 DEF ObjectsInv, RowsRight
    <3>4. QED
      BY <3>1, <3>2, <3>3
  <2>3. ObjectCount' = ObjectCount /\ more' \in Nat
    <3>1. sorted \in Seq(objects)
      BY <2>1 DEF ObjectsInv, ListRight
    <3>2. Len(sorted) \in Nat
      BY <3>1
    <3>3. more' \in Nat
      <4>1. ObjectCount \in Nat /\ ObjectCount <= Len(sorted)
        BY <3>2, ObjectCountIs
      <4>2. more' = Len(sorted) - ObjectCount
        BY <2>1
      <4>3. QED
        BY <3>2, <4>1, <4>2
    <3>4. QED
      BY <2>1, <3>3 DEF ObjectCount
  <2>4. EndRight'
    BY <2>1, <2>3 DEF EndRight
  <2>5. QED
    BY <2>2, <2>4 DEF ObjectsInv
<1>2. CASE PrintFails
  BY <1>2 DEF PrintFails, ObjectsInv, LeastKept, ListRight, RowsRight, EndRight
<1>3. CASE UNCHANGED relevantVars
  <2>1. UNCHANGED <<objects, sorted, row, rows, more, relevantAt, offered>>
    BY <1>3 DEF relevantVars
  <2>2. ObjectCount' = ObjectCount
    BY <2>1 DEF ObjectCount
  <2>3. LeastKept' /\ ListRight'
    <3>1. objects' = objects /\ sorted' = sorted /\ row' = row /\ rows' = rows /\ relevantAt' = relevantAt /\ offered' = offered
      BY <2>1
    <3>2. LeastKept'
      BY <3>1 DEF ObjectsInv, LeastKept
    <3>3. ListRight = ListRight'
      BY <3>1 DEF ListRight
    <3>4. QED
      BY <3>2, <3>3 DEF ObjectsInv
  <2>4. RowsRight' /\ EndRight'
    BY <2>1, <2>2 DEF ObjectsInv, RowsRight, EndRight
  <2>5. QED
    BY <2>3, <2>4 DEF ObjectsInv
<1>4. QED
  BY <1>1, <1>2, <1>3, AddInv, SortInv, PrintRowInv DEF RelevantNext

LEMMA ObjectsInvHolds == RelevantSpec => []ObjectsInv
BY InitObjectsInv, StepObjectsInv, PTL DEF RelevantSpec

\* Every variable of the section has its kind: not more rows than objects were looked at,
\* and not more of these than the limit (print_relevant_objects_section).
THEOREM RelevantTypeCorrect == RelevantSpec => []RelevantTypeOK
<1>1. ObjectsInv => RelevantTypeOK
  <2> SUFFICES ASSUME ObjectsInv PROVE RelevantTypeOK
    OBVIOUS
  <2> USE DEF ObjectsInv
  <2>1. Cardinality(objects) \in Nat
    BY FS_CardinalityType DEF LeastKept
  <2>2. Len(sorted) <= Cardinality(objects)
    <3>1. CASE relevantAt = "collect"
      <4>1. Len(sorted) = 0
        BY <3>1 DEF ListRight
      <4>2. QED
        BY <2>1, <4>1
    <3>2. CASE relevantAt # "collect"
      <4>1. Len(sorted) = Cardinality(objects)
        BY <3>2 DEF ListRight
      <4>2. QED
        BY <2>1, <4>1
    <3>3. QED
      BY <3>1, <3>2
  <2>3. row \in 0 .. MaxObjects
    BY RelevantAssumption DEF RowsRight
  <2>4. QED
    BY <2>2, <2>3 DEF RelevantTypeOK, LeastKept, ListRight, RowsRight, EndRight
<1>2. QED
  BY <1>1, ObjectsInvHolds, PTL

\* Whatever the order in which objects were offered, the section shows the nearest, each
\* at its least distance, and tells how many it has left out
\* (RelevantObjectsCollection::add, print_relevant_objects_section).
THEOREM NearestAreShown == RelevantSpec => []NearestShown
<1>1. ObjectsInv => NearestShown
  <2>0. SUFFICES ASSUME ObjectsInv, relevantAt \in {"done", "none found"},
                      NEW Shown, Shown = {sorted[rows[k]] : k \in 1 .. Len(rows)},
                      NEW Reached, Reached = {sorted[i] : i \in 1 .. ObjectCount}
               PROVE  /\ \A o \in offered : \E p \in objects : p.address = o.address /\ p.distance <= o.distance
                      /\ Cardinality(objects) = Cardinality({o.address : o \in objects})
                      /\ \A j, k \in 1 .. Len(rows) : j < k => sorted[rows[j]].distance <= sorted[rows[k]].distance
                      /\ \A o \in objects \ Shown : \/ Simplified(o.analysis) = <<>>
                                                    \/ more > 0 /\ \A p \in Reached : p.distance <= o.distance
                      /\ more + Cardinality(Reached) = Cardinality(objects)
                      /\ relevantAt = "none found" <=> objects = {}
    BY DEF NearestShown
  <2>z. LeastKept /\ ListRight /\ RowsRight /\ EndRight
    BY <2>0 DEF ObjectsInv
  <2>1. /\ sorted \in Seq(objects) /\ Len(sorted) = Cardinality(objects)
        /\ \A i, j \in 1 .. Len(sorted) : i # j => sorted[i] # sorted[j]
        /\ \A o \in objects : \E i \in 1 .. Len(sorted) : sorted[i] = o
        /\ \A i, j \in 1 .. Len(sorted) : i < j => sorted[i].distance <= sorted[j].distance
    BY <2>0, <2>z DEF ListRight
  <2>a. Len(sorted) \in Nat
    BY <2>1
  <2>b. ObjectCount \in Nat
    BY <2>a, ObjectCountIs
  <2>2. PICK n \in Nat, c \in Nat : n = Len(sorted) /\ c = ObjectCount
    BY <2>a, <2>b
  <2>3. c <= n /\ c <= MaxObjects /\ (c = n \/ c = MaxObjects) /\ row = c /\ more = n - c
    BY <2>a, <2>2, ObjectCountIs, <2>0, <2>z DEF EndRight
  <2>c. relevantAt = "none found" <=> c = 0
    BY <2>0, <2>2, <2>z DEF EndRight
  <2>4. /\ rows \in Seq(1 .. c) /\ \A j, k \in 1 .. Len(rows) : j < k => rows[j] < rows[k]
        /\ \A i \in 1 .. c : Simplified(sorted[i].analysis) = <<>> \/ \E k \in 1 .. Len(rows) : rows[k] = i
    BY <2>3, <2>z DEF RowsRight
  <2>5. \A o \in offered : \E p \in objects : p.address = o.address /\ p.distance <= o.distance
    BY <2>z DEF LeastKept
  <2>6. Cardinality(objects) = Cardinality({o.address : o \in objects})
    <3>1. PICK f : f = [o \in objects |-> o.address]
      OBVIOUS
    <3>2. {o.address : o \in objects} = {f[o] : o \in objects}
      BY <3>1
    <3>3. \A x, y \in objects : f[x] = f[y] => x = y
      BY <3>1, <2>z DEF LeastKept
    <3>4. IsFiniteSet(objects)
      BY <2>z DEF LeastKept
    <3>5. Cardinality({f[o] : o \in objects}) = Cardinality(objects)
      BY <3>3, <3>4, ImageCounts
    <3>6. QED
      BY <3>2, <3>5
  <2>7. \A i \in 1 .. c : i \in 1 .. n
    BY <2>2, <2>3
  <2>8. \A j, k \in 1 .. Len(rows) : j < k => sorted[rows[j]].distance <= sorted[rows[k]].distance
    <3>1. \A k \in 1 .. Len(rows) : rows[k] \in 1 .. n
      <4>1. rows \in Seq(1 .. c)
        BY <2>4
      <4>2. \A k \in 1 .. Len(rows) : rows[k] \in 1 .. c
        BY <4>1
      <4>3. QED
        BY <2>7, <4>2
    <3>2. QED
      BY <2>1, <2>2, <2>4, <3>1
  <2>9. ASSUME NEW o \in objects \ Shown
        PROVE  \/ Simplified(o.analysis) = <<>>
               \/ more > 0 /\ \A p \in Reached : p.distance <= o.distance
    <3>1. PICK i \in 1 .. n : sorted[i] = o
      BY <2>1, <2>2
    <3>2. CASE i \in 1 .. c
      BY <2>0, <2>4, <2>9, <3>1, <3>2
    <3>3. CASE i \notin 1 .. c
      <4>1. more > 0 /\ \A j \in 1 .. c : j < i
        BY <2>2, <2>3, <3>3
      <4>2. \A j \in 1 .. c : sorted[j].distance <= o.distance
        BY <2>1, <2>2, <2>7, <3>1, <4>1
      <4>3. QED
        BY <2>0, <2>2, <4>1, <4>2
    <3>4. QED
      BY <3>2, <3>3
  <2>10. Cardinality(Reached) = c
    <3>1. IsFiniteSet(1 .. c) /\ Cardinality(1 .. c) = c
      <4>1. 1 \in Int /\ c \in Int
        BY <2>2
      <4>2. IsFiniteSet(1 .. c) /\ Cardinality(1 .. c) = IF 1 > c THEN 0 ELSE c - 1 + 1
        BY <4>1, FS_Interval
      <4>3. QED
        BY <2>2, <4>2
    <3>2. \A x, y \in 1 .. c : sorted[x] = sorted[y] => x = y
      BY <2>1, <2>2, <2>7
    <3>3. Reached = {sorted[x] : x \in 1 .. c}
      BY <2>0, <2>2
    <3>4. Cardinality({sorted[x] : x \in 1 .. c}) = Cardinality(1 .. c)
      BY <3>1, <3>2, ImageCounts
    <3>5. QED
      BY <3>1, <3>3, <3>4
  <2>11. more + Cardinality(Reached) = Cardinality(objects)
    BY <2>1, <2>2, <2>3, <2>10
  <2>12. relevantAt = "none found" <=> objects = {}
    <3>1. c = 0 <=> n = 0
      BY <2>2, <2>3, RelevantAssumption
    <3>2. n = 0 <=> objects = {}
      BY <2>1, <2>2, FS_EmptySet, <2>z DEF LeastKept
    <3>3. QED
      BY <2>c, <3>1, <3>2
  <2>13. QED
    BY <2>5, <2>6, <2>8, <2>9, <2>11, <2>12
<1>2. QED
  BY <1>1, ObjectsInvHolds, PTL

-----------------------------------------------------------------------------
(* The table of modules                                                     *)

Once(s) == \A i, j \in 1 .. Len(s) : i # j => s[i] # s[j]

\* The kinds of the variables: what is loaded is loaded once, and is all that was there
\* all the time and more.
ModulesKinds ==
  /\ loaded \in Seq(Images) /\ Once(loaded) /\ steady \subseteq Members(loaded)
  /\ needed \in Nat /\ needed <= Cardinality(Images)
  /\ handles \in Seq(Images \cup {Null}) /\ results \in Seq(Images \cup {Null}) /\ table \in Seq(Images)
  /\ modulesAt \in {"enumerate", "describe", "done", "fault"}
  /\ enumFailed \in BOOLEAN /\ changes \in 0 .. MaxChanges

\* Before the last turn of the loop the buffer is too small for what was needed, and once
\* something was needed, what stays is among so many modules of the front: those that go
\* only move it forward.
SteadyInFront == needed = 0 \/ \A m \in steady : \E i \in 1 .. Len(loaded) : i <= needed /\ loaded[i] = m
LoopRight == modulesAt = "enumerate" =>
  /\ Len(handles) < needed \/ (needed = 0 /\ Len(handles) = 0)
  /\ changes = 0 => needed = 0 \/ needed = Len(loaded)
  /\ SteadyInFront

\* In the last turn the handles are those of modules that were all loaded at once, and
\* with them everything that stays, or the buffer ends in a null handle, or nothing was
\* enumerated because the call failed.
HandlesRight == modulesAt = "describe" =>
  /\ Len(results) = Len(handles)
  /\ \A i \in 1 .. Len(handles) : results[i] = Null \/ results[i] = handles[i]
  /\ \/ \E i \in 1 .. Len(handles) : handles[i] = Null
     \/ /\ Once(handles) /\ handles \in Seq(Images)
        /\ (\A m \in steady : \E i \in 1 .. Len(handles) : handles[i] = m) \/ (enumFailed /\ Len(handles) = 0)
  /\ changes = 0 => handles = loaded \/ enumFailed

TableInOrder == modulesAt = "done" =>
  /\ \A i, j \in 1 .. Len(table) : i < j => table[i].base < table[j].base
  /\ (\A m \in steady : \E i \in 1 .. Len(table) : table[i] = m) \/ (enumFailed /\ Len(table) = 0)

FaultRight == modulesAt = "fault" => changes > 0 \/ enumFailed

ModulesInv == ModulesKinds /\ LoopRight /\ HandlesRight /\ TableInOrder /\ FaultRight

LEMMA ImageFacts ==
  /\ \A m \in Images : m # Null /\ m.base \in 1 .. Top /\ m.size \in 1 .. Top
  /\ \A m, n \in Images : m # n => m.base + m.size <= n.base \/ n.base + n.size <= m.base
  /\ \A m, n \in Images : m.base = n.base => m = n
<1>1. \A m \in Images : m \in [base : 1 .. Top, size : 1 .. Top]
  BY ImagesAssumption
<1>2. \A m \in Images : m.base \in 1 .. Top /\ m.size \in 1 .. Top
  BY <1>1
<1>3. \A m \in Images : m # Null
  BY <1>2, ImagesAssumption DEF Null
<1>4. \A m, n \in Images : m # n => m.base + m.size <= n.base \/ n.base + n.size <= m.base
  BY ImagesAssumption
<1>5. \A m, n \in Images : m.base = n.base => m = n
  BY <1>2, <1>4, ImagesAssumption
<1>6. QED
  BY <1>2, <1>3, <1>4, <1>5

LEMMA ImagesFinite == IsFiniteSet(Images) /\ Cardinality(Images) \in Nat
<1>1. IsFiniteSet(1 .. Top)
  <2>1. 1 \in Int /\ Top \in Int
    BY ImagesAssumption
  <2>2. QED
    BY <2>1, FS_Interval
<1>2. PICK f : f = [m \in Images |-> m.base]
  OBVIOUS
<1>3. f \in Injection(Images, 1 .. Top)
  BY <1>2, ImageFacts DEF Injection, IsInjective
<1>4. IsFiniteSet(Images)
  BY <1>1, <1>3, FS_Injection
<1>5. QED
  BY <1>4, FS_CardinalityType

\* No more modules are loaded than there are.
LEMMA OnceIsShort ==
  ASSUME NEW s \in Seq(Images), Once(s)
  PROVE  Len(s) <= Cardinality(Images)
<1>1. PICK n \in Nat : n = Len(s)
  OBVIOUS
<1>2. s \in [1 .. n -> Images]
  BY <1>1
<1>3. s \in Injection(1 .. n, Images)
  BY <1>1, <1>2 DEF Once, Injection, IsInjective
<1>4. Cardinality(1 .. n) <= Cardinality(Images)
  BY <1>3, ImagesFinite, FS_Injection
<1>5. Cardinality(1 .. n) = n
  <2>1. 1 \in Int /\ n \in Int
    OBVIOUS
  <2>2. Cardinality(1 .. n) = IF 1 > n THEN 0 ELSE n - 1 + 1
    BY <2>1, FS_Interval
  <2>3. QED
    BY <2>2
<1>6. QED
  BY <1>1, <1>4, <1>5

LEMMA RemovedOnce ==
  ASSUME NEW s \in Seq(Images), Once(s), NEW k \in 1 .. Len(s)
  PROVE  /\ RemoveAt(s, k) \in Seq(Images) /\ Once(RemoveAt(s, k))
         /\ Members(RemoveAt(s, k)) = Members(s) \ {s[k]}
         /\ \A j \in 1 .. Len(s) : j # k =>
              \E i \in 1 .. Len(RemoveAt(s, k)) : i <= j /\ RemoveAt(s, k)[i] = s[j]
<1>1. PICK n \in Nat : Len(s) = n + 1
  <2>1. Len(s) \in Nat /\ Len(s) # 0
    OBVIOUS
  <2>2. QED
    BY <2>1
<1>2. PICK before, after : before = SubSeq(s, 1, k - 1) /\ after = SubSeq(s, k + 1, Len(s))
  OBVIOUS
<1>3. PICK t : t = RemoveAt(s, k)
  OBVIOUS
<1>4. k \in 1 .. n + 1 /\ \A j \in 1 .. n + 1 : s[j] \in Images
  BY <1>1
<1>5. /\ before \in Seq(Images) /\ Len(before) = k - 1
      /\ \A j \in 1 .. k - 1 : before[j] = s[j]
  <2>1. PICK b : b = [j \in 1 .. k - 1 |-> s[j]]
    OBVIOUS
  <2>2. b \in Seq(Images) /\ Len(b) = k - 1 /\ \A j \in 1 .. k - 1 : b[j] = s[j]
    BY <1>4, <2>1
  <2>3. before = b
    BY <1>1, <1>2, <1>4, <2>1
  <2>4. QED
    BY <2>2, <2>3
<1>6. /\ after \in Seq(Images) /\ Len(after) = n + 1 - k
      /\ \A j \in 1 .. n + 1 - k : after[j] = s[k + j]
  <2>1. after \in Seq(Images)
    BY <1>1, <1>2, <1>4, SubSeqProperties
  <2>2. Len(after) = n + 1 - k
    BY <1>1, <1>2, <1>4
  <2>3. \A j \in 1 .. n + 1 - k : after[j] = s[k + j]
    BY <1>1, <1>2, <1>4
  <2>4. QED
    BY <2>1, <2>2, <2>3
<1>7. t = before \o after
  BY <1>2, <1>3 DEF RemoveAt
<1>8. t \in Seq(Images) /\ Len(t) = n
  <2>1. t \in Seq(Images) /\ Len(t) = Len(before) + Len(after)
    BY <1>5, <1>6, <1>7, ConcatProperties
  <2>2. QED
    BY <1>4, <1>5, <1>6, <2>1
<1>9. \A j \in 1 .. n : /\ j < k => t[j] = s[j]
                        /\ j >= k => t[j] = s[j + 1]
  <2>1. ASSUME NEW j \in 1 .. n, j < k PROVE t[j] = s[j]
    BY <1>1, <1>4, <1>5, <1>6, <1>7, <2>1
  <2>2. ASSUME NEW j \in 1 .. n, j >= k PROVE t[j] = s[j + 1]
    <3>1. t[j] = after[j - (k - 1)]
      BY <1>1, <1>4, <1>5, <1>6, <1>7, <2>2
    <3>2. j - (k - 1) \in 1 .. n + 1 - k /\ k + (j - (k - 1)) = j + 1
      BY <1>1, <1>4, <2>2
    <3>3. QED
      BY <1>6, <3>1, <3>2
  <2>3. QED
    BY <2>1, <2>2
<1>10. \A j \in 1 .. n : j \in 1 .. n + 1 /\ j + 1 \in 1 .. n + 1
  OBVIOUS
<1>11. Once(t)
  <2> SUFFICES ASSUME NEW i \in 1 .. n, NEW j \in 1 .. n, i # j PROVE t[i] # t[j]
    BY <1>8 DEF Once
  <2>1. \A a, b \in 1 .. n + 1 : a # b => s[a] # s[b]
    BY <1>1 DEF Once
  <2>2. CASE i < k /\ j < k
    BY <1>9, <1>10, <2>1, <2>2
  <2>3. CASE i >= k /\ j >= k
    <3>1. i + 1 # j + 1
      OBVIOUS
    <3>2. QED
      BY <1>9, <1>10, <2>1, <2>3, <3>1
  <2>4. CASE i < k /\ j >= k
    <3>1. i # j + 1
      BY <1>4, <2>4
    <3>2. QED
      BY <1>9, <1>10, <2>1, <2>4, <3>1
  <2>5. CASE i >= k /\ j < k
    <3>1. i + 1 # j
      BY <1>4, <2>5
    <3>2. QED
      BY <1>9, <1>10, <2>1, <2>5, <3>1
  <2>6. QED
    BY <1>4, <2>2, <2>3, <2>4, <2>5
<1>12. \A j \in 1 .. n + 1 : j # k => \E i \in 1 .. n : i <= j /\ t[i] = s[j]
  <2>1. ASSUME NEW j \in 1 .. n + 1, j < k PROVE \E i \in 1 .. n : i <= j /\ t[i] = s[j]
    <3>1. j \in 1 .. n
      BY <1>4, <2>1
    <3>2. QED
      BY <1>9, <2>1, <3>1
  <2>2. ASSUME NEW j \in 1 .. n + 1, j > k PROVE \E i \in 1 .. n : i <= j /\ t[i] = s[j]
    <3>1. j - 1 \in 1 .. n /\ j - 1 >= k /\ (j - 1) + 1 = j /\ j - 1 <= j
      BY <1>4, <2>2
    <3>2. t[j - 1] = s[j]
      BY <1>9, <3>1
    <3>3. QED
      BY <3>1, <3>2
  <2>3. \A j \in 1 .. n + 1 : j # k => j < k \/ j > k
    BY <1>4
  <2>4. QED
    BY <2>1, <2>2, <2>3
<1>13. Members(t) = Members(s) \ {s[k]}
  <2>1. \A j \in 1 .. n : t[j] \in Members(s) /\ t[j] # s[k]
    <3>1. ASSUME NEW j \in 1 .. n, j < k PROVE t[j] \in Members(s) /\ t[j] # s[k]
      BY <1>1, <1>4, <1>9, <1>10, <3>1 DEF Members, Once
    <3>2. ASSUME NEW j \in 1 .. n, j >= k PROVE t[j] \in Members(s) /\ t[j] # s[k]
      <4>1. j + 1 # k /\ t[j] = s[j + 1] /\ j + 1 \in 1 .. n + 1
        BY <1>4, <1>9, <1>10, <3>2
      <4>2. QED
        BY <1>1, <1>4, <4>1 DEF Members, Once
    <3>3. QED
      BY <1>4, <3>1, <3>2
  <2>2. \A j \in 1 .. n + 1 : j # k => \E i \in 1 .. n : t[i] = s[j]
    BY <1>12
  <2>3. Members(s) = {s[j] : j \in 1 .. n + 1} /\ Members(t) = {t[j] : j \in 1 .. n}
    BY <1>1, <1>8 DEF Members
  <2>4. \A x \in Members(t) : x \in Members(s) \ {s[k]}
    BY <2>1, <2>3
  <2>5. \A x \in Members(s) \ {s[k]} : x \in Members(t)
    BY <2>2, <2>3
  <2>6. QED
    BY <2>4, <2>5
<1>14. QED
  BY <1>1, <1>3, <1>8, <1>11, <1>12, <1>13

LEMMA InitModulesInv == ModulesInit => ModulesInv
<1> SUFFICES ASSUME ModulesInit PROVE ModulesInv
  OBVIOUS
<1>1. PICK m \in Nat : loaded \in [1 .. m -> Images]
  BY ImagesFinite DEF ModulesInit, SeqOf
<1>2. loaded \in Seq(Images) /\ Len(loaded) = m
  BY <1>1
<1>3. Once(loaded)
  BY <1>1, <1>2 DEF ModulesInit, IsInjective, Once
<1>4. Len(handles) = 0 /\ needed = 0 /\ needed \in Nat /\ needed <= Cardinality(Images)
  BY ImagesFinite DEF ModulesInit
<1>5. ModulesKinds
  <2>1. changes \in 0 .. MaxChanges
    BY ImagesAssumption DEF ModulesInit
  <2>2. enumFailed \in BOOLEAN
    BY Zenon DEF ModulesInit
  <2>3. table \in Seq(Images) /\ handles \in Seq(Images \cup {Null}) /\ results \in Seq(Images \cup {Null})
    BY DEF ModulesInit
  <2>4. QED
    BY <1>2, <1>3, <1>4, <2>1, <2>2, <2>3 DEF ModulesInit, ModulesKinds
<1>6. QED
  BY <1>4, <1>5 DEF ModulesInit, ModulesInv, LoopRight, SteadyInFront, HandlesRight, TableInOrder, FaultRight

LEMMA LoadInv == ModulesInv /\ Load => ModulesInv'
<1> SUFFICES ASSUME ModulesInv, Load PROVE ModulesInv'
  OBVIOUS
<1> USE DEF ModulesInv
<1>1. PICK m \in Images \ Members(loaded) :
        /\ modulesAt \in {"enumerate", "describe"} /\ changes < MaxChanges
        /\ loaded' = Append(loaded, m) /\ changes' = changes + 1
        /\ UNCHANGED <<handles, needed, results, table, modulesAt, steady, enumFailed>>
  BY DEF Load
<1>2. loaded \in Seq(Images) /\ Once(loaded) /\ steady \subseteq Members(loaded)
  BY DEF ModulesKinds
<1>3. PICK n \in Nat : n = Len(loaded)
  BY <1>2
<1>4. /\ loaded' \in Seq(Images) /\ Len(loaded') = n + 1 /\ loaded'[n + 1] = m
      /\ \A i \in 1 .. n : loaded'[i] = loaded[i]
  BY <1>1, <1>2, <1>3
<1>5. \A i \in 1 .. n + 1 : i = n + 1 \/ i \in 1 .. n
  BY <1>3
<1>6. Once(loaded')
  <2>1. \A i \in 1 .. n : loaded[i] # m
    BY <1>1, <1>3 DEF Members
  <2>2. QED
    BY <1>2, <1>3, <1>4, <1>5, <2>1 DEF Once
<1>7. steady \subseteq Members(loaded')
  <2>1. Members(loaded) \subseteq Members(loaded')
    <3>1. \A i \in 1 .. n : i \in 1 .. n + 1
      BY <1>3
    <3>2. QED
      BY <1>3, <1>4, <3>1 DEF Members
  <2>2. QED
    BY <1>2, <2>1
<1>8. changes \in Nat /\ changes' \in 0 .. MaxChanges /\ changes' # 0 /\ changes' > 0
  <2>1. changes \in 0 .. MaxChanges
    BY DEF ModulesKinds
  <2>2. QED
    BY <1>1, <2>1, ImagesAssumption
<1>9. ModulesKinds'
  BY <1>1, <1>4, <1>6, <1>7, <1>8 DEF ModulesKinds
<1>10. HandlesRight'
  BY <1>1, <1>8 DEF HandlesRight
<1>11. SteadyInFront => SteadyInFront'
  <2>1. \A i \in 1 .. n : i \in 1 .. Len(loaded') /\ loaded'[i] = loaded[i]
    BY <1>3, <1>4
  <2>2. QED
    BY <1>1, <1>3, <2>1 DEF SteadyInFront
<1>12. LoopRight'
  BY <1>1, <1>8, <1>11 DEF LoopRight
<1>13. QED
  BY <1>1, <1>8, <1>9, <1>10, <1>12 DEF TableInOrder, FaultRight

LEMMA UnloadInv == ModulesInv /\ Unload => ModulesInv'
<1> SUFFICES ASSUME ModulesInv, Unload PROVE ModulesInv'
  OBVIOUS
<1> USE DEF ModulesInv
<1>1. PICK k \in 1 .. Len(loaded) :
        /\ modulesAt \in {"enumerate", "describe"} /\ changes < MaxChanges
        /\ loaded' = RemoveAt(loaded, k) /\ changes' = changes + 1
        /\ steady' = steady \ {loaded[k]}
        /\ UNCHANGED <<handles, needed, results, table, modulesAt, enumFailed>>
  BY DEF Unload
<1>2. loaded \in Seq(Images) /\ Once(loaded) /\ steady \subseteq Members(loaded)
  BY DEF ModulesKinds
<1>3. /\ RemoveAt(loaded, k) \in Seq(Images) /\ Once(RemoveAt(loaded, k))
      /\ Members(RemoveAt(loaded, k)) = Members(loaded) \ {loaded[k]}
      /\ \A j \in 1 .. Len(loaded) : j # k =>
           \E i \in 1 .. Len(RemoveAt(loaded, k)) : i <= j /\ RemoveAt(loaded, k)[i] = loaded[j]
  BY <1>2, RemovedOnce
<1>4. loaded' \in Seq(Images) /\ Once(loaded') /\ Members(loaded') = Members(loaded) \ {loaded[k]}
  BY <1>1, <1>3
<1>5. steady' \subseteq Members(loaded') /\ steady' \subseteq steady
  BY <1>1, <1>2, <1>4
<1>6. changes' \in 0 .. MaxChanges /\ changes' # 0 /\ changes' > 0
  <2>1. changes \in 0 .. MaxChanges
    BY DEF ModulesKinds
  <2>2. QED
    BY <1>1, <2>1, ImagesAssumption
<1>7. ModulesKinds'
  BY <1>1, <1>4, <1>5, <1>6 DEF ModulesKinds
<1>8. HandlesRight'
  BY <1>1, <1>5, <1>6 DEF HandlesRight
<1>9. SteadyInFront => SteadyInFront'
  <2> SUFFICES ASSUME SteadyInFront, needed # 0, NEW m \in steady'
               PROVE  \E i \in 1 .. Len(loaded') : i <= needed /\ loaded'[i] = m
    BY <1>1 DEF SteadyInFront
  <2>1. m \in steady /\ m # loaded[k]
    BY <1>1
  <2>2. PICK j \in 1 .. Len(loaded) : j <= needed /\ loaded[j] = m
    BY <2>1 DEF SteadyInFront
  <2>3. PICK i \in 1 .. Len(loaded') : i <= j /\ loaded'[i] = m
    BY <1>1, <1>3, <2>1, <2>2
  <2>4. i \in Nat /\ j \in Nat /\ needed \in Nat
    BY <1>2, <1>4 DEF ModulesKinds
  <2>5. QED
    BY <2>2, <2>3, <2>4
<1>10. LoopRight'
  BY <1>1, <1>6, <1>9 DEF LoopRight
<1>11. QED
  BY <1>1, <1>6, <1>7, <1>8, <1>10 DEF TableInOrder, FaultRight

LEMMA EnumerateInv == ModulesInv /\ Enumerate => ModulesInv'
<1> SUFFICES ASSUME ModulesInv, Enumerate PROVE ModulesInv'
  OBVIOUS
<1> USE DEF ModulesInv
<1>1. /\ modulesAt = "enumerate"
      /\ handles' = Filled /\ needed' = Len(loaded)
      /\ modulesAt' = IF needed < Len(loaded) THEN "enumerate" ELSE "describe"
      /\ results' = [i \in 1 .. needed |-> Null]
      /\ UNCHANGED <<loaded, table, steady, enumFailed, changes>>
  BY DEF Enumerate
<1>2. loaded \in Seq(Images) /\ Once(loaded) /\ steady \subseteq Members(loaded)
  BY DEF ModulesKinds
<1>3. PICK n \in Nat, c \in Nat : n = Len(loaded) /\ c = needed
  BY <1>2 DEF ModulesKinds
<1>4. \A i \in 1 .. n : loaded[i] \in Images
  BY <1>2, <1>3
<1>5. PICK h \in Nat : h = Len(handles) /\ \A i \in 1 .. h : handles[i] \in Images \cup {Null}
  <2>1. handles \in Seq(Images \cup {Null})
    BY DEF ModulesKinds
  <2>2. QED
    BY <2>1
<1>6. h < c \/ (c = 0 /\ h = 0)
  BY <1>1, <1>3, <1>5 DEF LoopRight
<1>7. handles' = [i \in 1 .. c |-> IF i <= n THEN loaded[i] ELSE IF i <= h THEN handles[i] ELSE Null]
  <2>1. \A i \in 1 .. c : Resized[i] = IF i <= h THEN handles[i] ELSE Null
    BY <1>3, <1>5 DEF Resized
  <2>2. QED
    BY <1>1, <1>3, <2>1 DEF Filled
<1>8. handles' \in Seq(Images \cup {Null}) /\ Len(handles') = c
  BY <1>4, <1>5, <1>7
<1>9. results' \in Seq(Images \cup {Null}) /\ Len(results') = c /\ \A i \in 1 .. c : results'[i] = Null
  BY <1>1, <1>3
<1>10. ModulesKinds'
  <2>1. n <= Cardinality(Images)
    BY <1>2, <1>3, OnceIsShort
  <2>2. QED
    BY <1>1, <1>3, <1>8, <1>9, <2>1 DEF ModulesKinds
<1>11. CASE c < n
  <2>1. modulesAt' = "enumerate" /\ Len(handles') < needed'
    BY <1>1, <1>3, <1>8, <1>11
  <2>2. SteadyInFront'
    <3>1. \A m \in steady : \E i \in 1 .. n : loaded[i] = m
      BY <1>2, <1>3 DEF Members
    <3>2. QED
      BY <1>1, <1>3, <3>1 DEF SteadyInFront
  <2>3. LoopRight'
    BY <1>1, <2>1, <2>2 DEF LoopRight
  <2>4. QED
    BY <1>10, <2>1, <2>3 DEF HandlesRight, TableInOrder, FaultRight
<1>12. CASE c = n
  <2>1. modulesAt' = "describe"
    BY <1>1, <1>3, <1>12
  <2>2. handles' = loaded
    BY <1>2, <1>3, <1>7, <1>12
  <2>3. \A m \in steady : \E i \in 1 .. Len(handles') : handles'[i] = m
    BY <1>2, <2>2 DEF Members
  <2>4. HandlesRight'
    BY <1>1, <1>2, <1>8, <1>9, <2>1, <2>2, <2>3 DEF HandlesRight
  <2>5. QED
    BY <1>10, <2>1, <2>4 DEF LoopRight, TableInOrder, FaultRight
<1>13. CASE c > n
  <2>1. modulesAt' = "describe"
    BY <1>1, <1>3, <1>13
  <2>2. c \in 1 .. c /\ c > h /\ handles'[c] = Null
    BY <1>6, <1>7, <1>13
  <2>3. changes # 0
    BY <1>1, <1>3, <1>13 DEF LoopRight
  <2>4. HandlesRight'
    BY <1>1, <1>8, <1>9, <2>1, <2>2, <2>3 DEF HandlesRight
  <2>5. QED
    BY <1>10, <2>1, <2>4 DEF LoopRight, TableInOrder, FaultRight
<1>14. QED
  BY <1>3, <1>11, <1>12, <1>13

\* The call fails: the buffer ends in a null handle still, or it was filled with what the
\* front of the list holds, or there was none.
LEMMA EnumerateFailsInv == ModulesInv /\ EnumerateFails => ModulesInv'
<1> SUFFICES ASSUME ModulesInv, EnumerateFails PROVE ModulesInv'
  OBVIOUS
<1> USE DEF ModulesInv
<1>1. PICK f \in 0 .. Len(loaded) :
        /\ modulesAt = "enumerate" /\ f <= needed
        /\ handles' = [i \in 1 .. needed |-> IF i <= f THEN loaded[i] ELSE Resized[i]]
        /\ enumFailed' = TRUE /\ modulesAt' = "describe"
        /\ results' = [i \in 1 .. needed |-> Null]
        /\ UNCHANGED <<loaded, needed, table, steady, changes>>
  BY DEF EnumerateFails
<1>2. loaded \in Seq(Images) /\ Once(loaded) /\ steady \subseteq Members(loaded)
  BY DEF ModulesKinds
<1>3. PICK n \in Nat, c \in Nat : n = Len(loaded) /\ c = needed
  BY <1>2 DEF ModulesKinds
<1>4. f \in Nat /\ f <= n /\ f <= c /\ \A i \in 1 .. n : loaded[i] \in Images
  BY <1>1, <1>2, <1>3
<1>5. PICK h \in Nat : h = Len(handles) /\ \A i \in 1 .. h : handles[i] \in Images \cup {Null}
  <2>1. handles \in Seq(Images \cup {Null})
    BY DEF ModulesKinds
  <2>2. QED
    BY <2>1
<1>6. h < c \/ (c = 0 /\ h = 0)
  BY <1>1, <1>3, <1>5 DEF LoopRight
<1>7. handles' = [i \in 1 .. c |-> IF i <= f THEN loaded[i] ELSE IF i <= h THEN handles[i] ELSE Null]
  <2>1. \A i \in 1 .. c : Resized[i] = IF i <= h THEN handles[i] ELSE Null
    BY <1>3, <1>5 DEF Resized
  <2>2. QED
    BY <1>1, <1>3, <2>1
<1>8. handles' \in Seq(Images \cup {Null}) /\ Len(handles') = c
  BY <1>4, <1>5, <1>7
<1>9. results' \in Seq(Images \cup {Null}) /\ Len(results') = c /\ \A i \in 1 .. c : results'[i] = Null
  BY <1>1, <1>3
<1>10. ModulesKinds'
  BY <1>1, <1>8, <1>9 DEF ModulesKinds
<1>11. \/ \E i \in 1 .. c : handles'[i] = Null
       \/ /\ Once(handles') /\ handles' \in Seq(Images)
          /\ (\A m \in steady : \E i \in 1 .. c : handles'[i] = m) \/ c = 0
  <2>1. CASE f < c
    <3>1. c \in 1 .. c /\ handles'[c] = Null
      BY <1>4, <1>6, <1>7, <2>1
    <3>2. QED
      BY <3>1
  <2>2. CASE f = c
    <3>1. \A i \in 1 .. c : i \in 1 .. n /\ handles'[i] = loaded[i]
      BY <1>4, <1>7, <2>2
    <3>2. Once(handles')
      BY <1>2, <1>3, <1>8, <3>1 DEF Once
    <3>3. handles' \in Seq(Images)
      BY <1>4, <1>7, <2>2
    <3>4. c = 0 \/ \A m \in steady : \E i \in 1 .. c : handles'[i] = m
      <4> SUFFICES ASSUME c # 0, NEW m \in steady PROVE \E i \in 1 .. c : handles'[i] = m
        OBVIOUS
      <4>1. PICK i \in 1 .. n : i <= c /\ loaded[i] = m
        BY <1>1, <1>3 DEF LoopRight, SteadyInFront
      <4>2. i \in 1 .. c
        BY <4>1
      <4>3. QED
        BY <3>1, <4>1, <4>2
    <3>5. QED
      BY <3>2, <3>3, <3>4
  <2>3. QED
    BY <1>4, <2>1, <2>2
<1>12. HandlesRight'
  BY <1>1, <1>8, <1>9, <1>11 DEF HandlesRight
<1>13. QED
  BY <1>1, <1>10, <1>12 DEF LoopRight, TableInOrder, FaultRight

LEMMA DescribeInv == ModulesInv /\ Describe => ModulesInv'
<1> SUFFICES ASSUME ModulesInv, Describe PROVE ModulesInv'
  OBVIOUS
<1> USE DEF ModulesInv
<1>1. PICK k \in 1 .. Len(handles) :
        /\ modulesAt = "describe" /\ results[k] = Null /\ handles[k] \in Members(loaded)
        /\ results' = [results EXCEPT ![k] = handles[k]]
        /\ UNCHANGED <<loaded, handles, needed, table, modulesAt, steady, enumFailed, changes>>
  BY DEF Describe
<1>2. results \in Seq(Images \cup {Null}) /\ handles \in Seq(Images \cup {Null})
  BY DEF ModulesKinds
<1>3. /\ Len(results) = Len(handles)
      /\ \A i \in 1 .. Len(handles) : results[i] = Null \/ results[i] = handles[i]
  BY <1>1 DEF HandlesRight
<1>4. /\ results' \in Seq(Images \cup {Null}) /\ Len(results') = Len(handles)
      /\ \A i \in 1 .. Len(handles) : results'[i] = Null \/ results'[i] = handles[i]
  BY <1>1, <1>2, <1>3
<1>5. ModulesKinds'
  BY <1>1, <1>4 DEF ModulesKinds
<1>6. HandlesRight'
  BY <1>1, <1>4 DEF HandlesRight
<1>7. QED
  BY <1>1, <1>5, <1>6 DEF LoopRight, TableInOrder, FaultRight

LEMMA DescribeFaultsInv == ModulesInv /\ DescribeFaults => ModulesInv'
<1> SUFFICES ASSUME ModulesInv, DescribeFaults PROVE ModulesInv'
  OBVIOUS
<1> USE DEF ModulesInv
<1>1. PICK k \in 1 .. Len(handles) :
        /\ modulesAt = "describe" /\ handles[k] \notin Members(loaded)
        /\ modulesAt' = "fault"
        /\ UNCHANGED <<loaded, handles, needed, results, table, steady, enumFailed, changes>>
  BY DEF DescribeFaults
<1>2. changes # 0 \/ enumFailed
  <2>1. changes = 0 /\ ~enumFailed => handles[k] \in Members(loaded)
    BY <1>1 DEF HandlesRight, Members
  <2>2. QED
    BY <1>1, <2>1
<1>3. changes \in 0 .. MaxChanges
  BY DEF ModulesKinds
<1>4. changes' > 0 \/ enumFailed'
  BY <1>1, <1>2, <1>3
<1>5. ModulesKinds'
  BY <1>1 DEF ModulesKinds
<1>6. QED
  BY <1>1, <1>4, <1>5 DEF LoopRight, HandlesRight, TableInOrder, FaultRight

LEMMA SortModulesInv == ModulesInv /\ SortModules => ModulesInv'
<1> SUFFICES ASSUME ModulesInv, SortModules PROVE ModulesInv'
  OBVIOUS
<1> USE DEF ModulesInv
<1>1. /\ modulesAt = "describe" /\ \A i \in 1 .. Len(handles) : results[i] # Null
      /\ \A i, j \in 1 .. Len(table') : i < j => table'[i].base <= table'[j].base
      /\ handles' = <<>> /\ needed' = 0 /\ results' = <<>> /\ modulesAt' = "done"
      /\ UNCHANGED <<loaded, steady, enumFailed, changes>>
  BY DEF SortModules, Described
<1>2. PICK place \in Bijection(1 .. Len(results), 1 .. Len(results)) :
        table' = [i \in 1 .. Len(results) |-> results[place[i]]]
  BY DEF SortModules
<1>3. /\ Len(results) = Len(handles)
      /\ \A i \in 1 .. Len(handles) : results[i] = handles[i]
      /\ Once(handles) /\ handles \in Seq(Images)
      /\ (\A m \in steady : \E i \in 1 .. Len(handles) : handles[i] = m) \/ (enumFailed /\ Len(handles) = 0)
  BY <1>1 DEF HandlesRight
<1>4. PICK n \in Nat : n = Len(results) /\ n = Len(handles)
  BY <1>3
<1>5. /\ \A i \in 1 .. n : place[i] \in 1 .. n
      /\ \A i, j \in 1 .. n : place[i] = place[j] => i = j
      /\ \A i \in 1 .. n : \E j \in 1 .. n : place[j] = i
  BY <1>2, <1>4 DEF Bijection, Injection, Surjection, IsInjective
<1>6. \A i \in 1 .. n : results[i] \in Images
  BY <1>3, <1>4
<1>7. /\ table' \in Seq(Images) /\ Len(table') = n
      /\ \A i \in 1 .. n : table'[i] = results[place[i]]
  BY <1>2, <1>4, <1>5, <1>6
<1>8. \A i, j \in 1 .. n : i # j => table'[i] # table'[j]
  <2>1. \A a, b \in 1 .. n : a # b => results[a] # results[b]
    BY <1>3, <1>4 DEF Once
  <2> SUFFICES ASSUME NEW i \in 1 .. n, NEW j \in 1 .. n, i # j PROVE table'[i] # table'[j]
    OBVIOUS
  <2>2. place[i] \in 1 .. n /\ place[j] \in 1 .. n /\ place[i] # place[j]
    BY <1>5
  <2>3. table'[i] = results[place[i]] /\ table'[j] = results[place[j]]
    BY <1>7
  <2>4. QED
    BY <2>1, <2>2, <2>3
<1>9. \A i, j \in 1 .. n : i < j => table'[i].base < table'[j].base
  <2> SUFFICES ASSUME NEW i \in 1 .. n, NEW j \in 1 .. n, i < j PROVE table'[i].base < table'[j].base
    OBVIOUS
  <2>1. PICK a \in Images, b \in Images : a = table'[i] /\ b = table'[j]
    BY <1>7
  <2>2. a # b /\ a.base <= b.base
    BY <1>1, <1>7, <1>8, <2>1
  <2>3. a.base # b.base /\ a.base \in Nat /\ b.base \in Nat
    BY <2>2, ImageFacts, ImagesAssumption
  <2>4. a.base < b.base
    BY <2>2, <2>3
  <2>5. QED
    BY <2>1, <2>4
<1>10. (\A m \in steady : \E i \in 1 .. n : table'[i] = m) \/ (enumFailed' /\ n = 0)
  <2> SUFFICES ASSUME \A m \in steady : \E i \in 1 .. n : handles[i] = m, NEW m \in steady
               PROVE  \E i \in 1 .. n : table'[i] = m
    BY <1>1, <1>3, <1>4
  <2>1. PICK i \in 1 .. n : results[i] = m
    BY <1>3, <1>4
  <2>2. PICK j \in 1 .. n : place[j] = i
    BY <1>5
  <2>3. QED
    BY <1>7, <2>1, <2>2
<1>11. ModulesKinds'
  <2>1. handles' \in Seq(Images \cup {Null}) /\ results' \in Seq(Images \cup {Null})
    BY <1>1
  <2>2. needed' \in Nat /\ needed' <= Cardinality(Images)
    BY <1>1, ImagesFinite
  <2>3. QED
    BY <1>1, <1>7, <2>1, <2>2 DEF ModulesKinds
<1>12. LoopRight' /\ HandlesRight' /\ FaultRight'
  BY <1>1 DEF LoopRight, HandlesRight, FaultRight
<1>13. TableInOrder'
  BY <1>1, <1>7, <1>9, <1>10 DEF TableInOrder
<1>14. QED
  BY <1>11, <1>12, <1>13

LEMMA StepModulesInv == ModulesInv /\ [CallStackNext]_<<moduleVars, stackVars>> => ModulesInv'
<1> SUFFICES ASSUME ModulesInv, [CallStackNext]_<<moduleVars, stackVars>> PROVE ModulesInv'
  OBVIOUS
<1>1. CASE UNCHANGED moduleVars
  <2>1. UNCHANGED <<loaded, handles, needed, results, table, modulesAt, steady, enumFailed, changes>>
    BY <1>1 DEF moduleVars
  <2>2. QED
    BY <2>1 DEF ModulesInv, ModulesKinds, LoopRight, SteadyInFront, HandlesRight, TableInOrder, FaultRight, Once, Members
<1>2. CASE ModulesNext
  BY <1>2, LoadInv, UnloadInv, EnumerateInv, EnumerateFailsInv, DescribeInv, DescribeFaultsInv, SortModulesInv DEF ModulesNext
<1>3. QED
  BY <1>1, <1>2 DEF CallStackNext

LEMMA ModulesInvHolds == CallStackSpec => []ModulesInv
BY InitModulesInv, StepModulesInv, PTL DEF CallStackSpec, CallStackInit

\* Every variable of the table of modules has its kind (get_loaded_modules).
THEOREM ModulesTypeCorrect == CallStackSpec => []ModulesTypeOK
<1>1. ModulesInv => ModulesTypeOK
  <2> SUFFICES ASSUME ModulesKinds PROVE ModulesTypeOK
    BY DEF ModulesInv
  <2>1. \A S : \A s \in Seq(S) : Members(s) \subseteq S
    <3> SUFFICES ASSUME NEW S, NEW s \in Seq(S) PROVE \A i \in 1 .. Len(s) : s[i] \in S
      BY DEF Members
    <3> QED OBVIOUS
  <2>2. /\ Members(loaded) \subseteq Images /\ Members(table) \subseteq Images
        /\ Members(handles) \subseteq Images \cup {Null} /\ Members(results) \subseteq Images \cup {Null}
    BY <2>1 DEF ModulesKinds
  <2>3. needed \in 0 .. Cardinality(Images)
    BY ImagesFinite DEF ModulesKinds
  <2>4. QED
    BY <2>2, <2>3 DEF ModulesKinds, ModulesTypeOK
<1>2. QED
  BY <1>1, ModulesInvHolds, PTL

\* In a table in the order of addresses, the module whose image holds an address past its
\* first byte is the last one that begins before the address.
LEMMA LookupFinds ==
  ASSUME table \in Seq(Images), \A i, j \in 1 .. Len(table) : i < j => table[i].base < table[j].base,
         NEW k \in 1 .. Len(table), NEW ptr \in 1 .. Top, ptr # table[k].base, InRange(table[k], ptr)
  PROVE  Lookup(ptr) = table[k]
<1>1. PICK n \in Nat : n = Len(table)
  OBVIOUS
<1>2. PICK below : below = {i \in 1 .. n : table[i].base < ptr}
  OBVIOUS
<1>3. \A i \in 1 .. n : table[i] \in Images
  BY <1>1
<1>4. \A i \in 1 .. n : table[i].base \in Nat /\ table[i].size \in Nat /\ table[i].size > 0
  <2>1. \A m \in Images : m.base \in Nat /\ m.size \in Nat /\ m.size > 0
    BY ImageFacts, ImagesAssumption
  <2>2. QED
    BY <1>3, <2>1
<1>5. ptr \in Nat /\ table[k].base < ptr /\ ptr < table[k].base + table[k].size
  BY <1>1, <1>4, ImagesAssumption DEF InRange
<1>6. k \in below
  BY <1>1, <1>2, <1>5
<1>7. ASSUME NEW j \in below PROVE j <= k
  <2>1. j \in 1 .. n /\ table[j].base < ptr
    BY <1>2
  <2>2. SUFFICES ASSUME j > k PROVE FALSE
    BY <1>1, <2>1
  <2>3. PICK a \in Images, b \in Images : a = table[k] /\ b = table[j]
    BY <1>1, <1>3, <2>1
  <2>4. a.base < b.base
    BY <1>1, <2>1, <2>2, <2>3
  <2>5. a.base \in Nat /\ a.size \in Nat /\ b.base \in Nat /\ b.size \in Nat /\ b.size > 0
    BY <1>1, <1>4, <2>1, <2>3
  <2>6. a # b
    BY <2>4, <2>5
  <2>7. a.base + a.size <= b.base \/ b.base + b.size <= a.base
    BY <2>6, ImageFacts
  <2>8. a.base + a.size <= b.base
    BY <2>4, <2>5, <2>7
  <2>9. QED
    BY <1>5, <2>1, <2>3, <2>5, <2>8
<1>8. \A i \in below : (\A j \in below : j <= i) => i = k
  <2>1. \A i \in below : i \in Nat
    BY <1>2
  <2>2. QED
    BY <1>6, <1>7, <2>1
<1>9. (CHOOSE i \in below : \A j \in below : j <= i) = k
  BY <1>6, <1>7, <1>8
<1>10. QED
  BY <1>1, <1>2, <1>6, <1>9 DEF Lookup

\* However modules come and go while the table is made, it is in the order of addresses,
\* has every module that was there all the time, or none because the first enumeration
\* failed, and finds the module of an address; and making it faults only if a module came
\* or went or an enumeration failed (get_loaded_modules, get_module_for_pointer).
THEOREM TableIsRight == CallStackSpec => []TableRight
<1>1. ModulesInv => TableRight
  <2> SUFFICES ASSUME ModulesInv PROVE TableRight
    OBVIOUS
  <2>1. modulesAt = "fault" => changes > 0 \/ enumFailed
    BY DEF ModulesInv, FaultRight
  <2>2. ASSUME modulesAt = "done"
        PROVE  /\ \A i, j \in 1 .. Len(table) : i < j => table[i].base < table[j].base
               /\ steady \subseteq Members(table) \/ (enumFailed /\ table = <<>>)
               /\ \A m \in Members(table) : \A ptr \in 1 .. Top :
                    ptr # m.base /\ InRange(m, ptr) => Lookup(ptr) = m
    <3>1. \A i, j \in 1 .. Len(table) : i < j => table[i].base < table[j].base
      BY <2>2 DEF ModulesInv, TableInOrder
    <3>2. table \in Seq(Images)
      BY DEF ModulesInv, ModulesKinds
    <3>3. steady \subseteq Members(table) \/ (enumFailed /\ table = <<>>)
      <4>1. Len(table) = 0 => table = <<>>
        BY <3>2
      <4>2. QED
        BY <2>2, <4>1 DEF ModulesInv, TableInOrder, Members
    <3>4. \A k \in 1 .. Len(table) : \A ptr \in 1 .. Top :
            ptr # table[k].base /\ InRange(table[k], ptr) => Lookup(ptr) = table[k]
      BY <3>1, <3>2, LookupFinds
    <3>5. QED
      BY <3>1, <3>3, <3>4 DEF Members
  <2>3. QED
    BY <2>1, <2>2 DEF TableRight
<1>2. QED
  BY <1>1, ModulesInvHolds, PTL

-----------------------------------------------------------------------------
(* The call stack                                                           *)

\* What is executable and what is on the stack are addresses.
LEMMA CodeIsAddresses ==
  /\ \A a \in Executable : a \in CodeAddresses
  /\ \A a \in OnStack : a # 0 => a \in CodeAddresses
  /\ \A a \in CodeAddresses : a \in 0 .. Top /\ a # 0
BY StackAssumption, ImagesAssumption DEF CodeAddresses

HybridRow == [addr : CodeAddresses, source : {"P", "S"}]

\* What scanning the stack gives so far: code of modules, each address once.
ScanResult == {s \in Seq(CodeAddresses) :
  /\ Len(s) <= MaxTotal
  /\ \A i \in 1 .. Len(s) : InCode(s[i])
  /\ \A i, j \in 1 .. Len(s) : s[i] = s[j] => i = j}

LEMMA StackLimits == MaxTotal \in Nat /\ MaxInserted \in Nat /\ MaxWalk \in Nat /\ MaxCaptured \in Nat /\ StackLength \in Nat
BY StackAssumption

\* A value of the stack is passed over or added to what the scan has found.
LEMMA AddScannedGrows ==
  ASSUME NEW s \in ScanResult, NEW value
  PROVE  /\ AddScanned(s, value) \in ScanResult
         /\ InCode(value) => \/ value \in Members(AddScanned(s, value))
                             \/ Len(AddScanned(s, value)) = MaxTotal
         /\ Members(s) \subseteq Members(AddScanned(s, value))
         /\ Len(s) <= Len(AddScanned(s, value))
<1>1. PICK n \in Nat : n = Len(s)
  BY DEF ScanResult
<1>2. s \in [1 .. n -> CodeAddresses] /\ n <= MaxTotal
  BY <1>1 DEF ScanResult
<1>3. CASE AddScanned(s, value) = s
  <2>1. InCode(value) => n >= MaxTotal \/ value \in Members(s)
    <3>1. SUFFICES ASSUME InCode(value), n < MaxTotal, value \notin Members(s) PROVE FALSE
      BY <1>1, <1>2, StackLimits
    <3>2. AddScanned(s, value) = Append(s, value)
      BY <1>1, <1>2, <3>1, StackLimits DEF AddScanned
    <3>3. Len(Append(s, value)) = n + 1
      BY <1>1, <1>2
    <3> QED BY <1>1, <1>3, <3>2, <3>3
  <2> QED BY <1>1, <1>2, <1>3, <2>1, StackLimits
<1>4. CASE AddScanned(s, value) # s
  <2>1. n < MaxTotal /\ value \notin Members(s) /\ InCode(value) /\ AddScanned(s, value) = Append(s, value)
    BY <1>1, <1>2, <1>4, StackLimits DEF AddScanned
  <2>2. PICK t : t = Append(s, value)
    OBVIOUS
  <2>3. value \in CodeAddresses
    BY <2>1, CodeIsAddresses DEF InCode
  <2>4. t \in Seq(CodeAddresses) /\ Len(t) = n + 1 /\ t[n + 1] = value /\ \A i \in 1 .. n : t[i] = s[i]
    BY <1>1, <1>2, <2>2, <2>3
  <2>5. n + 1 <= MaxTotal
    BY <2>1, StackLimits
  <2>6. \A i \in 1 .. n + 1 : i \in 1 .. n \/ i = n + 1
    OBVIOUS
  <2>7. \A i \in 1 .. n : s[i] \in Members(s) /\ s[i] # value
    BY <1>1, <2>1 DEF Members
  <2>8. \A i, j \in 1 .. n : s[i] = s[j] => i = j
    BY <1>1 DEF ScanResult
  <2>9. \A i \in 1 .. n : InCode(s[i])
    BY <1>1 DEF ScanResult
  <2>10. \A i \in 1 .. n + 1 : InCode(t[i])
    BY <2>1, <2>4, <2>6, <2>9
  <2>11. \A i, j \in 1 .. n + 1 : t[i] = t[j] => i = j
    BY <2>4, <2>6, <2>7, <2>8
  <2>12. t \in ScanResult
    BY <2>4, <2>5, <2>10, <2>11 DEF ScanResult
  <2>13. n + 1 \in 1 .. n + 1 /\ \A i \in 1 .. n : i \in 1 .. n + 1
    OBVIOUS
  <2>14. value \in Members(t) /\ Members(s) \subseteq Members(t)
    BY <1>1, <2>4, <2>13 DEF Members
  <2> QED BY <1>1, <2>1, <2>2, <2>4, <2>12, <2>14
<1> QED BY <1>3, <1>4

\* The scan of a stack is the results after each of its values.
LEMMA ScanRuns ==
  ASSUME NEW stack \in Seq(OnStack)
  PROVE  \E after \in [0 .. Len(stack) -> ScanResult] :
           /\ after[0] = <<>> /\ after[Len(stack)] = Scanned(stack)
           /\ \A n \in 0 .. Len(stack) : n < Len(stack) => after[n + 1] = AddScanned(after[n], stack[n + 1])
<1>1. PICK N \in Nat : N = Len(stack)
  OBVIOUS
<1>2. <<>> \in ScanResult
  <2>1. <<>> \in Seq(CodeAddresses) /\ Len(<<>>) = 0 /\ 0 <= MaxTotal
    BY StackLimits
  <2>2. \A i \in 1 .. 0 : FALSE
    OBVIOUS
  <2> QED BY <2>1, <2>2 DEF ScanResult
<1>3. PICK step : step = [n \in 1 .. N |-> [t \in ScanResult |-> AddScanned(t, stack[n])]]
  OBVIOUS
<1>4. step \in [1 .. N -> [ScanResult -> ScanResult]]
  BY <1>3, AddScannedGrows
<1>5. PICK g \in [SUBSET (1 .. N) -> ScanResult] : \A s \in SUBSET (1 .. N) :
        g[s] = IF s = {} THEN <<>> ELSE step[Greatest(s)][g[s \ {Greatest(s)}]]
  <2>1. PICK T, base : T = ScanResult /\ base = <<>>
    OBVIOUS
  <2>2. base \in T /\ step \in [1 .. N -> [T -> T]]
    BY <1>2, <1>4, <2>1
  <2>3. \E g : FoldsBy(g, N, T, base, step)
    BY <2>2, FoldExists
  <2> QED BY <2>1, <2>3 DEF FoldsBy
<1>6. g = [n \in SUBSET (1 .. N) |->
             IF n = {} THEN <<>> ELSE AddScanned(g[n \ {Greatest(n)}], stack[Greatest(n)])]
  <2>1. ASSUME NEW s \in SUBSET (1 .. N), s # {}
        PROVE g[s] = AddScanned(g[s \ {Greatest(s)}], stack[Greatest(s)])
    <3>1. Greatest(s) \in 1 .. N
      BY <2>1, GreatestBelow
    <3>2. s \ {Greatest(s)} \in SUBSET (1 .. N)
      OBVIOUS
    <3> QED BY <1>3, <1>5, <2>1, <3>1, <3>2
  <2> QED BY <1>5, <2>1
<1>7. PICK f : /\ f = (CHOOSE h : h = [n \in SUBSET (1 .. N) |->
                   IF n = {} THEN <<>> ELSE AddScanned(h[n \ {Greatest(n)}], stack[Greatest(n)])])
  OBVIOUS
<1>8. f = [n \in SUBSET (1 .. N) |->
             IF n = {} THEN <<>> ELSE AddScanned(f[n \ {Greatest(n)}], stack[Greatest(n)])]
  BY <1>6, <1>7
<1>9. Scanned(stack) = f[1 .. N]
  <2>1. DOMAIN stack = 1 .. N
    BY <1>1
  <2>2. Scanned(stack) = (CHOOSE h : h = [n \in SUBSET (DOMAIN stack) |->
            IF n = {} THEN <<>> ELSE AddScanned(h[n \ {Greatest(n)}], stack[Greatest(n)])])[DOMAIN stack]
    BY DEF Scanned, FoldLeft, MapThenFoldSet, Greatest, Max
  <2> QED BY <1>7, <2>1, <2>2
<1>10. f[1 .. 0] = <<>>
  BY <1>8
<1>11. ASSUME NEW n \in 0 .. N, n < N PROVE f[1 .. n + 1] = AddScanned(f[1 .. n], stack[n + 1])
  <2>1. n + 1 \in Nat /\ n + 1 # 0 /\ n + 1 - 1 = n
    OBVIOUS
  <2>2. Greatest(1 .. n + 1) = n + 1 /\ (1 .. n + 1) \ {n + 1} = 1 .. n
    BY <2>1, GreatestOfPrefix
  <2>3. 1 .. n + 1 \in SUBSET (1 .. N) /\ n + 1 \in 1 .. n + 1
    BY <1>11
  <2> QED BY <1>8, <2>2, <2>3
<1>12. \A n \in 0 .. N : f[1 .. n] \in ScanResult
  <2> DEFINE S == {n \in 0 .. N : f[1 .. n] \in ScanResult}
  <2>1. 0 \in S
    BY <1>2, <1>10
  <2>2. ASSUME NEW n \in 0 .. N, n \in S, n < N PROVE n + 1 \in S
    <3>1. f[1 .. n + 1] = AddScanned(f[1 .. n], stack[n + 1])
      BY <1>11, <2>2
    <3>2. n + 1 \in 0 .. N
      BY <2>2
    <3> QED BY <2>2, <3>1, <3>2, AddScannedGrows
  <2>3. \A n \in 0 .. N : n \in S
    <3> HIDE DEF S
    <3> QED BY <2>1, <2>2, InductionUpTo
  <2> QED BY <2>3
<1>13. PICK after : after = [n \in 0 .. N |-> f[1 .. n]]
  OBVIOUS
<1>14. after \in [0 .. N -> ScanResult] /\ after[0] = <<>> /\ after[N] = Scanned(stack)
  BY <1>9, <1>10, <1>12, <1>13
<1>15. \A n \in 0 .. N : n < N => after[n + 1] = AddScanned(after[n], stack[n + 1])
  <2> SUFFICES ASSUME NEW n \in 0 .. N, n < N PROVE after[n + 1] = AddScanned(after[n], stack[n + 1])
    OBVIOUS
  <2>1. n + 1 \in 0 .. N
    OBVIOUS
  <2> QED BY <1>11, <1>13, <2>1
<1> QED BY <1>1, <1>14, <1>15

\* Scanning a stack finds each value of it that is code in a module once, unless it
\* finds as many as a call stack may have.
LEMMA ScannedRight ==
  ASSUME NEW stack \in Seq(OnStack)
  PROVE  /\ Scanned(stack) \in ScanResult
         /\ \A v \in Members(stack) : InCode(v) =>
              v \in Members(Scanned(stack)) \/ Len(Scanned(stack)) = MaxTotal
<1>1. PICK N \in Nat : N = Len(stack)
  OBVIOUS
<1>2. PICK after \in [0 .. N -> ScanResult] :
        /\ after[0] = <<>> /\ after[N] = Scanned(stack)
        /\ \A n \in 0 .. N : n < N => after[n + 1] = AddScanned(after[n], stack[n + 1])
  BY <1>1, ScanRuns
<1> DEFINE Found(n, k) == InCode(stack[k]) => stack[k] \in Members(after[n]) \/ Len(after[n]) = MaxTotal
           S == {n \in 0 .. N : \A k \in 1 .. n : Found(n, k)}
<1>3. 0 \in S
  OBVIOUS
<1>4. ASSUME NEW n \in 0 .. N, n \in S, n < N PROVE n + 1 \in S
  <2>1. n + 1 \in 0 .. N
    BY <1>4
  <2>2. PICK s \in ScanResult, t \in ScanResult : s = after[n] /\ t = after[n + 1] /\ t = AddScanned(s, stack[n + 1])
    BY <1>2, <1>4, <2>1
  <2>3. Len(s) <= Len(t) /\ Len(t) <= MaxTotal /\ Len(s) \in Nat /\ Len(t) \in Nat
    <3>1. Len(s) <= Len(t)
      BY <2>2, AddScannedGrows
    <3> QED BY <3>1 DEF ScanResult
  <2>4. Members(s) \subseteq Members(t)
    BY <2>2, AddScannedGrows
  <2>5. Found(n + 1, n + 1)
    BY <2>2, AddScannedGrows
  <2>6. ASSUME NEW k \in 1 .. n PROVE Found(n + 1, k)
    <3>1. Found(n, k)
      BY <1>4
    <3> QED BY <2>2, <2>3, <2>4, <3>1, StackLimits
  <2>7. \A k \in 1 .. n + 1 : k \in 1 .. n \/ k = n + 1
    OBVIOUS
  <2> HIDE DEF Found
  <2> QED BY <2>1, <2>5, <2>6, <2>7
<1>5. N \in S
  <2>1. N \in 0 .. N
    OBVIOUS
  <2> HIDE DEF S
  <2> QED BY <1>3, <1>4, <2>1, InductionUpTo
<1>6. \A k \in 1 .. N : Found(N, k)
  BY <1>5
<1>7. Scanned(stack) \in ScanResult
  <2>1. N \in 0 .. N
    OBVIOUS
  <2> QED BY <1>2, <2>1
<1> QED BY <1>1, <1>2, <1>6, <1>7 DEF Members

-----------------------------------------------------------------------------
(* The rows of the call stack                                               *)

AddrsOnce(s) == \A i, j \in 1 .. Len(s) : s[i].addr = s[j].addr => i = j

LEMMA PushKeeps ==
  ASSUME NEW s \in Seq(HybridRow), AddrsOnce(s), NEW addr \in CodeAddresses, addr \notin Addrs(s),
         NEW source \in {"P", "S"}, NEW t, t = Push(s, addr, source)
  PROVE  /\ t \in Seq(HybridRow) /\ AddrsOnce(t) /\ Len(t) = Len(s) + 1
         /\ t[Len(t)] = [addr |-> addr, source |-> source]
         /\ \A i \in 1 .. Len(s) : t[i] = s[i]
         /\ addr \in Addrs(t) /\ Addrs(s) \subseteq Addrs(t)
<1>1. PICK n \in Nat : n = Len(s)
  OBVIOUS
<1>2. PICK new \in HybridRow : new = [addr |-> addr, source |-> source]
  BY DEF HybridRow
<1>3. new.addr = addr
  BY <1>2
<1>4. t = Append(s, new)
  BY <1>2 DEF Push
<1>5. t \in Seq(HybridRow) /\ Len(t) = n + 1 /\ t[n + 1] = new /\ \A i \in 1 .. n : t[i] = s[i]
  BY <1>1, <1>4
<1>6. \A i \in 1 .. n + 1 : i \in 1 .. n \/ i = n + 1
  OBVIOUS
<1>7. \A i \in 1 .. n : s[i].addr # addr
  BY <1>1 DEF Addrs
<1>8. \A i, j \in 1 .. n : s[i].addr = s[j].addr => i = j
  BY <1>1 DEF AddrsOnce
<1>9. \A i, j \in 1 .. n + 1 : t[i].addr = t[j].addr => i = j
  BY <1>3, <1>5, <1>6, <1>7, <1>8
<1>10. AddrsOnce(t)
  BY <1>5, <1>9 DEF AddrsOnce
<1>11. n + 1 \in 1 .. n + 1 /\ \A i \in 1 .. n : i \in 1 .. n + 1
  OBVIOUS
<1>12. addr \in Addrs(t) /\ Addrs(s) \subseteq Addrs(t)
  BY <1>1, <1>3, <1>5, <1>11 DEF Addrs
<1> QED BY <1>1, <1>2, <1>5, <1>10, <1>12

\* What the probable frames give so far: each address once.
ProbableResult == {s \in Seq(HybridRow) :
  Len(s) <= MaxTotal /\ AddrsOnce(s) /\ \A i \in 1 .. Len(s) : s[i].source = "P"}

LEMMA AddProbableGrows ==
  ASSUME NEW s \in ProbableResult, NEW addr \in CodeAddresses, NEW t, t = AddProbable(s, addr)
  PROVE  /\ t \in ProbableResult
         /\ addr \in Addrs(t) \/ Len(t) = MaxTotal
         /\ Addrs(s) \subseteq Addrs(t) /\ Len(s) <= Len(t)
         /\ Len(s) # 0 => t[1] = s[1]
         /\ Len(s) = 0 /\ Len(t) # 0 => t[1].addr = addr
<1>1. s \in Seq(HybridRow) /\ AddrsOnce(s) /\ Len(s) \in Nat /\ Len(s) <= MaxTotal
  BY DEF ProbableResult
<1>2. CASE Len(s) >= MaxTotal \/ addr \in Addrs(s)
  <2>1. t = s
    BY <1>2 DEF AddProbable
  <2> QED BY <1>1, <1>2, <2>1, StackLimits
<1>3. CASE ~(Len(s) >= MaxTotal \/ addr \in Addrs(s))
  <2>1. t = Push(s, addr, "P") /\ addr \notin Addrs(s)
    BY <1>3 DEF AddProbable
  <2>2. PICK source \in {"P", "S"} : source = "P"
    OBVIOUS
  <2>3. /\ t \in Seq(HybridRow) /\ AddrsOnce(t) /\ Len(t) = Len(s) + 1
        /\ t[Len(t)] = [addr |-> addr, source |-> "P"]
        /\ \A i \in 1 .. Len(s) : t[i] = s[i]
        /\ addr \in Addrs(t) /\ Addrs(s) \subseteq Addrs(t)
    BY <1>1, <2>1, <2>2, PushKeeps
  <2>4. PICK n \in Nat : n = Len(s)
    BY <1>1
  <2>5. n + 1 <= MaxTotal
    BY <1>3, <2>4, StackLimits
  <2>6. \A i \in 1 .. n + 1 : i \in 1 .. n \/ i = n + 1
    OBVIOUS
  <2>7. \A i \in 1 .. n : s[i].source = "P"
    BY <2>4 DEF ProbableResult
  <2>8. \A i \in 1 .. n + 1 : t[i].source = "P"
    BY <2>3, <2>4, <2>6, <2>7
  <2>9. t \in ProbableResult
    BY <2>3, <2>4, <2>5, <2>8 DEF ProbableResult
  <2>10. n # 0 => t[1] = s[1]
    BY <2>3, <2>4
  <2>11. n = 0 => t[1].addr = addr
    BY <2>3, <2>4
  <2> QED BY <2>3, <2>4, <2>9, <2>10, <2>11
<1> QED BY <1>2, <1>3

LEMMA ProbablesRun ==
  ASSUME frames \in Seq(CodeAddresses)
  PROVE  \E after \in [0 .. Len(frames) -> ProbableResult] :
           /\ after[0] = <<>> /\ after[Len(frames)] = Probables
           /\ \A n \in 0 .. Len(frames) : n < Len(frames) => after[n + 1] = AddProbable(after[n], frames[n + 1])
<1>0. PICK seq \in Seq(CodeAddresses) : seq = frames
  OBVIOUS
<1>1. PICK N \in Nat : N = Len(seq)
  OBVIOUS
<1>2. <<>> \in ProbableResult
  <2>1. <<>> \in Seq(HybridRow) /\ Len(<<>>) = 0 /\ 0 <= MaxTotal
    BY StackLimits
  <2>2. \A i \in 1 .. 0 : FALSE
    OBVIOUS
  <2> QED BY <2>1, <2>2 DEF ProbableResult, AddrsOnce
<1>3. PICK step : step = [n \in 1 .. N |-> [t \in ProbableResult |-> AddProbable(t, seq[n])]]
  OBVIOUS
<1>4. step \in [1 .. N -> [ProbableResult -> ProbableResult]]
  <2>1. \A n \in 1 .. N : seq[n] \in CodeAddresses
    BY <1>1
  <2> QED BY <1>3, <2>1, AddProbableGrows
<1>5. PICK g \in [SUBSET (1 .. N) -> ProbableResult] : \A s \in SUBSET (1 .. N) :
        g[s] = IF s = {} THEN <<>> ELSE step[Greatest(s)][g[s \ {Greatest(s)}]]
  <2>1. PICK T, base : T = ProbableResult /\ base = <<>>
    OBVIOUS
  <2>2. base \in T /\ step \in [1 .. N -> [T -> T]]
    BY <1>2, <1>4, <2>1
  <2>3. \E g : FoldsBy(g, N, T, base, step)
    BY <2>2, FoldExists
  <2> QED BY <2>1, <2>3 DEF FoldsBy
<1>6. g = [n \in SUBSET (1 .. N) |->
             IF n = {} THEN <<>> ELSE AddProbable(g[n \ {Greatest(n)}], seq[Greatest(n)])]
  <2>1. ASSUME NEW s \in SUBSET (1 .. N), s # {}
        PROVE g[s] = AddProbable(g[s \ {Greatest(s)}], seq[Greatest(s)])
    <3>1. Greatest(s) \in 1 .. N
      BY <2>1, GreatestBelow
    <3>2. s \ {Greatest(s)} \in SUBSET (1 .. N)
      OBVIOUS
    <3> QED BY <1>3, <1>5, <2>1, <3>1, <3>2
  <2> QED BY <1>5, <2>1
<1>7. PICK f : /\ f = (CHOOSE h : h = [n \in SUBSET (1 .. N) |->
                   IF n = {} THEN <<>> ELSE AddProbable(h[n \ {Greatest(n)}], seq[Greatest(n)])])
  OBVIOUS
<1>8. f = [n \in SUBSET (1 .. N) |->
             IF n = {} THEN <<>> ELSE AddProbable(f[n \ {Greatest(n)}], seq[Greatest(n)])]
  BY <1>6, <1>7
<1>9. Probables = f[1 .. N]
  <2>1. DOMAIN seq = 1 .. N
    BY <1>1
  <2>2. Probables = (CHOOSE h : h = [n \in SUBSET (DOMAIN frames) |->
            IF n = {} THEN <<>> ELSE AddProbable(h[n \ {Greatest(n)}], frames[Greatest(n)])])[DOMAIN frames]
    BY DEF Probables, FoldLeft, MapThenFoldSet, Greatest, Max
  <2> QED BY <1>0, <1>7, <2>1, <2>2
<1>10. f[1 .. 0] = <<>>
  BY <1>8
<1>11. ASSUME NEW n \in 0 .. N, n < N PROVE f[1 .. n + 1] = AddProbable(f[1 .. n], seq[n + 1])
  <2>1. n + 1 \in Nat /\ n + 1 # 0 /\ n + 1 - 1 = n
    OBVIOUS
  <2>2. Greatest(1 .. n + 1) = n + 1 /\ (1 .. n + 1) \ {n + 1} = 1 .. n
    BY <2>1, GreatestOfPrefix
  <2>3. 1 .. n + 1 \in SUBSET (1 .. N) /\ n + 1 \in 1 .. n + 1
    BY <1>11
  <2> QED BY <1>8, <2>2, <2>3
<1>12. \A n \in 0 .. N : f[1 .. n] \in ProbableResult
  <2> DEFINE S == {n \in 0 .. N : f[1 .. n] \in ProbableResult}
  <2>1. 0 \in S
    BY <1>2, <1>10
  <2>2. ASSUME NEW n \in 0 .. N, n \in S, n < N PROVE n + 1 \in S
    <3>1. f[1 .. n + 1] = AddProbable(f[1 .. n], seq[n + 1])
      BY <1>11, <2>2
    <3>2. n + 1 \in 0 .. N /\ seq[n + 1] \in CodeAddresses
      BY <1>1, <2>2
    <3> QED BY <2>2, <3>1, <3>2, AddProbableGrows
  <2>3. \A n \in 0 .. N : n \in S
    <3> HIDE DEF S
    <3> QED BY <2>1, <2>2, InductionUpTo
  <2> QED BY <2>3
<1>13. PICK after : after = [n \in 0 .. N |-> f[1 .. n]]
  OBVIOUS
<1>14. after \in [0 .. N -> ProbableResult] /\ after[0] = <<>> /\ after[N] = Probables
  BY <1>9, <1>10, <1>12, <1>13
<1>15. \A n \in 0 .. N : n < N => after[n + 1] = AddProbable(after[n], seq[n + 1])
  <2> SUFFICES ASSUME NEW n \in 0 .. N, n < N PROVE after[n + 1] = AddProbable(after[n], seq[n + 1])
    OBVIOUS
  <2>1. n + 1 \in 0 .. N
    OBVIOUS
  <2> QED BY <1>11, <1>13, <2>1
<1> QED BY <1>0, <1>1, <1>14, <1>15

\* The probable frames are each told once, the first of them first, unless there are too many.
LEMMA ProbablesRight ==
  ASSUME frames \in Seq(CodeAddresses)
  PROVE  /\ Probables \in ProbableResult
         /\ Members(frames) \subseteq Addrs(Probables) \/ Len(Probables) = MaxTotal
         /\ Len(Probables) # 0 => Len(frames) # 0 /\ Probables[1].addr = frames[1]
         /\ Len(Probables) = 0 /\ Len(frames) # 0 => MaxTotal = 0
<1>0. PICK seq \in Seq(CodeAddresses) : seq = frames
  OBVIOUS
<1>1. PICK N \in Nat : N = Len(seq)
  OBVIOUS
<1>2. PICK after \in [0 .. N -> ProbableResult] :
        /\ after[0] = <<>> /\ after[N] = Probables
        /\ \A n \in 0 .. N : n < N => after[n + 1] = AddProbable(after[n], seq[n + 1])
  BY <1>0, <1>1, ProbablesRun
<1> DEFINE Seen(n) == (\A k \in 1 .. n : seq[k] \in Addrs(after[n])) \/ Len(after[n]) = MaxTotal
           Starts(n) == Len(after[n]) # 0 => n # 0 /\ after[n][1].addr = seq[1]
           S == {n \in 0 .. N : Seen(n) /\ Starts(n)}
<1>3. 0 \in S
  BY <1>2
<1>4. ASSUME NEW n \in 0 .. N, n \in S, n < N PROVE n + 1 \in S
  <2>1. n + 1 \in 0 .. N /\ n + 1 # 0
    BY <1>4
  <2>2. PICK s \in ProbableResult, t \in ProbableResult, addr \in CodeAddresses :
          s = after[n] /\ t = after[n + 1] /\ addr = seq[n + 1] /\ t = AddProbable(s, addr)
    BY <1>1, <1>2, <1>4, <2>1
  <2>3. /\ addr \in Addrs(t) \/ Len(t) = MaxTotal
        /\ Addrs(s) \subseteq Addrs(t) /\ Len(s) <= Len(t)
        /\ Len(s) # 0 => t[1] = s[1]
        /\ Len(s) = 0 /\ Len(t) # 0 => t[1].addr = addr
    <3>1. t = AddProbable(s, addr)
      BY <2>2
    <3> QED BY <3>1, AddProbableGrows
  <2>4. Len(s) \in Nat /\ Len(t) \in Nat /\ Len(t) <= MaxTotal
    BY DEF ProbableResult
  <2>5. \A k \in 1 .. n + 1 : k \in 1 .. n \/ k = n + 1
    OBVIOUS
  <2>6. Seen(n) /\ Starts(n)
    BY <1>4
  <2>7. Seen(n + 1)
    BY <2>2, <2>3, <2>4, <2>5, <2>6, StackLimits
  <2>8. Len(s) = 0 /\ n # 0 => MaxTotal = 0
    <3>1. Len(s) = 0 => Addrs(s) = {}
      BY DEF Addrs
    <3> QED BY <2>2, <2>6, <3>1
  <2>9. Starts(n + 1)
    BY <2>1, <2>2, <2>3, <2>4, <2>6, <2>8
  <2> HIDE DEF Seen, Starts
  <2> QED BY <2>1, <2>7, <2>9
<1>5. N \in S
  <2>1. N \in 0 .. N
    OBVIOUS
  <2> HIDE DEF S
  <2> QED BY <1>3, <1>4, <2>1, InductionUpTo
<1>6. Seen(N) /\ Starts(N) /\ N \in 0 .. N
  BY <1>5
<1>7. Len(Probables) = 0 /\ N # 0 => MaxTotal = 0
  <2>1. Len(Probables) = 0 => Addrs(Probables) = {}
    BY DEF Addrs
  <2> QED BY <1>2, <1>6, <2>1
<1>8. Members(frames) = {seq[k] : k \in 1 .. N}
  BY <1>0, <1>1 DEF Members
<1>9. Probables \in ProbableResult
  BY <1>2, <1>6
<1> QED BY <1>0, <1>1, <1>2, <1>6, <1>7, <1>8, <1>9

\* The probable frames, and what has been inserted after them so far.
InsertResult == {s \in Seq(HybridRow) :
  /\ Len(s) <= MaxTotal /\ Len(Probables) <= Len(s) /\ Len(s) - Len(Probables) <= MaxInserted
  /\ \A i \in 1 .. Len(Probables) : s[i] = Probables[i]
  /\ \A i \in 1 .. Len(s) : i > Len(Probables) => s[i].source = "S"
  /\ AddrsOnce(s)}

Full(s) == Len(s) = MaxTotal \/ Len(s) - Len(Probables) = MaxInserted

LEMMA AddInsertedGrows ==
  ASSUME Probables \in ProbableResult, NEW s \in InsertResult, NEW addr \in CodeAddresses,
         NEW t, t = AddInserted(s, addr)
  PROVE  /\ t \in InsertResult
         /\ addr \in Addrs(t) \/ Full(t)
         /\ Addrs(s) \subseteq Addrs(t)
         /\ Full(s) => Full(t)
<1>0. PICK p \in Nat : p = Len(Probables)
  BY DEF ProbableResult
<1>1. /\ s \in Seq(HybridRow) /\ AddrsOnce(s) /\ Len(s) \in Nat /\ Len(s) <= MaxTotal
      /\ p <= Len(s) /\ Len(s) - p <= MaxInserted
  BY <1>0 DEF InsertResult
<1>2. CASE Len(s) >= MaxTotal \/ Len(s) - p >= MaxInserted \/ addr \in Addrs(s)
  <2>1. t = s
    BY <1>0, <1>2 DEF AddInserted
  <2>2. Full(s) \/ addr \in Addrs(s)
    BY <1>0, <1>1, <1>2, StackLimits DEF Full
  <2> QED BY <2>1, <2>2
<1>3. CASE ~(Len(s) >= MaxTotal \/ Len(s) - p >= MaxInserted \/ addr \in Addrs(s))
  <2>1. t = Push(s, addr, "S") /\ addr \notin Addrs(s)
    BY <1>0, <1>3 DEF AddInserted
  <2>2. PICK source \in {"P", "S"} : source = "S"
    OBVIOUS
  <2>3. /\ t \in Seq(HybridRow) /\ AddrsOnce(t) /\ Len(t) = Len(s) + 1
        /\ t[Len(t)] = [addr |-> addr, source |-> "S"]
        /\ \A i \in 1 .. Len(s) : t[i] = s[i]
        /\ addr \in Addrs(t) /\ Addrs(s) \subseteq Addrs(t)
    BY <1>1, <2>1, <2>2, PushKeeps
  <2>4. PICK n \in Nat : n = Len(s)
    BY <1>1
  <2>5. n + 1 <= MaxTotal /\ p <= n + 1 /\ n + 1 - p <= MaxInserted
    BY <1>1, <1>3, <2>4, StackLimits
  <2>6. \A i \in 1 .. n + 1 : i \in 1 .. n \/ i = n + 1
    OBVIOUS
  <2>7. \A i \in 1 .. n : i > p => s[i].source = "S"
    BY <1>0, <2>4 DEF InsertResult
  <2>8. \A i \in 1 .. n + 1 : i > p => t[i].source = "S"
    BY <2>3, <2>4, <2>6, <2>7
  <2>9. \A i \in 1 .. p : i \in 1 .. n
    BY <1>1, <2>4
  <2>10. \A i \in 1 .. p : s[i] = Probables[i]
    BY <1>0 DEF InsertResult
  <2>11. \A i \in 1 .. p : t[i] = Probables[i]
    BY <2>3, <2>4, <2>9, <2>10
  <2>12. t \in InsertResult
    BY <1>0, <2>3, <2>4, <2>5, <2>8, <2>11 DEF InsertResult
  <2>13. ~Full(s)
    BY <1>0, <1>1, <1>3, StackLimits DEF Full
  <2> QED BY <2>3, <2>12, <2>13
<1> QED BY <1>2, <1>3

LEMMA InsertedRuns ==
  ASSUME Probables \in ProbableResult, NEW scanned \in Seq(CodeAddresses)
  PROVE  \E after \in [0 .. Len(scanned) -> InsertResult] :
           /\ after[0] = Probables /\ after[Len(scanned)] = Inserted(scanned)
           /\ \A n \in 0 .. Len(scanned) : n < Len(scanned) => after[n + 1] = AddInserted(after[n], scanned[n + 1])
<1>1. PICK N \in Nat : N = Len(scanned)
  OBVIOUS
<1>2. Probables \in InsertResult
  <2>1. PICK p \in Nat : p = Len(Probables)
    BY DEF ProbableResult
  <2>2. p <= MaxTotal /\ p <= p /\ p - p <= MaxInserted
    BY <2>1, StackLimits DEF ProbableResult
  <2>3. \A i \in 1 .. p : ~(i > p)
    OBVIOUS
  <2> QED BY <2>1, <2>2, <2>3 DEF InsertResult, ProbableResult
<1>3. PICK step : step = [n \in 1 .. N |-> [t \in InsertResult |-> AddInserted(t, scanned[n])]]
  OBVIOUS
<1>4. step \in [1 .. N -> [InsertResult -> InsertResult]]
  <2>1. \A n \in 1 .. N : scanned[n] \in CodeAddresses
    BY <1>1
  <2> QED BY <1>3, <2>1, AddInsertedGrows
<1>5. PICK g \in [SUBSET (1 .. N) -> InsertResult] : \A s \in SUBSET (1 .. N) :
        g[s] = IF s = {} THEN Probables ELSE step[Greatest(s)][g[s \ {Greatest(s)}]]
  <2>1. PICK T, base : T = InsertResult /\ base = Probables
    OBVIOUS
  <2>2. base \in T /\ step \in [1 .. N -> [T -> T]]
    BY <1>2, <1>4, <2>1
  <2>3. \E g : FoldsBy(g, N, T, base, step)
    BY <2>2, FoldExists
  <2> QED BY <2>1, <2>3 DEF FoldsBy
<1>6. g = [n \in SUBSET (1 .. N) |->
             IF n = {} THEN Probables ELSE AddInserted(g[n \ {Greatest(n)}], scanned[Greatest(n)])]
  <2>1. ASSUME NEW s \in SUBSET (1 .. N), s # {}
        PROVE g[s] = AddInserted(g[s \ {Greatest(s)}], scanned[Greatest(s)])
    <3>1. Greatest(s) \in 1 .. N
      BY <2>1, GreatestBelow
    <3>2. s \ {Greatest(s)} \in SUBSET (1 .. N)
      OBVIOUS
    <3> QED BY <1>3, <1>5, <2>1, <3>1, <3>2
  <2> QED BY <1>5, <2>1
<1>7. PICK f : /\ f = (CHOOSE h : h = [n \in SUBSET (1 .. N) |->
                   IF n = {} THEN Probables ELSE AddInserted(h[n \ {Greatest(n)}], scanned[Greatest(n)])])
  OBVIOUS
<1>8. f = [n \in SUBSET (1 .. N) |->
             IF n = {} THEN Probables ELSE AddInserted(f[n \ {Greatest(n)}], scanned[Greatest(n)])]
  BY <1>6, <1>7
<1>9. Inserted(scanned) = f[1 .. N]
  <2>1. DOMAIN scanned = 1 .. N
    BY <1>1
  <2>2. Inserted(scanned) = (CHOOSE h : h = [n \in SUBSET (DOMAIN scanned) |->
            IF n = {} THEN Probables ELSE AddInserted(h[n \ {Greatest(n)}], scanned[Greatest(n)])])[DOMAIN scanned]
    BY DEF Inserted, FoldLeft, MapThenFoldSet, Greatest, Max
  <2> QED BY <1>7, <2>1, <2>2
<1>10. f[1 .. 0] = Probables
  BY <1>8
<1>11. ASSUME NEW n \in 0 .. N, n < N PROVE f[1 .. n + 1] = AddInserted(f[1 .. n], scanned[n + 1])
  <2>1. n + 1 \in Nat /\ n + 1 # 0 /\ n + 1 - 1 = n
    OBVIOUS
  <2>2. Greatest(1 .. n + 1) = n + 1 /\ (1 .. n + 1) \ {n + 1} = 1 .. n
    BY <2>1, GreatestOfPrefix
  <2>3. 1 .. n + 1 \in SUBSET (1 .. N) /\ n + 1 \in 1 .. n + 1
    BY <1>11
  <2> QED BY <1>8, <2>2, <2>3
<1>12. \A n \in 0 .. N : f[1 .. n] \in InsertResult
  <2> DEFINE S == {n \in 0 .. N : f[1 .. n] \in InsertResult}
  <2>1. 0 \in S
    BY <1>2, <1>10
  <2>2. ASSUME NEW n \in 0 .. N, n \in S, n < N PROVE n + 1 \in S
    <3>1. f[1 .. n + 1] = AddInserted(f[1 .. n], scanned[n + 1])
      BY <1>11, <2>2
    <3>2. n + 1 \in 0 .. N /\ scanned[n + 1] \in CodeAddresses
      BY <1>1, <2>2
    <3> QED BY <2>2, <3>1, <3>2, AddInsertedGrows
  <2>3. \A n \in 0 .. N : n \in S
    <3> HIDE DEF S
    <3> QED BY <2>1, <2>2, InductionUpTo
  <2> QED BY <2>3
<1>13. PICK after : after = [n \in 0 .. N |-> f[1 .. n]]
  OBVIOUS
<1>14. after \in [0 .. N -> InsertResult] /\ after[0] = Probables /\ after[N] = Inserted(scanned)
  BY <1>9, <1>10, <1>12, <1>13
<1>15. \A n \in 0 .. N : n < N => after[n + 1] = AddInserted(after[n], scanned[n + 1])
  <2> SUFFICES ASSUME NEW n \in 0 .. N, n < N PROVE after[n + 1] = AddInserted(after[n], scanned[n + 1])
    OBVIOUS
  <2>1. n + 1 \in 0 .. N
    OBVIOUS
  <2> QED BY <1>11, <1>13, <2>1
<1> QED BY <1>1, <1>14, <1>15

\* What the scan has found follows the probable frames, each address once, unless a
\* limit is reached.
LEMMA InsertedRight ==
  ASSUME Probables \in ProbableResult, NEW scanned \in Seq(CodeAddresses)
  PROVE  /\ Inserted(scanned) \in InsertResult
         /\ \A k \in 1 .. Len(scanned) : scanned[k] \in Addrs(Inserted(scanned)) \/ Full(Inserted(scanned))
<1>1. PICK N \in Nat : N = Len(scanned)
  OBVIOUS
<1>2. PICK after \in [0 .. N -> InsertResult] :
        /\ after[0] = Probables /\ after[N] = Inserted(scanned)
        /\ \A n \in 0 .. N : n < N => after[n + 1] = AddInserted(after[n], scanned[n + 1])
  BY <1>1, InsertedRuns
<1> DEFINE S == {n \in 0 .. N : \A k \in 1 .. n : scanned[k] \in Addrs(after[n]) \/ Full(after[n])}
<1>3. 0 \in S
  OBVIOUS
<1>4. ASSUME NEW n \in 0 .. N, n \in S, n < N PROVE n + 1 \in S
  <2>1. n + 1 \in 0 .. N
    BY <1>4
  <2>2. PICK s \in InsertResult, t \in InsertResult, addr \in CodeAddresses :
          s = after[n] /\ t = after[n + 1] /\ addr = scanned[n + 1] /\ t = AddInserted(s, addr)
    BY <1>1, <1>2, <1>4, <2>1
  <2>3. (addr \in Addrs(t) \/ Full(t)) /\ Addrs(s) \subseteq Addrs(t) /\ (Full(s) => Full(t))
    <3>1. t = AddInserted(s, addr)
      BY <2>2
    <3> QED BY <3>1, AddInsertedGrows
  <2>4. \A k \in 1 .. n + 1 : k \in 1 .. n \/ k = n + 1
    OBVIOUS
  <2>5. \A k \in 1 .. n : scanned[k] \in Addrs(s) \/ Full(s)
    BY <1>4, <2>2
  <2>6. \A k \in 1 .. n + 1 : scanned[k] \in Addrs(t) \/ Full(t)
    BY <2>2, <2>3, <2>4, <2>5
  <2> QED BY <2>1, <2>2, <2>6
<1>5. N \in S
  <2>1. N \in 0 .. N
    OBVIOUS
  <2> HIDE DEF S
  <2> QED BY <1>3, <1>4, <2>1, InductionUpTo
<1>6. Inserted(scanned) \in InsertResult
  <2>1. N \in 0 .. N
    OBVIOUS
  <2> QED BY <1>2, <2>1
<1> QED BY <1>1, <1>2, <1>5, <1>6

-----------------------------------------------------------------------------
(* The merge                                                                *)

\* What is said of the merged call stack of a stack with these values: the property
\* HybridComplete, and that it begins with the first probable frame.
FromStack(s) == {i \in 1 .. Len(s) : s[i].source = "S"}
Complete(s, stack) ==
  /\ s \in Seq(HybridRow) /\ AddrsOnce(s)
  /\ Len(s) <= MaxTotal /\ Cardinality(FromStack(s)) <= MaxInserted
  /\ \A i, j \in 1 .. Len(s) : i < j /\ s[i].source = "S" => s[j].source = "S"
  /\ Members(frames) \subseteq Addrs(s) \/ Len(s) = MaxTotal
  /\ \A v \in Members(stack) : InCode(v) /\ v \notin Addrs(s) =>
       Len(s) = MaxTotal \/ Cardinality(FromStack(s)) = MaxInserted
  /\ s # <<>> /\ frames # <<>> => s[1].addr = frames[1]

\* The rows from the stack are those after the probable frames.
LEMMA InsertedCount ==
  ASSUME Probables \in ProbableResult, NEW s \in InsertResult
  PROVE  /\ Cardinality(FromStack(s)) = Len(s) - Len(Probables)
         /\ \A i, j \in 1 .. Len(s) : i < j /\ s[i].source = "S" => s[j].source = "S"
<1>1. PICK p \in Nat, n \in Nat : p = Len(Probables) /\ n = Len(s)
  BY DEF ProbableResult, InsertResult
<1>2. p <= n
  BY <1>1 DEF InsertResult
<1>3. \A i \in 1 .. p : s[i].source = "P"
  <2>1. \A i \in 1 .. p : s[i] = Probables[i]
    BY <1>1 DEF InsertResult
  <2>2. \A i \in 1 .. p : Probables[i].source = "P"
    BY <1>1 DEF ProbableResult
  <2> QED BY <2>1, <2>2
<1>4. \A i \in 1 .. n : i > p => s[i].source = "S"
  BY <1>1 DEF InsertResult
<1>5. \A i \in 1 .. n : i > p <=> s[i].source = "S"
  <2>1. \A i \in 1 .. n : ~(i > p) => i \in 1 .. p
    BY <1>2
  <2> QED BY <1>3, <1>4, <2>1
<1>6. FromStack(s) = p + 1 .. n
  <2>1. p + 1 .. n = {i \in 1 .. n : i > p}
    OBVIOUS
  <2> QED BY <1>1, <1>5, <2>1 DEF FromStack
<1>7. Cardinality(p + 1 .. n) = n - p
  <2>1. PICK a \in Int, b \in Int : a = p + 1 /\ b = n
    BY <1>1
  <2>2. Cardinality(a .. b) = IF a > b THEN 0 ELSE b - a + 1
    BY <2>1, FS_Interval
  <2> QED BY <1>2, <2>1, <2>2
<1>8. \A i, j \in 1 .. n : i < j /\ i > p => j > p
  BY <1>1
<1> QED BY <1>1, <1>5, <1>6, <1>7, <1>8

\* As many different addresses as a call stack may have fill it.
LEMMA AllFill ==
  ASSUME NEW scanned \in ScanResult, Len(scanned) = MaxTotal, NEW s \in Seq(HybridRow),
         \A k \in 1 .. Len(scanned) : scanned[k] \in Addrs(s)
  PROVE  Len(s) >= MaxTotal
<1>1. PICK n \in Nat : n = Len(s)
  OBVIOUS
<1>2. PICK f : f = [k \in 1 .. MaxTotal |-> CHOOSE i \in 1 .. n : s[i].addr = scanned[k]]
  OBVIOUS
<1>3. ASSUME NEW k \in 1 .. MaxTotal PROVE f[k] \in 1 .. n /\ s[f[k]].addr = scanned[k]
  <2>1. \E i \in 1 .. n : s[i].addr = scanned[k]
    BY <1>1 DEF Addrs
  <2> QED BY <1>2, <2>1
<1>4. \A i, j \in 1 .. MaxTotal : scanned[i] = scanned[j] => i = j
  BY DEF ScanResult
<1>5. \A i, j \in 1 .. MaxTotal : f[i] = f[j] => i = j
  <2> SUFFICES ASSUME NEW i \in 1 .. MaxTotal, NEW j \in 1 .. MaxTotal, f[i] = f[j] PROVE i = j
    OBVIOUS
  <2>1. scanned[i] = scanned[j]
    BY <1>3
  <2> QED BY <1>4, <2>1
<1>6. f \in [1 .. MaxTotal -> 1 .. n]
  BY <1>2, <1>3
<1>7. f \in Injection(1 .. MaxTotal, 1 .. n)
  BY <1>5, <1>6 DEF Injection, IsInjective
<1>8. \A k \in Nat : IsFiniteSet(1 .. k) /\ Cardinality(1 .. k) = k
  <2> SUFFICES ASSUME NEW k \in Nat PROVE IsFiniteSet(1 .. k) /\ Cardinality(1 .. k) = k
    OBVIOUS
  <2>1. 1 \in Int /\ k \in Int
    OBVIOUS
  <2>2. IsFiniteSet(1 .. k) /\ Cardinality(1 .. k) = IF 1 > k THEN 0 ELSE k - 1 + 1
    BY <2>1, FS_Interval
  <2> QED BY <2>2
<1>9. Cardinality(1 .. MaxTotal) <= Cardinality(1 .. n)
  <2>1. PICK S, T : S = 1 .. MaxTotal /\ T = 1 .. n
    OBVIOUS
  <2>2. IsFiniteSet(T) /\ f \in Injection(S, T)
    BY <1>7, <1>8, <2>1
  <2>3. Cardinality(S) <= Cardinality(T)
    BY <2>2, FS_Injection
  <2> QED BY <2>1, <2>3
<1> QED BY <1>1, <1>8, <1>9, StackLimits

\* Merging the probable frames with what the scan finds gives a complete call stack.
LEMMA MergeCompletes ==
  ASSUME frames \in Seq(CodeAddresses), NEW stack \in Seq(OnStack), NEW s, s = Inserted(Scanned(stack))
  PROVE  Complete(s, stack)
<1>1. PICK scanned \in ScanResult : scanned = Scanned(stack)
  BY ScannedRight
<1>2. \A v \in Members(stack) : InCode(v) => v \in Members(scanned) \/ Len(scanned) = MaxTotal
  BY <1>1, ScannedRight
<1>3. /\ Probables \in ProbableResult
      /\ Members(frames) \subseteq Addrs(Probables) \/ Len(Probables) = MaxTotal
      /\ Len(Probables) # 0 => Len(frames) # 0 /\ Probables[1].addr = frames[1]
      /\ Len(Probables) = 0 /\ Len(frames) # 0 => MaxTotal = 0
  BY ProbablesRight
<1>4. scanned \in Seq(CodeAddresses)
  BY DEF ScanResult
<1>5. s \in InsertResult /\ \A k \in 1 .. Len(scanned) : scanned[k] \in Addrs(s) \/ Full(s)
  BY <1>1, <1>3, <1>4, InsertedRight
<1>6. PICK p \in Nat, n \in Nat : p = Len(Probables) /\ n = Len(s)
  BY <1>3, <1>5 DEF ProbableResult, InsertResult
<1>7. /\ s \in Seq(HybridRow) /\ AddrsOnce(s) /\ n <= MaxTotal /\ p <= n /\ n - p <= MaxInserted
      /\ \A i \in 1 .. p : s[i] = Probables[i]
  BY <1>5, <1>6 DEF InsertResult
<1>8. /\ Cardinality(FromStack(s)) = n - p
      /\ \A i, j \in 1 .. n : i < j /\ s[i].source = "S" => s[j].source = "S"
  BY <1>3, <1>5, <1>6, InsertedCount
<1>9. Members(frames) \subseteq Addrs(s) \/ n = MaxTotal
  <2>1. CASE Members(frames) \subseteq Addrs(Probables)
    <3>1. \A i \in 1 .. p : i \in 1 .. n
      BY <1>7
    <3>2. Addrs(Probables) \subseteq Addrs(s)
      BY <1>6, <1>7, <3>1 DEF Addrs
    <3> QED BY <2>1, <3>2
  <2>2. CASE p = MaxTotal
    BY <1>7, <2>2, StackLimits
  <2> QED BY <1>3, <1>6, <2>1, <2>2
<1>10. ASSUME NEW v \in Members(stack), InCode(v), v \notin Addrs(s) PROVE Full(s)
  <2> SUFFICES ASSUME ~Full(s) PROVE FALSE
    OBVIOUS
  <2>1. \A k \in 1 .. Len(scanned) : scanned[k] \in Addrs(s)
    BY <1>5
  <2>2. v \notin Members(scanned)
    BY <1>10, <2>1 DEF Members
  <2>3. Len(scanned) = MaxTotal
    BY <1>2, <1>10, <2>2
  <2>4. n >= MaxTotal
    BY <1>6, <1>7, <2>1, <2>3, AllFill
  <2> QED BY <1>6, <1>7, <2>4, StackLimits DEF Full
<1>11. ASSUME s # <<>>, frames # <<>> PROVE s[1].addr = frames[1]
  <2>1. n # 0 /\ Len(frames) # 0
    BY <1>6, <1>7, <1>11
  <2>2. p # 0
    BY <1>3, <1>6, <1>7, <2>1, StackLimits
  <2> QED BY <1>3, <1>6, <1>7, <2>2
<1> QED BY <1>6, <1>7, <1>8, <1>9, <1>10, <1>11 DEF Complete, Full

-----------------------------------------------------------------------------
(* The steps of the handler                                                 *)

\* The kinds of the variables, and that the call stack is begun when the table of the
\* modules is made.
StackKinds ==
  /\ stackAt \in {"none", "reseed", "walk", "capture", "locate", "merge", "print", "done"}
  /\ nullCall \in BOOLEAN /\ exceptionAt \in 0 .. Top /\ throwAt \in 0 .. Top
  /\ walked \in Seq(CodeAddresses) /\ frames \in Seq(CodeAddresses) /\ values \in Seq(OnStack)
  /\ stackAt # "none" => modulesAt = "done"
  /\ stackAt \in {"reseed", "walk"} => nullCall

\* Where the frames begin, and that there are none before an exception is known.
FramesRight ==
  /\ stackAt = "none" => frames = <<>>
  /\ ~nullCall /\ exceptionAt \in Members(frames) => frames[1] = exceptionAt

\* What has been merged is complete, and what has been printed has a row for each frame.
HybridRight ==
  IF stackAt \in {"print", "done"} THEN Complete(hybrid, values) ELSE hybrid = <<>>

PrintedRight ==
  IF stackAt = "done" THEN Len(printed) = Len(hybrid) /\ \A i \in 1 .. Len(hybrid) : printed[i].addr = hybrid[i].addr
  ELSE printed = <<>>

StackInv == StackKinds /\ FramesRight /\ HybridRight /\ PrintedRight

\* What is complete stays complete as long as the frames and the table do.
LEMMA CompleteStays ==
  ASSUME UNCHANGED frames, UNCHANGED table, NEW s, NEW stack, Complete(s, stack)
  PROVE  Complete(s, stack)'
<1>1. \A v : InCode(v)' <=> InCode(v)
  <2> SUFFICES ASSUME NEW v PROVE InCode(v)' <=> InCode(v)
    OBVIOUS
  <2>1. Lookup(v)' = Lookup(v)
    BY DEF Lookup, InRange
  <2> QED BY <2>1 DEF InCode
<1>2. Members(frames)' = Members(frames)
  BY DEF Members
<1> QED BY <1>1, <1>2 DEF Complete

LEMMA InitStackInv == CallStackInit => StackInv
<1> SUFFICES ASSUME CallStackInit PROVE StackInv
  OBVIOUS
<1>1. StackInit
  BY DEF CallStackInit
<1>2. 0 \in 0 .. Top
  BY ImagesAssumption
<1>3. StackKinds
  <2>1. walked \in Seq(CodeAddresses) /\ frames \in Seq(CodeAddresses) /\ values \in Seq(OnStack)
    BY <1>1 DEF StackInit
  <2>2. exceptionAt \in 0 .. Top /\ throwAt \in 0 .. Top
    BY <1>1, <1>2 DEF StackInit
  <2>3. nullCall \in BOOLEAN /\ stackAt = "none"
    BY <1>1 DEF StackInit
  <2> QED BY <2>1, <2>2, <2>3 DEF StackKinds
<1>4. Members(frames) = {}
  BY <1>1 DEF StackInit, Members
<1> QED BY <1>1, <1>3, <1>4 DEF StackInit, StackInv, FramesRight, HybridRight, PrintedRight

\* While the table is made the call stack has not been begun.
LEMMA ModulesStepStackInv == StackInv /\ ModulesNext /\ UNCHANGED stackVars => StackInv'
<1> SUFFICES ASSUME StackInv, ModulesNext, UNCHANGED stackVars PROVE StackInv'
  OBVIOUS
<1>1. modulesAt # "done"
  BY DEF ModulesNext, Load, Unload, Enumerate, EnumerateFails, Describe, DescribeFaults, SortModules, Described
<1>2. /\ stackAt' = stackAt /\ nullCall' = nullCall /\ exceptionAt' = exceptionAt /\ walked' = walked
      /\ frames' = frames /\ values' = values /\ hybrid' = hybrid /\ printed' = printed /\ throwAt' = throwAt
  BY DEF stackVars
<1>3. stackAt = "none"
  BY <1>1 DEF StackInv, StackKinds
<1>4. StackKinds'
  BY <1>2, <1>3 DEF StackInv, StackKinds
<1>5. frames = <<>> /\ hybrid = <<>> /\ printed = <<>>
  BY <1>3 DEF StackInv, FramesRight, HybridRight, PrintedRight
<1>6. Members(<<>>) = {}
  BY DEF Members
<1> QED BY <1>2, <1>3, <1>4, <1>5, <1>6 DEF StackInv, FramesRight, HybridRight, PrintedRight

\* Steps before the merge: nothing is merged or printed.
LEMMA EarlyStep ==
  ASSUME StackInv, stackAt \notin {"print", "done"}, stackAt' \notin {"print", "done"},
         UNCHANGED <<hybrid, printed>>, StackKinds', FramesRight'
  PROVE  StackInv'
BY DEF StackInv, HybridRight, PrintedRight

\* The frames of a step that leaves them, and the exception, as they are.
LEMMA SameFrames ==
  ASSUME FramesRight, stackAt' # "none", UNCHANGED <<frames, exceptionAt, nullCall>>
  PROVE  FramesRight'
<1>1. frames' = frames /\ exceptionAt' = exceptionAt /\ nullCall' = nullCall
  OBVIOUS
<1>2. Members(frames)' = Members(frames)
  BY <1>1 DEF Members
<1> QED BY <1>1, <1>2 DEF FramesRight

LEMMA BeginStackInv == StackInv /\ (NullCall \/ OtherException) /\ UNCHANGED moduleVars => StackInv'
<1> SUFFICES ASSUME StackInv, NullCall \/ OtherException, UNCHANGED moduleVars PROVE StackInv'
  OBVIOUS
<1>1. modulesAt' = modulesAt
  BY DEF moduleVars
<1>2. frames = <<>> /\ Members(<<>>) = {}
  <2>1. stackAt = "none"
    BY DEF NullCall, OtherException
  <2> QED BY <2>1 DEF StackInv, FramesRight, Members
<1>3. /\ stackAt = "none" /\ modulesAt = "done" /\ stackAt' \in {"reseed", "capture"}
      /\ UNCHANGED <<walked, frames, values, hybrid, printed, throwAt>>
  BY DEF NullCall, OtherException
<1>4. FramesRight'
  BY <1>2, <1>3 DEF FramesRight
<1>5. StackKinds'
  <2>1. CASE NullCall
    BY <1>1, <1>3, <2>1 DEF NullCall, StackInv, StackKinds
  <2>2. CASE OtherException
    BY <1>1, <1>3, <2>2, CodeIsAddresses DEF OtherException, StackInv, StackKinds
  <2> QED BY <2>1, <2>2
<1> QED BY <1>3, <1>4, <1>5, EarlyStep

LEMMA WalkStackInv ==
  StackInv /\ (ReadCaller \/ Unwind \/ WalkEnds \/ WalkFaults) /\ UNCHANGED moduleVars => StackInv'
<1> SUFFICES ASSUME StackInv, ReadCaller \/ Unwind \/ WalkEnds \/ WalkFaults, UNCHANGED moduleVars PROVE StackInv'
  OBVIOUS
<1>1. modulesAt' = modulesAt
  BY DEF moduleVars
<1>2. walked \in Seq(CodeAddresses)
  BY DEF StackInv, StackKinds
<1>3. /\ stackAt \in {"reseed", "walk"} /\ stackAt' \in {"walk", "capture", "locate"}
      /\ UNCHANGED <<nullCall, exceptionAt, values, hybrid, printed, throwAt>>
      /\ frames' \in {frames, walked} /\ nullCall /\ nullCall'
  BY DEF ReadCaller, Unwind, WalkEnds, WalkFaults, StackInv, StackKinds
<1>4. walked' \in Seq(CodeAddresses)
  <2>1. CASE ReadCaller
    <3>1. PICK caller \in CodeAddresses \cup {0} : walked' = IF caller = 0 THEN <<>> ELSE <<caller>>
      BY <2>1, CodeIsAddresses DEF ReadCaller
    <3>2. caller # 0 => <<caller>> \in Seq(CodeAddresses)
      OBVIOUS
    <3>3. <<>> \in Seq(CodeAddresses)
      OBVIOUS
    <3> QED BY <3>1, <3>2, <3>3
  <2>2. CASE Unwind
    <3>1. PICK rip \in OnStack \ {0} : walked' = Append(walked, rip)
      BY <2>2 DEF Unwind
    <3>2. rip \in CodeAddresses
      BY <3>1, CodeIsAddresses
    <3> QED BY <1>2, <3>1, <3>2
  <2>3. CASE WalkEnds \/ WalkFaults
    BY <1>2, <2>3 DEF WalkEnds, WalkFaults
  <2> QED BY <2>1, <2>2, <2>3
<1>5. FramesRight'
  BY <1>3 DEF FramesRight
<1>6. StackKinds'
  BY <1>1, <1>2, <1>3, <1>4 DEF StackInv, StackKinds
<1> QED BY <1>3, <1>5, <1>6, EarlyStep

\* The frames from the exception on begin with it, if it was captured.
LEMMA FromExceptionRight ==
  ASSUME NEW captured \in Seq(CodeAddresses)
  PROVE  /\ FromException(captured) \in Seq(CodeAddresses)
         /\ exceptionAt \in Members(FromException(captured)) => FromException(captured)[1] = exceptionAt
<1>1. PICK n \in Nat : n = Len(captured)
  OBVIOUS
<1>2. PICK found : found = {i \in 1 .. n : captured[i] = exceptionAt}
  OBVIOUS
<1>3. PICK first : first = IF found = {} THEN 1 ELSE CHOOSE i \in found : \A j \in found : i <= j
  OBVIOUS
<1>4. PICK t : t = SubSeq(captured, first, n)
  OBVIOUS
<1>5. FromException(captured) = t
  BY <1>1, <1>2, <1>3, <1>4 DEF FromException
<1>6. CASE found = {}
  <2>1. t = captured
    <3>1. t = SubSeq(captured, 1, n)
      BY <1>3, <1>4, <1>6
    <3> QED BY <1>1, <3>1
  <2>2. exceptionAt \notin Members(t)
    BY <1>1, <1>2, <1>6, <2>1 DEF Members
  <2> QED BY <1>5, <2>1, <2>2
<1>7. CASE found # {}
  <2>1. \E i \in found : \A j \in found : i <= j
    <3>1. found \in SUBSET Nat
      BY <1>2
    <3> QED BY <1>7, <3>1, LeastNatural
  <2>2. first \in found
    BY <1>3, <1>7, <2>1
  <2>3. first \in 1 .. n /\ captured[first] = exceptionAt
    BY <1>2, <2>2
  <2>4. t \in Seq(CodeAddresses) /\ t[1] = captured[first]
    <3>1. first \in Nat /\ first >= 1 /\ first <= n
      BY <2>3
    <3>2. \A i \in first .. n : i \in 1 .. n
      BY <3>1
    <3>3. \A i \in first .. n : captured[i] \in CodeAddresses
      BY <1>1, <3>2
    <3>4. t = [i \in 1 .. n - first + 1 |-> captured[i + first - 1]]
      BY <1>1, <1>4, <3>1, <3>2
    <3>5. PICK m \in Nat : m = n - first + 1 /\ m # 0
      BY <3>1
    <3>6. \A i \in 1 .. m : i + first - 1 \in first .. n
      BY <3>1, <3>5
    <3>7. t \in [1 .. m -> CodeAddresses]
      BY <3>3, <3>4, <3>5, <3>6
    <3>8. t \in Seq(CodeAddresses)
      BY <3>7
    <3>9. t[1] = captured[1 + first - 1] /\ 1 + first - 1 = first
      BY <3>1, <3>4, <3>5
    <3> QED BY <3>8, <3>9
  <2> QED BY <1>5, <2>3, <2>4
<1> QED BY <1>6, <1>7

LEMMA CaptureInv == StackInv /\ Capture /\ UNCHANGED moduleVars => StackInv'
<1> SUFFICES ASSUME StackInv, Capture, UNCHANGED moduleVars PROVE StackInv'
  OBVIOUS
<1>1. modulesAt' = modulesAt
  BY DEF moduleVars
<1>2. PICK captured \in SeqOf(Executable, MaxCaptured) : frames' = FromException(captured)
  BY DEF Capture
<1>3. /\ stackAt = "capture" /\ stackAt' = "locate"
      /\ UNCHANGED <<nullCall, exceptionAt, walked, values, hybrid, printed, throwAt>>
  BY DEF Capture
<1>4. captured \in Seq(CodeAddresses)
  <2>1. PICK m \in 0 .. MaxCaptured : captured \in [1 .. m -> Executable]
    BY DEF SeqOf
  <2>2. m \in Nat
    BY <2>1, StackLimits
  <2>3. captured \in [1 .. m -> CodeAddresses]
    BY <2>1, CodeIsAddresses
  <2> QED BY <2>2, <2>3
<1>5. /\ frames' \in Seq(CodeAddresses)
      /\ exceptionAt \in Members(frames') => frames'[1] = exceptionAt
  BY <1>2, <1>4, FromExceptionRight
<1>6. FramesRight'
  <2>1. Members(frames)' = Members(frames')
    BY DEF Members
  <2> QED BY <1>3, <1>5, <2>1 DEF FramesRight
<1>7. StackKinds'
  BY <1>1, <1>3, <1>5 DEF StackInv, StackKinds
<1> QED BY <1>3, <1>6, <1>7, EarlyStep

LEMMA LocateInv == StackInv /\ Locate /\ UNCHANGED moduleVars => StackInv'
<1> SUFFICES ASSUME StackInv, Locate, UNCHANGED moduleVars PROVE StackInv'
  OBVIOUS
<1>1. modulesAt' = modulesAt
  BY DEF moduleVars
<1>2. /\ stackAt = "locate" /\ stackAt' = "merge" /\ throwAt' = ThrowLocation
      /\ UNCHANGED <<nullCall, exceptionAt, walked, frames, values, hybrid, printed>>
  BY DEF Locate
<1>3. ThrowLocation \in 0 .. Top
  <2>1. PICK n \in Nat, seq \in Seq(CodeAddresses) : seq = frames /\ n = Len(seq)
    BY DEF StackInv, StackKinds
  <2>2. PICK game : game = {i \in 1 .. n : i <= 10 /\ Lookup(seq[i]) \notin System \cup {Null}}
    OBVIOUS
  <2>3. ThrowLocation = IF n < 3 \/ game = {} THEN 0 ELSE seq[CHOOSE i \in game : \A j \in game : i <= j]
    BY <2>1, <2>2 DEF ThrowLocation
  <2>4. CASE n < 3 \/ game = {}
    BY <2>3, <2>4, ImagesAssumption
  <2>5. CASE ~(n < 3 \/ game = {})
    <3>1. game \in SUBSET Nat
      BY <2>2
    <3>2. \E i \in game : \A j \in game : i <= j
      BY <2>5, <3>1, LeastNatural
    <3>3. PICK i \in game : i = CHOOSE k \in game : \A j \in game : k <= j
      BY <3>2
    <3>4. i \in 1 .. n
      BY <2>2
    <3>5. seq[i] \in CodeAddresses
      BY <2>1, <3>4
    <3> QED BY <2>3, <2>5, <3>3, <3>5, CodeIsAddresses
  <2> QED BY <2>4, <2>5
<1>4. FramesRight'
  BY <1>2, SameFrames DEF StackInv
<1>5. StackKinds'
  BY <1>1, <1>2, <1>3 DEF StackInv, StackKinds
<1> QED BY <1>2, <1>4, <1>5, EarlyStep

LEMMA MergeInv == StackInv /\ Merge /\ UNCHANGED moduleVars => StackInv'
<1> SUFFICES ASSUME StackInv, Merge, UNCHANGED moduleVars PROVE StackInv'
  OBVIOUS
<1>1. modulesAt' = modulesAt /\ UNCHANGED table
  BY DEF moduleVars
<1>2. PICK stack \in SeqOf(OnStack, StackLength) :
        values' = stack /\ hybrid' = Inserted(Scanned(stack))
  BY DEF Merge
<1>3. /\ stackAt = "merge" /\ stackAt' = "print"
      /\ UNCHANGED <<nullCall, exceptionAt, walked, frames, printed, throwAt>>
  BY DEF Merge
<1>4. stack \in Seq(OnStack)
  <2>1. PICK m \in 0 .. StackLength : stack \in [1 .. m -> OnStack]
    BY DEF SeqOf
  <2>2. m \in Nat
    BY <2>1, StackLimits
  <2> QED BY <2>1, <2>2
<1>5. PICK s : s = Inserted(Scanned(stack))
  OBVIOUS
<1>6. frames \in Seq(CodeAddresses)
  BY DEF StackInv, StackKinds
<1>7. Complete(s, stack)
  BY <1>4, <1>5, <1>6, MergeCompletes
<1>8. Complete(s, stack)'
  BY <1>1, <1>3, <1>7, CompleteStays
<1>9. hybrid' = s /\ values' = stack
  BY <1>2, <1>5
<1>10. Complete(hybrid, values)'
  BY <1>8, <1>9 DEF Complete
<1>11. FramesRight'
  BY <1>3, SameFrames DEF StackInv
<1>12. StackKinds'
  BY <1>1, <1>3, <1>4, <1>9 DEF StackInv, StackKinds
<1> QED BY <1>3, <1>10, <1>11, <1>12 DEF StackInv, HybridRight, PrintedRight

LEMMA PrintRowsInv == StackInv /\ PrintRows /\ UNCHANGED moduleVars => StackInv'
<1> SUFFICES ASSUME StackInv, PrintRows, UNCHANGED moduleVars PROVE StackInv'
  OBVIOUS
<1>1. modulesAt' = modulesAt /\ UNCHANGED table
  BY DEF moduleVars
<1>2. PICK failing \in SUBSET (1 .. Len(hybrid)) :
        printed' = [i \in 1 .. Len(hybrid) |-> Row(hybrid[i], i \in failing)]
  BY DEF PrintRows
<1>3. /\ stackAt = "print" /\ stackAt' = "done"
      /\ UNCHANGED <<nullCall, exceptionAt, walked, frames, values, hybrid, throwAt>>
  BY DEF PrintRows
<1>4. Complete(hybrid, values)
  BY <1>3 DEF StackInv, HybridRight
<1>5. PICK s, stack : s = hybrid /\ stack = values
  OBVIOUS
<1>6. Complete(s, stack)
  BY <1>4, <1>5
<1>7. Complete(s, stack)'
  BY <1>1, <1>3, <1>6, CompleteStays
<1>8. hybrid' = s /\ values' = stack
  BY <1>3, <1>5
<1>9. Complete(hybrid, values)'
  BY <1>7, <1>8 DEF Complete
<1>10. s \in Seq(HybridRow)
  BY <1>6 DEF Complete
<1>11. PICK n \in Nat : n = Len(s)
  BY <1>10
<1>12. Len(printed') = n /\ \A i \in 1 .. n : printed'[i].addr = s[i].addr
  <2>1. PICK made : made = [i \in 1 .. n |-> Row(s[i], i \in failing)]
    OBVIOUS
  <2>2. Len(made) = n
    BY <2>1
  <2>3. \A i \in 1 .. n : made[i].addr = s[i].addr
    BY <2>1 DEF Row
  <2> QED BY <1>2, <1>5, <1>11, <2>1, <2>2, <2>3
<1>13. FramesRight'
  BY <1>3, SameFrames DEF StackInv
<1>14. StackKinds'
  BY <1>1, <1>3 DEF StackInv, StackKinds
<1>15. PrintedRight'
  BY <1>3, <1>5, <1>11, <1>12 DEF PrintedRight
<1> QED BY <1>3, <1>9, <1>13, <1>14, <1>15 DEF StackInv, HybridRight

LEMMA StepStackInv == StackInv /\ [CallStackNext]_<<moduleVars, stackVars>> => StackInv'
<1> SUFFICES ASSUME StackInv, [CallStackNext]_<<moduleVars, stackVars>> PROVE StackInv'
  OBVIOUS
<1>1. CASE ModulesNext /\ UNCHANGED stackVars
  BY <1>1, ModulesStepStackInv
<1>2. CASE StackNext /\ UNCHANGED moduleVars
  BY <1>2, BeginStackInv, WalkStackInv, CaptureInv, LocateInv, MergeInv, PrintRowsInv DEF StackNext
<1>3. CASE UNCHANGED <<moduleVars, stackVars>>
  <2>1. modulesAt' = modulesAt /\ UNCHANGED table
    BY <1>3 DEF moduleVars
  <2>2. /\ stackAt' = stackAt /\ nullCall' = nullCall /\ exceptionAt' = exceptionAt /\ walked' = walked
        /\ frames' = frames /\ values' = values /\ hybrid' = hybrid /\ printed' = printed /\ throwAt' = throwAt
    BY <1>3 DEF stackVars
  <2>3. StackKinds'
    BY <2>1, <2>2 DEF StackInv, StackKinds
  <2>4. Members(frames)' = Members(frames)
    BY <2>2 DEF Members
  <2>5. FramesRight'
    BY <2>2, <2>4 DEF StackInv, FramesRight
  <2>6. PrintedRight'
    BY <2>2 DEF StackInv, PrintedRight
  <2>7. CASE stackAt \in {"print", "done"}
    <3>1. PICK s, stack : s = hybrid /\ stack = values
      OBVIOUS
    <3>2. Complete(s, stack)
      BY <2>7, <3>1 DEF StackInv, HybridRight
    <3>3. Complete(s, stack)'
      BY <2>1, <2>2, <3>2, CompleteStays
    <3>4. hybrid' = s /\ values' = stack
      BY <2>2, <3>1
    <3>5. Complete(hybrid, values)'
      BY <3>3, <3>4 DEF Complete
    <3> QED BY <2>2, <2>3, <2>5, <2>6, <2>7, <3>5 DEF StackInv, HybridRight
  <2>8. CASE stackAt \notin {"print", "done"}
    BY <2>2, <2>3, <2>5, <2>6, <2>8 DEF StackInv, HybridRight
  <2> QED BY <2>7, <2>8
<1> QED BY <1>1, <1>2, <1>3 DEF CallStackNext

LEMMA StackInvHolds == CallStackSpec => []StackInv
BY InitStackInv, StepStackInv, PTL DEF CallStackSpec

\* The kinds of the variables of the call stack and of the table of modules.
THEOREM CallStackTypeCorrect == CallStackSpec => []CallStackTypeOK
<1>1. ModulesTypeOK /\ StackInv => CallStackTypeOK
  <2> SUFFICES ASSUME ModulesTypeOK, StackInv PROVE CallStackTypeOK
    OBVIOUS
  <2>1. \A s \in Seq(CodeAddresses) : \A i \in 1 .. Len(s) : s[i] \in CodeAddresses
    OBVIOUS
  <2>2. \A s \in Seq(CodeAddresses) : Members(s) \subseteq CodeAddresses
    BY <2>1 DEF Members
  <2>3. Members(walked) \cup Members(frames) \subseteq CodeAddresses
    BY <2>2 DEF StackInv, StackKinds
  <2>4. Members(values) \subseteq 0 .. Top
    <3>1. \A s \in Seq(OnStack) : Members(s) \subseteq 0 .. Top
      <4> SUFFICES ASSUME NEW s \in Seq(OnStack), NEW i \in 1 .. Len(s) PROVE s[i] \in 0 .. Top
        BY DEF Members
      <4>1. s[i] \in OnStack
        OBVIOUS
      <4> QED BY <4>1, StackAssumption
    <3> QED BY <3>1 DEF StackInv, StackKinds
  <2>5. hybrid \in Seq(HybridRow)
    <3>1. <<>> \in Seq(HybridRow)
      OBVIOUS
    <3> QED BY <3>1 DEF StackInv, HybridRight, Complete
  <2>6. PICK n \in Nat : n = Len(hybrid)
    BY <2>5
  <2>7. \A i \in 1 .. n : hybrid[i].addr \in CodeAddresses
    <3>1. \A i \in 1 .. n : hybrid[i] \in HybridRow
      BY <2>5, <2>6
    <3> QED BY <2>1, <3>1 DEF HybridRow
  <2>8. Addrs(hybrid) \subseteq CodeAddresses
    BY <2>6, <2>7 DEF Addrs
  <2>9. Addrs(printed) \subseteq CodeAddresses /\ Len(printed) <= n
    <3>1. CASE stackAt = "done"
      BY <2>6, <2>7, <3>1 DEF StackInv, PrintedRight, Addrs
    <3>2. CASE stackAt # "done"
      <4>1. printed = <<>> /\ Len(<<>>) = 0
        BY <3>2 DEF StackInv, PrintedRight
      <4>2. Addrs(<<>>) = {}
        BY DEF Addrs
      <4> QED BY <2>6, <4>1, <4>2
    <3> QED BY <3>1, <3>2
  <2> QED BY <2>3, <2>4, <2>6, <2>8, <2>9 DEF CallStackTypeOK, StackInv, StackKinds
<1> QED BY <1>1, ModulesTypeCorrect, StackInvHolds, PTL

\* Whatever was walked, captured and found on the stack, the call stack of the report has
\* each address once, probable frames first, leaves out code on the stack only at a limit,
\* and begins where the program failed, with a row for each frame (build_hybrid_callstack,
\* scan_stack_for_frames, Callstack::Callstack, print_hybrid_callstack).
THEOREM CallStackIsRight == CallStackSpec => []CallStackRight
<1>1. StackInv => CallStackRight
  <2> SUFFICES ASSUME StackInv PROVE CallStackRight
    OBVIOUS
  <2>1. HybridComplete
    BY DEF StackInv, HybridRight, Complete, HybridComplete, AddrsOnce, FromStack, InsertedFrames
  <2>2. ~nullCall /\ exceptionAt \in Members(frames) => frames[1] = exceptionAt
    BY DEF StackInv, FramesRight
  <2>3. hybrid # <<>> /\ frames # <<>> => hybrid[1].addr = frames[1]
    BY DEF StackInv, HybridRight, Complete
  <2>4. stackAt = "done" => [i \in 1 .. Len(printed) |-> printed[i].addr] = [i \in 1 .. Len(hybrid) |-> hybrid[i].addr]
    BY DEF StackInv, PrintedRight
  <2> QED BY <2>1, <2>2, <2>3, <2>4 DEF CallStackRight, StartsAtTheFailure
<1> QED BY <1>1, StackInvHolds, PTL

-----------------------------------------------------------------------------
(* The sections                                                             *)

\* A step with all that is said of it, and its fields.
StepEntry(item, refused, go, catch, caught, next, gets, frees, undo, rescue) ==
  [item |-> item, refused |-> refused, go |-> go, catch |-> catch, caught |-> caught, next |-> next,
   gets |-> gets, frees |-> frees, undo |-> undo, rescue |-> rescue]

LEMMA RowFields ==
  \A a, b, c, d, e, f, g, h, i, j : LET r == StepEntry(a, b, c, d, e, f, g, h, i, j) IN
    /\ r.item = a /\ r.refused = b /\ r.go = c /\ r.catch = d /\ r.caught = e /\ r.next = f
    /\ r.gets = g /\ r.frees = h /\ r.undo = i /\ r.rescue = j
BY DEF StepEntry

\* What a form changes in a row.
LEMMA RowChanges ==
  \A a, b, c, d, e, f, g, h, i, j, v : LET r == StepEntry(a, b, c, d, e, f, g, h, i, j) IN
    /\ Undoes(r, v) = StepEntry(a, b, c, d, e, f, g, h, v, j)
    /\ Rescues(r, v) = StepEntry(a, b, c, d, e, f, g, h, i, v)
    /\ LeadsTo(r, v) = StepEntry(a, b, c, d, e, v, g, h, i, j)
BY DEF StepEntry, Undoes, Rescues, LeadsTo

\* The rows that take more than one form.
LEMMA GetsRow ==
  \A a, b, c, d, x : Gets(Step(a, b, c, d), x) = StepEntry(a, b, c, d, "told", 0, x, {}, {}, {})
BY DEF Gets, Step, StepEntry

LEMMA FreesRow ==
  \A a, b, c, d, x : Frees(Step(a, b, c, d), x) = StepEntry(a, b, c, d, "told", 0, {}, x, {}, {})
BY DEF Frees, Step, StepEntry

LEMMA GetsUndoesRow ==
  \A a, b, c, d, x, y :
    Undoes(Gets(Step(a, b, c, d), x), y) = StepEntry(a, b, c, d, "told", 0, x, {}, y, {})
BY GetsRow, RowChanges

LEMMA FreesUndoesRow ==
  \A a, b, c, d, x, y :
    Undoes(Frees(Step(a, b, c, d), x), y) = StepEntry(a, b, c, d, "told", 0, {}, x, y, {})
BY FreesRow, RowChanges

LEMMA SilentLeadsRow ==
  \A a, d, n : LeadsTo(Silently(Sure(a, d)), n) = StepEntry(a, "never", 0, d, "silent", n, {}, {}, {}, {})
<1>1. \A a, d : Silently(Sure(a, d)) = StepEntry(a, "never", 0, d, "silent", 0, {}, {}, {}, {})
  BY DEF Silently, Sure, Step, StepEntry
<1>2. QED
  BY <1>1, RowChanges

LEMMA GetsRescuesRow ==
  \A a, b, c, d, x, z :
    Rescues(Gets(Step(a, b, c, d), x), z) = StepEntry(a, b, c, d, "told", 0, x, {}, {}, z)
BY GetsRow, RowChanges

LEMMA GetsUndoesRescuesRow ==
  \A a, b, c, d, x, y, z :
    Rescues(Undoes(Gets(Step(a, b, c, d), x), y), z) = StepEntry(a, b, c, d, "told", 0, x, {}, y, z)
BY GetsUndoesRow, RowChanges

LEMMA UndoesRescuesRow ==
  \A a, b, c, d, y, z :
    Rescues(Undoes(Step(a, b, c, d), y), z) = StepEntry(a, b, c, d, "told", 0, {}, {}, y, z)
<1>1. \A a, b, c, d, y : Undoes(Step(a, b, c, d), y) = StepEntry(a, b, c, d, "told", 0, {}, {}, y, {})
  BY DEF Undoes, Step, StepEntry
<1>2. QED
  BY <1>1, RowChanges

LEMMA FreesRescuesRow ==
  \A a, d, x, z : Rescues(Frees(Sure(a, d), x), z) = StepEntry(a, "never", 0, d, "told", 0, {}, x, {}, z)
<1>1. \A a, d, x : Frees(Sure(a, d), x) = StepEntry(a, "never", 0, d, "told", 0, {}, x, {}, {})
  BY DEF Frees, Sure, Step, StepEntry
<1>2. QED
  BY <1>1, RowChanges

LEMMA FreesRescuesStepRow ==
  \A a, b, c, d, x, z :
    Rescues(Frees(Step(a, b, c, d), x), z) = StepEntry(a, b, c, d, "told", 0, {}, x, {}, z)
BY FreesRow, RowChanges

-----------------------------------------------------------------------------
(* What a routine must be like for its failures to be contained             *)

NextOf(r, i) ==
  IF Routines[r][i].next # 0 THEN Routines[r][i].next
  ELSE IF i = Len(Routines[r]) THEN End ELSE i + 1

\* What a routine holds before a step, where no exception has passed a release by.
HeldAt(r, i) ==
  CASE r = "system"  -> (IF i = 8 THEN {"factory"} ELSE IF i = 9 THEN {"factory", "adapter"} ELSE {})
    [] r = "process" -> (IF i = 8 THEN {"provider"} ELSE IF i \in {9, 10} THEN {"provider", "hash"}
                         ELSE IF i = 15 THEN {"token"} ELSE {})
    [] r = "upload"  -> (IF i = 5 THEN {"session"} ELSE IF i = 6 THEN {"session", "connection"}
                         ELSE IF i \in 7 .. 12 THEN Handles ELSE IF i = 17 THEN {"clipboard"}
                         ELSE IF i \in 18 .. 19 THEN {"clipboard", "copy"}
                         ELSE IF i = 20 THEN {"clipboard"} ELSE {})
    [] OTHER -> {}

\* The steps that no failure may cost, and the step from which on that is so.
Needed(r) ==
  CASE r = "process" -> {2, 3, 4, 14}
    [] r = "system" -> {3, 5, 6, 7}
    [] r = "vr" -> {5, 8, 11, 12, 13}
    [] r = "xse" -> {5}
    [] r = "upload" -> {21}
    [] OTHER -> {}
From(r) == CASE r = "vr" -> 3 [] r = "xse" -> 2 [] r = "upload" -> 15 [] OTHER -> 0
FromItem(r) ==
  CASE r = "vr" -> "runtime" [] r = "xse" -> "exists" [] r = "upload" -> "uploaded" [] OTHER -> "none"

\* The items whose exceptions may leave their section.
Unguarded(r) ==
  CASE r \in {"upload", "demands", "paths"} -> {}
    [] r = "process" -> {"ids"}
    [] r = "system" -> {"os", "cpu", "gpus", "memory", "virtual_machine"}
    [] r = "vr" -> {"library", "entry_points", "runtime", "device"}
    [] r = "thread" -> {"call_stack", "frames", "heuristics", "priority", "role"}
    [] r = "xse" -> {"names", "plugin"}
    [] r = "plugins" -> {"data_handler", "counts", "regular_files", "light_files"}
    [] r = "modules" -> {"width", "modules"}
    [] r = "game" -> {"state"}
    [] OTHER -> {"diagnosis", "masters"}

\* Where a step leads when it works, is refused or throws.
Where(r, i) == LET s == Routines[r][i] IN
  /\ NextOf(r, i) \in 1 .. Len(Routines[r]) \cup {End}
  /\ s.refused # "never" => s.go \in 1 .. Len(Routines[r]) \cup {End}
  /\ s.catch # Leaves => s.catch \in 1 .. Len(Routines[r]) \cup {End}
  /\ s.catch = Leaves => s.item \in Unguarded(r)

\* What it releases is held, and it leads to a step before which what is left is held, but
\* for a copy that the clipboard refuses; an exception may leave more behind, but never the
\* clipboard.  The clipboard is given the copy once.
Balanced(r, i) == LET s == Routines[r][i] h == HeldAt(r, i) IN
  /\ s.undo \subseteq h /\ s.frees \subseteq h \cup s.gets /\ h \cup s.gets \subseteq Resources
  /\ HeldAt(r, NextOf(r, i)) = (h \cup s.gets) \ s.frees
  /\ s.refused # "never" =>
       /\ HeldAt(r, s.go) \subseteq h \ s.undo
       /\ h \ s.undo \subseteq HeldAt(r, s.go) \cup (IF s.item = "set" THEN {"copy"} ELSE {})
  /\ s.item = "set" => "copy" \in s.frees /\ r = "upload" /\ i = 19
  /\ r = "upload" /\ i >= 19 =>
       /\ NextOf(r, i) > 19
       /\ s.refused # "never" => s.go > 19
       /\ s.catch # Leaves => s.catch > 19
  /\ s.catch # Leaves => HeldAt(r, s.catch) \subseteq h \ s.rescue
  /\ "clipboard" \in h => "clipboard" \in s.rescue /\ s.catch # Leaves

\* It passes no step by that must not be lost, unless it says that it failed where that
\* is enough; and the step from which on this is so stays behind.
Careful(r, i) == LET s == Routines[r][i] tells(how) == r = "xse" /\ how = "told" IN
  /\ \A k \in Needed(r) : From(r) <= i /\ i < k =>
       /\ NextOf(r, i) <= k
       /\ i # From(r) =>
            /\ s.refused # "never" => s.go <= k \/ tells(s.refused)
            /\ s.catch # Leaves => s.catch <= k \/ tells(s.caught)
  /\ s.item = FromItem(r) => i = From(r)
  /\ From(r) # 0 /\ From(r) <= i => NextOf(r, i) > From(r)
  /\ From(r) # 0 /\ From(r) < i =>
       /\ s.refused # "never" => s.go > From(r)
       /\ s.catch # Leaves => s.catch > From(r)

\* The upload ends with the address or with a line that says why not.
Answers(r, i) == LET s == Routines[r][i] IN
  r = "upload" =>
    /\ NextOf(r, i) = End => s.item = "return"
    /\ s.refused # "never" /\ s.go = End => s.refused = "told"
    /\ s.caught = "told"

StepOK(r, i) == Where(r, i) /\ Balanced(r, i) /\ Careful(r, i) /\ Answers(r, i)

-----------------------------------------------------------------------------
(* The steps of the routines                                                *)

\* The items of three sequences in a row.
LEMMA JoinedParts ==
  ASSUME NEW S, NEW a \in Seq(S), NEW b \in Seq(S), NEW c \in Seq(S)
  PROVE  /\ Len((a \o b) \o c) = Len(a) + Len(b) + Len(c)
         /\ \A i \in 1 .. Len(a) : ((a \o b) \o c)[i] = a[i]
         /\ \A i \in 1 .. Len(b) : ((a \o b) \o c)[Len(a) + i] = b[i]
         /\ \A i \in 1 .. Len(c) : ((a \o b) \o c)[Len(a) + Len(b) + i] = c[i]
<1>1. PICK both : both = a \o b
  OBVIOUS
<1>2. /\ both \in Seq(S) /\ Len(both) = Len(a) + Len(b)
      /\ \A i \in 1 .. Len(a) + Len(b) : both[i] = IF i <= Len(a) THEN a[i] ELSE b[i - Len(a)]
  BY <1>1, ConcatProperties
<1>3. both \in Seq(S)
  BY <1>2
<1>4. PICK all : all = both \o c
  OBVIOUS
<1>5. /\ Len(all) = Len(both) + Len(c)
      /\ \A i \in 1 .. Len(both) + Len(c) :
           all[i] = IF i <= Len(both) THEN both[i] ELSE c[i - Len(both)]
  BY <1>3, <1>4, ConcatProperties
<1>6. PICK m \in Nat, n \in Nat, k \in Nat : m = Len(a) /\ n = Len(b) /\ k = Len(c)
  OBVIOUS
<1>7. ASSUME NEW i \in 1 .. k PROVE all[m + n + i] = c[i]
  <2>1. /\ Len(both) = m + n /\ m + n + i \in 1 .. Len(both) + Len(c)
        /\ ~(m + n + i <= m + n) /\ (m + n + i) - (m + n) = i
    BY <1>2, <1>6
  <2>2. QED
    BY <2>1, <1>5
<1>8. ASSUME NEW i \in 1 .. n PROVE all[m + i] = b[i]
  <2>1. /\ Len(both) = m + n /\ m + i \in 1 .. Len(both) + Len(c) /\ m + i \in 1 .. Len(a) + Len(b)
        /\ m + i <= m + n /\ ~(m + i <= m) /\ (m + i) - m = i
    BY <1>2, <1>6
  <2>2. all[m + i] = both[m + i]
    BY <2>1, <1>5
  <2>3. QED
    BY <2>1, <2>2, <1>2, <1>6
<1>9. Len(all) = m + n + k /\ \A i \in 1 .. m : all[i] = a[i]
  BY <1>2, <1>5, <1>6
<1>10. all = (a \o b) \o c
  BY <1>1, <1>4
<1>11. QED
  BY <1>6, <1>7, <1>8, <1>9, <1>10

LEMMA SystemSteps == \A i \in 1 .. 10 : StepOK("system", i)
<1>0. Routines["system"] = SystemInfo /\ Len(SystemInfo) = 10
  BY DEF Routines, SystemInfo
<1> USE DEF StepOK, Where, Balanced, Careful, Answers, NextOf, End, Leaves, Resources, Handles,
            HeldAt, Needed, From, FromItem, Unguarded
<1>1. StepOK("system", 1)
  BY <1>0 DEF SystemInfo, Sure, Step
<1>2. StepOK("system", 2)
  BY <1>0 DEF SystemInfo, Sure, Step
<1>3. StepOK("system", 3)
  BY <1>0 DEF SystemInfo, Sure, Step
<1>4. StepOK("system", 4)
  BY <1>0 DEF SystemInfo, Sure, Step
<1>5. StepOK("system", 5)
  BY <1>0 DEF SystemInfo, Sure, Step
<1>6. StepOK("system", 6)
  BY <1>0 DEF SystemInfo, Step
<1>7. StepOK("system", 7)
  BY <1>0 DEF SystemInfo, Gets, Step
<1>8. StepOK("system", 8)
  BY <1>0, GetsUndoesRow, RowFields DEF SystemInfo
<1>9. StepOK("system", 9)
  BY <1>0, FreesUndoesRow, RowFields DEF SystemInfo
<1>10. StepOK("system", 10)
  BY <1>0 DEF SystemInfo, Step
<1> HIDE DEF StepOK
<1>11. QED
  BY <1>1, <1>2, <1>3, <1>4, <1>5, <1>6, <1>7, <1>8, <1>9, <1>10

\* The steps of the process are those of its parts.
LEMMA ProcessParts ==
  /\ Len(ProcessInfo) = 15
  /\ \A i \in 1 .. 5 : ProcessInfo[i] = ProcessFacts[i]
  /\ \A i \in 1 .. 5 : ProcessInfo[5 + i] = FileMd5(11)[i]
  /\ \A i \in 1 .. 5 : ProcessInfo[10 + i] = FileFacts[i]
<1> DEFINE S == {ProcessFacts[i] : i \in 1 .. 5} \cup {FileMd5(11)[i] : i \in 1 .. 5}
                \cup {FileFacts[i] : i \in 1 .. 5}
<1>1. /\ ProcessFacts \in Seq(S) /\ FileMd5(11) \in Seq(S) /\ FileFacts \in Seq(S)
      /\ Len(ProcessFacts) = 5 /\ Len(FileMd5(11)) = 5 /\ Len(FileFacts) = 5
  BY DEF ProcessFacts, FileMd5, FileFacts
<1> HIDE DEF S
<1>2. PICK a \in Seq(S), b \in Seq(S), c \in Seq(S) :
        a = ProcessFacts /\ b = FileMd5(11) /\ c = FileFacts
  BY <1>1
<1>3. PICK all : all = (a \o b) \o c
  OBVIOUS
<1>4. Len(a) = 5 /\ Len(b) = 5 /\ Len(c) = 5 /\ all = ProcessInfo
  BY <1>1, <1>2, <1>3 DEF ProcessInfo
<1>5. /\ Len(all) = 15
      /\ \A i \in 1 .. 5 : all[i] = a[i]
      /\ \A i \in 1 .. 5 : all[5 + i] = b[i]
      /\ \A i \in 1 .. 5 : all[10 + i] = c[i]
  <2> HIDE DEF S
  <2>1. /\ Len((a \o b) \o c) = Len(a) + Len(b) + Len(c)
        /\ \A i \in 1 .. Len(a) : ((a \o b) \o c)[i] = a[i]
        /\ \A i \in 1 .. Len(b) : ((a \o b) \o c)[Len(a) + i] = b[i]
        /\ \A i \in 1 .. Len(c) : ((a \o b) \o c)[Len(a) + Len(b) + i] = c[i]
    BY JoinedParts
  <2>2. /\ Len(all) = Len(a) + Len(b) + Len(c)
        /\ \A i \in 1 .. Len(a) : all[i] = a[i]
        /\ \A i \in 1 .. Len(b) : all[Len(a) + i] = b[i]
        /\ \A i \in 1 .. Len(c) : all[Len(a) + Len(b) + i] = c[i]
    BY <2>1, <1>3
  <2>3. QED
    BY <2>2, <1>4
<1>6. QED
  BY <1>2, <1>4, <1>5

LEMMA ProcessSteps == \A i \in 1 .. 15 : StepOK("process", i)
<1>0. Routines["process"] = ProcessInfo /\ Len(ProcessInfo) = 15
  BY ProcessParts DEF Routines
<1> USE DEF StepOK, Where, Balanced, Careful, Answers, NextOf, End, Leaves, Resources, Handles,
            HeldAt, Needed, From, FromItem, Unguarded
<1>1. StepOK("process", 1)
  <2>1. ProcessInfo[1] = ProcessFacts[1]
    BY ProcessParts
  <2>2. QED
    BY <1>0, <2>1 DEF ProcessFacts, Sure, Step
<1>2. StepOK("process", 2)
  <2>1. ProcessInfo[2] = ProcessFacts[2]
    BY ProcessParts
  <2>2. QED
    BY <1>0, <2>1 DEF ProcessFacts, Step
<1>3. StepOK("process", 3)
  <2>1. ProcessInfo[3] = ProcessFacts[3]
    BY ProcessParts
  <2>2. QED
    BY <1>0, <2>1 DEF ProcessFacts, Step
<1>4. StepOK("process", 4)
  <2>1. ProcessInfo[4] = ProcessFacts[4]
    BY ProcessParts
  <2>2. QED
    BY <1>0, <2>1 DEF ProcessFacts, Step
<1>5. StepOK("process", 5)
  <2>1. ProcessInfo[5] = ProcessFacts[5]
    BY ProcessParts
  <2>2. QED
    BY <1>0, <2>1 DEF ProcessFacts, Step
<1>6. StepOK("process", 6)
  <2>1. ProcessInfo[6] = FileMd5(11)[1]
    BY ProcessParts
  <2>2. QED
    BY <1>0, <2>1 DEF FileMd5, Step
<1>7. StepOK("process", 7)
  <2>1. ProcessInfo[7] = FileMd5(11)[2]
    BY ProcessParts
  <2>2. QED
    BY <1>0, <2>1 DEF FileMd5, Gets, Step
<1>8. StepOK("process", 8)
  <2>1. ProcessInfo[8] = FileMd5(11)[3]
    BY ProcessParts
  <2>2. QED
    BY <1>0, <2>1, GetsUndoesRow, RowFields DEF FileMd5
<1>9. StepOK("process", 9)
  <2>1. ProcessInfo[9] = FileMd5(11)[4]
    BY ProcessParts
  <2>2. QED
    BY <1>0, <2>1 DEF FileMd5, Undoes, Step
<1>10. StepOK("process", 10)
  <2>1. ProcessInfo[10] = FileMd5(11)[5]
    BY ProcessParts
  <2>2. QED
    BY <1>0, <2>1, FreesUndoesRow, RowFields DEF FileMd5
<1>11. StepOK("process", 11)
  <2>1. ProcessInfo[11] = FileFacts[1]
    BY ProcessParts
  <2>2. QED
    BY <1>0, <2>1 DEF FileFacts, Sure, Step
<1>12. StepOK("process", 12)
  <2>1. ProcessInfo[12] = FileFacts[2]
    BY ProcessParts
  <2>2. QED
    BY <1>0, <2>1 DEF FileFacts, Step
<1>13. StepOK("process", 13)
  <2>1. ProcessInfo[13] = FileFacts[3]
    BY ProcessParts
  <2>2. QED
    BY <1>0, <2>1 DEF FileFacts, Step
<1>14. StepOK("process", 14)
  <2>1. ProcessInfo[14] = FileFacts[4]
    BY ProcessParts
  <2>2. QED
    BY <1>0, <2>1 DEF FileFacts, Gets, Step
<1>15. StepOK("process", 15)
  <2>1. ProcessInfo[15] = FileFacts[5]
    BY ProcessParts
  <2>2. QED
    BY <1>0, <2>1, FreesUndoesRow, RowFields DEF FileFacts
<1> HIDE DEF StepOK
<1>16. QED
  BY <1>1, <1>2, <1>3, <1>4, <1>5, <1>6, <1>7, <1>8, <1>9, <1>10, <1>11, <1>12, <1>13,
      <1>14, <1>15

LEMMA ThreadSteps == \A i \in 1 .. 5 : StepOK("thread", i)
<1>0. Routines["thread"] = ThreadContext /\ Len(ThreadContext) = 5
  BY DEF Routines, ThreadContext
<1> USE DEF StepOK, Where, Balanced, Careful, Answers, NextOf, End, Leaves, Resources, Handles,
            HeldAt, Needed, From, FromItem, Unguarded
<1>1. StepOK("thread", 1)
  BY <1>0 DEF ThreadContext, Step
<1>2. StepOK("thread", 2)
  BY <1>0 DEF ThreadContext, Step
<1>3. StepOK("thread", 3)
  BY <1>0 DEF ThreadContext, Sure, Step
<1>4. StepOK("thread", 4)
  BY <1>0 DEF ThreadContext, Sure, Step
<1>5. StepOK("thread", 5)
  BY <1>0 DEF ThreadContext, Step
<1> HIDE DEF StepOK
<1>6. QED
  BY <1>1, <1>2, <1>3, <1>4, <1>5

LEMMA VrSteps == \A i \in 1 .. 13 : StepOK("vr", i)
<1>0. Routines["vr"] = VrInfo /\ Len(VrInfo) = 13
  BY DEF Routines, VrInfo
<1> USE DEF StepOK, Where, Balanced, Careful, Answers, NextOf, End, Leaves, Resources, Handles,
            HeldAt, Needed, From, FromItem, Unguarded
<1>1. StepOK("vr", 1)
  BY <1>0 DEF VrInfo, Step
<1>2. StepOK("vr", 2)
  BY <1>0 DEF VrInfo, Step
<1>3. StepOK("vr", 3)
  BY <1>0 DEF VrInfo, Step
<1>4. StepOK("vr", 4)
  BY <1>0 DEF VrInfo, Step
<1>5. StepOK("vr", 5)
  BY <1>0 DEF VrInfo, Step
<1>6. StepOK("vr", 6)
  BY <1>0 DEF VrInfo, Step
<1>7. StepOK("vr", 7)
  BY <1>0 DEF VrInfo, Step
<1>8. StepOK("vr", 8)
  BY <1>0 DEF VrInfo, Step
<1>9. StepOK("vr", 9)
  BY <1>0 DEF VrInfo, Step
<1>10. StepOK("vr", 10)
  BY <1>0 DEF VrInfo, Step
<1>11. StepOK("vr", 11)
  BY <1>0 DEF VrInfo, Step
<1>12. StepOK("vr", 12)
  BY <1>0 DEF VrInfo, Step
<1>13. StepOK("vr", 13)
  BY <1>0 DEF VrInfo, Step
<1> HIDE DEF StepOK
<1>14. QED
  BY <1>1, <1>2, <1>3, <1>4, <1>5, <1>6, <1>7, <1>8, <1>9, <1>10, <1>11, <1>12, <1>13

LEMMA XseSteps == \A i \in 1 .. 5 : StepOK("xse", i)
<1>0. Routines["xse"] = XsePlugins /\ Len(XsePlugins) = 5
  BY DEF Routines, XsePlugins
<1> USE DEF StepOK, Where, Balanced, Careful, Answers, NextOf, End, Leaves, Resources, Handles,
            HeldAt, Needed, From, FromItem, Unguarded
<1>1. StepOK("xse", 1)
  BY <1>0 DEF XsePlugins, Sure, Step
<1>2. StepOK("xse", 2)
  BY <1>0 DEF XsePlugins, Step
<1>3. StepOK("xse", 3)
  BY <1>0, SilentLeadsRow, RowFields DEF XsePlugins
<1>4. StepOK("xse", 4)
  BY <1>0 DEF XsePlugins, Step
<1>5. StepOK("xse", 5)
  BY <1>0 DEF XsePlugins, Sure, Step
<1> HIDE DEF StepOK
<1>6. QED
  BY <1>1, <1>2, <1>3, <1>4, <1>5

LEMMA PluginsSteps == \A i \in 1 .. 4 : StepOK("plugins", i)
<1>0. Routines["plugins"] = Plugins /\ Len(Plugins) = 4
  BY DEF Routines, Plugins
<1> USE DEF StepOK, Where, Balanced, Careful, Answers, NextOf, End, Leaves, Resources, Handles,
            HeldAt, Needed, From, FromItem, Unguarded
<1>1. StepOK("plugins", 1)
  BY <1>0 DEF Plugins, Step
<1>2. StepOK("plugins", 2)
  BY <1>0 DEF Plugins, Sure, Step
<1>3. StepOK("plugins", 3)
  BY <1>0 DEF Plugins, Sure, Step
<1>4. StepOK("plugins", 4)
  BY <1>0 DEF Plugins, Sure, Step
<1> HIDE DEF StepOK
<1>5. QED
  BY <1>1, <1>2, <1>3, <1>4

LEMMA ModulesSteps == \A i \in 1 .. 2 : StepOK("modules", i)
<1>0. Routines["modules"] = ModuleList /\ Len(ModuleList) = 2
  BY DEF Routines, ModuleList
<1> USE DEF StepOK, Where, Balanced, Careful, Answers, NextOf, End, Leaves, Resources, Handles,
            HeldAt, Needed, From, FromItem, Unguarded
<1>1. StepOK("modules", 1)
  BY <1>0 DEF ModuleList, Sure, Step
<1>2. StepOK("modules", 2)
  BY <1>0 DEF ModuleList, Sure, Step
<1> HIDE DEF StepOK
<1>3. QED
  BY <1>1, <1>2

LEMMA GameSteps == \A i \in 1 .. 1 : StepOK("game", i)
<1>0. Routines["game"] = GameStateLines /\ Len(GameStateLines) = 1
  BY DEF Routines, GameStateLines
<1> USE DEF StepOK, Where, Balanced, Careful, Answers, NextOf, End, Leaves, Resources, Handles,
            HeldAt, Needed, From, FromItem, Unguarded
<1>1. StepOK("game", 1)
  BY <1>0 DEF GameStateLines, Sure, Step
<1> HIDE DEF StepOK
<1>2. QED
  BY <1>1

LEMMA MastersSteps == \A i \in 1 .. 2 : StepOK("masters", i)
<1>0. Routines["masters"] = MissingMasterLines /\ Len(MissingMasterLines) = 2
  BY DEF Routines, MissingMasterLines
<1> USE DEF StepOK, Where, Balanced, Careful, Answers, NextOf, End, Leaves, Resources, Handles,
            HeldAt, Needed, From, FromItem, Unguarded
<1>1. StepOK("masters", 1)
  BY <1>0 DEF MissingMasterLines, Step
<1>2. StepOK("masters", 2)
  BY <1>0 DEF MissingMasterLines, Sure, Step
<1> HIDE DEF StepOK
<1>3. QED
  BY <1>1, <1>2

LEMMA DemandsSteps == \A i \in 1 .. 2 : StepOK("demands", i)
<1>0. Routines["demands"] = ModelDemands /\ Len(ModelDemands) = 2
  BY DEF Routines, ModelDemands
<1> USE DEF StepOK, Where, Balanced, Careful, Answers, NextOf, End, Leaves, Resources, Handles,
            HeldAt, Needed, From, FromItem, Unguarded
<1>1. StepOK("demands", 1)
  BY <1>0 DEF ModelDemands, Silently, Step
<1>2. StepOK("demands", 2)
  BY <1>0 DEF ModelDemands, Silently, Sure, Step
<1> HIDE DEF StepOK
<1>3. QED
  BY <1>1, <1>2

LEMMA PathsSteps == \A i \in 1 .. 3 : StepOK("paths", i)
<1>0. Routines["paths"] = ModelPaths /\ Len(ModelPaths) = 3
  BY DEF Routines, ModelPaths
<1> USE DEF StepOK, Where, Balanced, Careful, Answers, NextOf, End, Leaves, Resources, Handles,
            HeldAt, Needed, From, FromItem, Unguarded
<1>1. StepOK("paths", 1)
  BY <1>0 DEF ModelPaths, Silently, Step
<1>2. StepOK("paths", 2)
  BY <1>0 DEF ModelPaths, Silently, Step
<1>3. StepOK("paths", 3)
  BY <1>0 DEF ModelPaths, Silently, Sure, Step
<1> HIDE DEF StepOK
<1>4. QED
  BY <1>1, <1>2, <1>3

\* The steps of the upload are those of its parts.
LEMMA UploadParts ==
  /\ Len(Upload) = 22
  /\ \A i \in 1 .. 15 : Upload[i] = UploadLog[i]
  /\ \A i \in 1 .. 5 : Upload[15 + i] = Clipboard(21)[i]
  /\ \A i \in 1 .. 2 : Upload[20 + i] = ShowUrl[i]
<1> DEFINE S == {UploadLog[i] : i \in 1 .. 15} \cup {Clipboard(21)[i] : i \in 1 .. 5}
                \cup {ShowUrl[i] : i \in 1 .. 2}
<1>1. /\ UploadLog \in Seq(S) /\ Clipboard(21) \in Seq(S) /\ ShowUrl \in Seq(S)
      /\ Len(UploadLog) = 15 /\ Len(Clipboard(21)) = 5 /\ Len(ShowUrl) = 2
  BY DEF UploadLog, Clipboard, ShowUrl
<1> HIDE DEF S
<1>2. PICK a \in Seq(S), b \in Seq(S), c \in Seq(S) :
        a = UploadLog /\ b = Clipboard(21) /\ c = ShowUrl
  BY <1>1
<1>3. PICK all : all = (a \o b) \o c
  OBVIOUS
<1>4. Len(a) = 15 /\ Len(b) = 5 /\ Len(c) = 2 /\ all = Upload
  BY <1>1, <1>2, <1>3 DEF Upload
<1>5. /\ Len(all) = 22
      /\ \A i \in 1 .. 15 : all[i] = a[i]
      /\ \A i \in 1 .. 5 : all[15 + i] = b[i]
      /\ \A i \in 1 .. 2 : all[20 + i] = c[i]
  <2> HIDE DEF S
  <2>1. /\ Len((a \o b) \o c) = Len(a) + Len(b) + Len(c)
        /\ \A i \in 1 .. Len(a) : ((a \o b) \o c)[i] = a[i]
        /\ \A i \in 1 .. Len(b) : ((a \o b) \o c)[Len(a) + i] = b[i]
        /\ \A i \in 1 .. Len(c) : ((a \o b) \o c)[Len(a) + Len(b) + i] = c[i]
    BY JoinedParts
  <2>2. /\ Len(all) = Len(a) + Len(b) + Len(c)
        /\ \A i \in 1 .. Len(a) : all[i] = a[i]
        /\ \A i \in 1 .. Len(b) : all[Len(a) + i] = b[i]
        /\ \A i \in 1 .. Len(c) : all[Len(a) + Len(b) + i] = c[i]
    BY <2>1, <1>3
  <2>3. QED
    BY <2>2, <1>4
<1>6. QED
  BY <1>2, <1>4, <1>5

LEMMA UploadSteps == \A i \in 1 .. 22 : StepOK("upload", i)
<1>0. Routines["upload"] = Upload /\ Len(Upload) = 22
  BY UploadParts DEF Routines
<1> USE DEF StepOK, Where, Balanced, Careful, Answers, NextOf, End, Leaves, Resources, Handles,
            HeldAt, Needed, From, FromItem, Unguarded
<1>1. StepOK("upload", 1)
  <2>1. Upload[1] = UploadLog[1]
    BY UploadParts
  <2>2. QED
    BY <1>0, <2>1 DEF UploadLog, Step
<1>2. StepOK("upload", 2)
  <2>1. Upload[2] = UploadLog[2]
    BY UploadParts
  <2>2. QED
    BY <1>0, <2>1 DEF UploadLog, Step
<1>3. StepOK("upload", 3)
  <2>1. Upload[3] = UploadLog[3]
    BY UploadParts
  <2>2. QED
    BY <1>0, <2>1 DEF UploadLog, Sure, Step
<1>4. StepOK("upload", 4)
  <2>1. Upload[4] = UploadLog[4]
    BY UploadParts
  <2>2. QED
    BY <1>0, <2>1 DEF UploadLog, Gets, Step
<1>5. StepOK("upload", 5)
  <2>1. Upload[5] = UploadLog[5]
    BY UploadParts
  <2>2. QED
    BY <1>0, <2>1, GetsUndoesRow, RowFields DEF UploadLog
<1>6. StepOK("upload", 6)
  <2>1. Upload[6] = UploadLog[6]
    BY UploadParts
  <2>2. QED
    BY <1>0, <2>1, GetsUndoesRow, RowFields DEF UploadLog
<1>7. StepOK("upload", 7)
  <2>1. Upload[7] = UploadLog[7]
    BY UploadParts
  <2>2. QED
    BY <1>0, <2>1 DEF UploadLog, Step
<1>8. StepOK("upload", 8)
  <2>1. Upload[8] = UploadLog[8]
    BY UploadParts
  <2>2. QED
    BY <1>0, <2>1 DEF UploadLog, Undoes, Step
<1>9. StepOK("upload", 9)
  <2>1. Upload[9] = UploadLog[9]
    BY UploadParts
  <2>2. QED
    BY <1>0, <2>1 DEF UploadLog, Undoes, Step
<1>10. StepOK("upload", 10)
  <2>1. Upload[10] = UploadLog[10]
    BY UploadParts
  <2>2. QED
    BY <1>0, <2>1 DEF UploadLog, Step
<1>11. StepOK("upload", 11)
  <2>1. Upload[11] = UploadLog[11]
    BY UploadParts
  <2>2. QED
    BY <1>0, <2>1 DEF UploadLog, LeadsTo, Step
<1>12. StepOK("upload", 12)
  <2>1. Upload[12] = UploadLog[12]
    BY UploadParts
  <2>2. QED
    BY <1>0, <2>1 DEF UploadLog, Frees, Sure, Step
<1>13. StepOK("upload", 13)
  <2>1. Upload[13] = UploadLog[13]
    BY UploadParts
  <2>2. QED
    BY <1>0, <2>1 DEF UploadLog, Step
<1>14. StepOK("upload", 14)
  <2>1. Upload[14] = UploadLog[14]
    BY UploadParts
  <2>2. QED
    BY <1>0, <2>1 DEF UploadLog, Step
<1>15. StepOK("upload", 15)
  <2>1. Upload[15] = UploadLog[15]
    BY UploadParts
  <2>2. QED
    BY <1>0, <2>1 DEF UploadLog, Sure, Step
<1>16. StepOK("upload", 16)
  <2>1. Upload[16] = Clipboard(21)[1]
    BY UploadParts
  <2>2. QED
    BY <1>0, <2>1, GetsRescuesRow, RowFields DEF Clipboard
<1>17. StepOK("upload", 17)
  <2>1. Upload[17] = Clipboard(21)[2]
    BY UploadParts
  <2>2. QED
    BY <1>0, <2>1, GetsUndoesRescuesRow, RowFields DEF Clipboard
<1>18. StepOK("upload", 18)
  <2>1. Upload[18] = Clipboard(21)[3]
    BY UploadParts
  <2>2. QED
    BY <1>0, <2>1, UndoesRescuesRow, RowFields DEF Clipboard
<1>19. StepOK("upload", 19)
  <2>1. Upload[19] = Clipboard(21)[4]
    BY UploadParts
  <2>2. QED
    BY <1>0, <2>1, FreesRescuesStepRow, RowFields DEF Clipboard
<1>20. StepOK("upload", 20)
  <2>1. Upload[20] = Clipboard(21)[5]
    BY UploadParts
  <2>2. QED
    BY <1>0, <2>1, FreesRescuesRow, RowFields DEF Clipboard
<1>21. StepOK("upload", 21)
  <2>1. Upload[21] = ShowUrl[1]
    BY UploadParts
  <2>2. QED
    BY <1>0, <2>1 DEF ShowUrl, Step
<1>22. StepOK("upload", 22)
  <2>1. Upload[22] = ShowUrl[2]
    BY UploadParts
  <2>2. QED
    BY <1>0, <2>1 DEF ShowUrl, Sure, Step
<1> HIDE DEF StepOK
<1>23. QED
  BY <1>1, <1>2, <1>3, <1>4, <1>5, <1>6, <1>7, <1>8, <1>9, <1>10, <1>11, <1>12, <1>13,
      <1>14, <1>15, <1>16, <1>17, <1>18, <1>19, <1>20, <1>21, <1>22

-----------------------------------------------------------------------------
(* Every step of every routine is like that                                 *)

LEMMA RoutineLengths ==
  /\ DOMAIN Routines = {"system", "process", "thread", "vr", "xse", "plugins", "modules", "game",
                        "masters", "demands", "paths", "upload"}
  /\ Len(Routines["system"]) = 10 /\ Len(Routines["process"]) = 15
  /\ Len(Routines["thread"]) = 5 /\ Len(Routines["vr"]) = 13 /\ Len(Routines["xse"]) = 5
  /\ Len(Routines["plugins"]) = 4 /\ Len(Routines["modules"]) = 2 /\ Len(Routines["game"]) = 1
  /\ Len(Routines["masters"]) = 2 /\ Len(Routines["demands"]) = 2
  /\ Len(Routines["paths"]) = 3 /\ Len(Routines["upload"]) = 22
BY ProcessParts, UploadParts
DEF Routines, SystemInfo, ThreadContext, VrInfo, XsePlugins, Plugins, ModuleList,
    GameStateLines, MissingMasterLines, ModelDemands, ModelPaths

LEMMA AllSteps ==
  \A r \in DOMAIN Routines : \A i \in 1 .. Len(Routines[r]) : StepOK(r, i)
BY RoutineLengths, SystemSteps, ProcessSteps, ThreadSteps, VrSteps, XseSteps, PluginsSteps,
   ModulesSteps, GameSteps, MastersSteps, DemandsSteps, PathsSteps, UploadSteps

-----------------------------------------------------------------------------
(* The invariant of the sections                                            *)

\* Before a step all is held that belongs there, and no more than that, what an exception
\* passed by and what the clipboard refused.
HeldOK ==
  /\ HeldAt(routine, pc) \subseteq held
  /\ held \subseteq HeldAt(routine, pc) \cup passed \cup Lost
  /\ "set" \in tried => routine = "upload" /\ pc > 19
  /\ "clipboard" \in held => "clipboard" \in HeldAt(routine, pc)

\* Only an unguarded step lets its exception out, and that ends the routine.
EscapedOK == escaped # {} => pc = End /\ escaped \subseteq Unguarded(routine)

\* The steps that must not be lost are behind the routine only when they were tried.
KeptOK ==
  /\ FromItem(routine) \in told => pc > From(routine)
  /\ /\ From(routine) = 0 \/ FromItem(routine) \in told
     /\ escaped = {} /\ (routine = "xse" => noted = {})
     => \A k \in Needed(routine) : k < pc => Routines[routine][k].item \in tried

\* The upload ends with the address or with a line that says why not.
AnswerOK == routine = "upload" /\ pc = End /\ noted = {} => "return" \in told

SectionInv == SectionsTypeOK /\ HeldOK /\ EscapedOK /\ KeptOK /\ AnswerOK

\* Nothing belongs to a routine that is at its end; the steps that must not be lost come
\* after the one from which on that is so.
LEMMA TableFacts ==
  \A r : /\ HeldAt(r, End) = {} /\ HeldAt(r, 1) = {}
         /\ From(r) \in Nat /\ From(r) < End /\ Needed(r) \subseteq Nat
         /\ \A k \in Needed(r) : From(r) < k
BY DEF HeldAt, From, Needed, End

LEMMA InvStart == SectionsInit => SectionInv
<1>1. SUFFICES ASSUME SectionsInit PROVE SectionInv
  OBVIOUS
<1>2. 1 \in 1 .. Len(Routines[routine])
  <2>1. routine \in DOMAIN Routines
    BY <1>1 DEF SectionsInit
  <2>2. PICK n \in 1 .. 22 : n = Len(Routines[routine])
    BY <2>1, RoutineLengths
  <2>3. 1 \in 1 .. n
    OBVIOUS
  <2>4. QED
    BY <2>2, <2>3
<1>3. SectionsTypeOK
  BY <1>1, <1>2 DEF SectionsInit, SectionsTypeOK, Resources
<1>4. HeldOK
  BY <1>1, TableFacts DEF SectionsInit, HeldOK
<1>5. EscapedOK
  BY <1>1 DEF SectionsInit, EscapedOK
<1>6. FromItem(routine) \notin told /\ \A k \in Needed(routine) : ~(k < pc)
  BY <1>1, TableFacts DEF SectionsInit
<1>7. KeptOK
  BY <1>6 DEF KeptOK
<1>8. AnswerOK
  BY <1>1 DEF SectionsInit, AnswerOK, End
<1>9. QED
  BY <1>3, <1>4, <1>5, <1>7, <1>8 DEF SectionInv

\* What is known of the step that is taken.
LEMMA StepFacts ==
  ASSUME SectionInv, Running
  PROVE  /\ routine \in DOMAIN Routines /\ pc \in 1 .. Len(Routines[routine])
         /\ Len(Routines[routine]) \in Nat
         /\ Where(routine, pc) /\ Balanced(routine, pc)
         /\ Careful(routine, pc) /\ Answers(routine, pc)
         /\ Current = Routines[routine][pc] /\ After(Current) = NextOf(routine, pc)
         /\ escaped = {} /\ HeldAt(routine, pc) \subseteq held
<1>1. /\ routine \in DOMAIN Routines /\ pc \in 1 .. Len(Routines[routine])
      /\ EscapedOK /\ HeldOK /\ pc # End
  BY DEF SectionInv, SectionsTypeOK, Running
<1>2. StepOK(routine, pc)
  BY <1>1, AllSteps
<1>3. Len(Routines[routine]) \in Nat
  BY <1>1, RoutineLengths
<1>4. Current = Routines[routine][pc] /\ After(Current) = NextOf(routine, pc)
  BY DEF Current, After, NextOf
<1>5. QED
  BY <1>1, <1>2, <1>3, <1>4 DEF StepOK, EscapedOK, HeldOK

LEMMA InvWorks == ASSUME SectionInv, Works PROVE SectionInv'
<1> DEFINE s == Current
<1>1. Running
  BY DEF Works
<1>2. /\ routine \in DOMAIN Routines /\ pc \in 1 .. Len(Routines[routine])
      /\ Where(routine, pc) /\ Balanced(routine, pc) /\ Careful(routine, pc) /\ Answers(routine, pc)
      /\ s = Routines[routine][pc] /\ pc' = NextOf(routine, pc)
      /\ escaped = {} /\ HeldAt(routine, pc) \subseteq held
  BY <1>1, StepFacts DEF Works
<1>3. /\ routine' = routine /\ tried' = tried \cup {s.item} /\ told' = told \cup {s.item}
      /\ held' = (held \cup s.gets) \ s.frees /\ noted' = noted /\ passed' = passed /\ escaped' = {}
  BY <1>2 DEF Works
<1> HIDE DEF s
<1>4. SectionsTypeOK'
  <2>1. pc' = End \/ pc' \in 1 .. Len(Routines[routine])
    BY <1>2 DEF Where
  <2>2. held' \subseteq Resources
    BY <1>2, <1>3 DEF Balanced, SectionInv, SectionsTypeOK
  <2>3. QED
    BY <1>2, <1>3, <2>1, <2>2 DEF SectionInv, SectionsTypeOK
<1>5. HeldOK'
  <2>1. HeldAt(routine, pc') = (HeldAt(routine, pc) \cup s.gets) \ s.frees
    BY <1>2 DEF Balanced
  <2>2. Lost \ s.frees \subseteq Lost'
    BY <1>2, <1>3 DEF Lost, Balanced
  <2>3. "set" \in tried' => routine' = "upload" /\ pc' > 19
    BY <1>2, <1>3 DEF SectionInv, HeldOK, Balanced
  <2>4. QED
    BY <1>2, <1>3, <2>1, <2>2, <2>3 DEF SectionInv, HeldOK
<1>6. EscapedOK'
  BY <1>3 DEF EscapedOK
<1>7. KeptOK'
  <2>1. /\ KeptOK /\ From(routine) \in Nat /\ Needed(routine) \subseteq Nat
        /\ pc \in Nat /\ \A k \in Needed(routine) : From(routine) < k
    BY <1>2, TableFacts DEF SectionInv
  <2>2. FromItem(routine) \in told' => From(routine) <= pc
    BY <1>2, <1>3, <2>1 DEF KeptOK, Careful
  <2>3. pc' \in Nat \ {0}
    BY <1>2, StepFacts, <1>1 DEF Where, End
  <2>4. FromItem(routine) \in told' => pc' > From(routine)
    BY <1>2, <2>1, <2>2, <2>3 DEF Careful
  <2>5. ASSUME From(routine) = 0 \/ FromItem(routine) \in told', routine = "xse" => noted = {},
               NEW k \in Needed(routine), k < pc'
        PROVE  Routines[routine][k].item \in tried'
    <3>1. From(routine) <= pc
      BY <2>1, <2>2, <2>5
    <3>2. k <= pc
      BY <1>2, <2>1, <2>3, <2>5, <3>1 DEF Careful
    <3>3. CASE k = pc
      BY <1>2, <1>3, <3>3
    <3>4. CASE k < pc
      <4>1. From(routine) = 0 \/ FromItem(routine) \in told
        BY <1>2, <1>3, <2>1, <2>5, <3>4 DEF Careful
      <4>2. QED
        BY <1>2, <1>3, <2>1, <2>5, <3>4, <4>1 DEF KeptOK
    <3>5. QED
      BY <2>1, <3>2, <3>3, <3>4
  <2>6. QED
    BY <1>3, <2>4, <2>5 DEF KeptOK
<1>8. AnswerOK'
  BY <1>2, <1>3 DEF AnswerOK, Answers
<1>9. QED
  BY <1>4, <1>5, <1>6, <1>7, <1>8 DEF SectionInv

LEMMA InvRefused == ASSUME SectionInv, Refused PROVE SectionInv'
<1> DEFINE s == Current
<1>1. Running
  BY DEF Refused
<1>2. /\ routine \in DOMAIN Routines /\ pc \in 1 .. Len(Routines[routine])
      /\ Where(routine, pc) /\ Balanced(routine, pc) /\ Careful(routine, pc) /\ Answers(routine, pc)
      /\ s = Routines[routine][pc] /\ s.refused # "never" /\ pc' = s.go
      /\ escaped = {} /\ HeldAt(routine, pc) \subseteq held
  BY <1>1, StepFacts DEF Refused
<1>3. /\ routine' = routine /\ tried' = tried \cup {s.item} /\ told' = told
      /\ noted' = IF s.refused = "told" THEN noted \cup {s.item} ELSE noted
      /\ held' = held \ s.undo /\ passed' = passed /\ escaped' = {}
  BY <1>2 DEF Refused
<1> HIDE DEF s
<1>4. SectionsTypeOK'
  <2>1. pc' = End \/ pc' \in 1 .. Len(Routines[routine])
    BY <1>2 DEF Where
  <2>2. QED
    BY <1>2, <1>3, <2>1 DEF SectionInv, SectionsTypeOK
<1>5. HeldOK'
  <2>1. /\ HeldAt(routine, pc') \subseteq HeldAt(routine, pc) \ s.undo
        /\ HeldAt(routine, pc) \ s.undo
             \subseteq HeldAt(routine, pc') \cup (IF s.item = "set" THEN {"copy"} ELSE {})
    BY <1>2 DEF Balanced
  <2>2. "set" \in tried' => routine' = "upload" /\ pc' > 19
    BY <1>2, <1>3 DEF SectionInv, HeldOK, Balanced
  <2>3. s.item = "set" => "set" \notin told
    <3>1. s.item = "set" => pc = 19
      BY <1>2 DEF Balanced
    <3>2. told \subseteq tried /\ ("set" \in tried => pc > 19)
      BY DEF SectionInv, SectionsTypeOK, HeldOK
    <3>3. QED
      BY <3>1, <3>2
  <2>4. Lost \subseteq Lost' /\ (s.item = "set" => "copy" \in Lost')
    BY <1>3, <2>3 DEF Lost
  <2>5. QED
    BY <1>2, <1>3, <2>1, <2>2, <2>4 DEF SectionInv, HeldOK
<1>6. EscapedOK'
  BY <1>3 DEF EscapedOK
<1>7. KeptOK'
  <2>1. /\ KeptOK /\ From(routine) \in Nat /\ Needed(routine) \subseteq Nat
        /\ pc \in Nat /\ \A k \in Needed(routine) : From(routine) < k
    BY <1>2, TableFacts DEF SectionInv
  <2>2. pc' \in Nat \ {0}
    BY <1>2, StepFacts, <1>1 DEF Where, End
  <2>3. FromItem(routine) \in told' => pc' > From(routine)
    BY <1>2, <1>3, <2>1, <2>2 DEF Careful, KeptOK
  <2>4. ASSUME From(routine) = 0 \/ FromItem(routine) \in told', routine = "xse" => noted' = {},
               NEW k \in Needed(routine), k < pc'
        PROVE  Routines[routine][k].item \in tried'
    <3>1. From(routine) < pc
      BY <1>2, <1>3, <2>1, <2>4 DEF KeptOK
    <3>2. k <= pc
      <4>1. ~(routine = "xse" /\ s.refused = "told")
        BY <1>3, <2>4
      <4>2. pc < k => s.go <= k
        BY <1>2, <2>1, <3>1, <4>1 DEF Careful
      <4>3. QED
        BY <1>2, <2>1, <2>2, <2>4, <4>2
    <3>3. CASE k = pc
      BY <1>2, <1>3, <3>3
    <3>4. CASE k < pc
      BY <1>2, <1>3, <2>1, <2>4, <3>4 DEF KeptOK
    <3>5. QED
      BY <2>1, <3>2, <3>3, <3>4
  <2>5. QED
    BY <1>3, <2>3, <2>4 DEF KeptOK
<1>8. AnswerOK'
  BY <1>2, <1>3 DEF AnswerOK, Answers
<1>9. QED
  BY <1>4, <1>5, <1>6, <1>7, <1>8 DEF SectionInv

LEMMA InvThrows == ASSUME SectionInv, Throws PROVE SectionInv'
<1> DEFINE s == Current
<1>1. Running
  BY DEF Throws
<1>2. /\ routine \in DOMAIN Routines /\ pc \in 1 .. Len(Routines[routine])
      /\ Where(routine, pc) /\ Balanced(routine, pc) /\ Careful(routine, pc) /\ Answers(routine, pc)
      /\ s = Routines[routine][pc]
      /\ escaped = {} /\ HeldAt(routine, pc) \subseteq held
  BY <1>1, StepFacts
<1>3. /\ routine' = routine /\ tried' = tried \cup {s.item} /\ told' = told
      /\ pc' = (IF s.catch = Leaves THEN End ELSE s.catch)
      /\ escaped' = (IF s.catch = Leaves THEN {s.item} ELSE {})
      /\ noted' = (IF s.catch # Leaves /\ s.caught = "told" THEN noted \cup {s.item} ELSE noted)
      /\ held' = held \ s.rescue /\ passed' = passed \cup (held \ s.rescue)
  BY DEF Throws
<1> HIDE DEF s
<1>4. SectionsTypeOK'
  <2>1. pc' = End \/ pc' \in 1 .. Len(Routines[routine])
    BY <1>2, <1>3 DEF Where
  <2>2. QED
    BY <1>2, <1>3, <2>1 DEF SectionInv, SectionsTypeOK
<1>5. HeldOK'
  <2>1. HeldAt(routine, pc') \subseteq HeldAt(routine, pc) \ s.rescue
    <3>1. CASE s.catch = Leaves
      BY <1>3, <3>1, TableFacts
    <3>2. CASE s.catch # Leaves
      BY <1>2, <1>3, <3>2 DEF Balanced
    <3>3. QED
      BY <3>1, <3>2
  <2>2. "set" \in tried' => routine' = "upload" /\ pc' > 19
    BY <1>2, <1>3 DEF SectionInv, HeldOK, Balanced, End
  <2>3. "clipboard" \in held' => "clipboard" \in HeldAt(routine', pc')
    BY <1>2, <1>3 DEF SectionInv, HeldOK, Balanced
  <2>4. QED
    BY <1>2, <1>3, <2>1, <2>2, <2>3 DEF SectionInv, HeldOK
<1>6. EscapedOK'
  BY <1>2, <1>3 DEF EscapedOK, Where
<1>7. KeptOK'
  <2>1. /\ KeptOK /\ From(routine) \in Nat /\ Needed(routine) \subseteq Nat
        /\ pc \in Nat /\ \A k \in Needed(routine) : From(routine) < k
        /\ From(routine) < End
    BY <1>2, TableFacts DEF SectionInv
  <2>2. pc' \in Nat \ {0}
    BY <1>2, <1>3, StepFacts, <1>1 DEF Where, End
  <2>3. FromItem(routine) \in told' => pc' > From(routine)
    BY <1>2, <1>3, <2>1, <2>2 DEF Careful, KeptOK
  <2>4. ASSUME From(routine) = 0 \/ FromItem(routine) \in told', escaped' = {},
               routine = "xse" => noted' = {}, NEW k \in Needed(routine), k < pc'
        PROVE  Routines[routine][k].item \in tried'
    <3>1. From(routine) < pc
      BY <1>2, <1>3, <2>1, <2>4 DEF KeptOK
    <3>0. s.catch # Leaves
      BY <1>3, <2>4
    <3>2. k <= pc
      <4>1. ~(routine = "xse" /\ s.caught = "told")
        BY <1>3, <2>4, <3>0
      <4>2. pc < k => s.catch <= k
        BY <1>2, <2>1, <3>1, <3>0, <4>1 DEF Careful
      <4>3. QED
        BY <1>2, <1>3, <2>1, <2>2, <2>4, <3>0, <4>2
    <3>3. CASE k = pc
      BY <1>2, <1>3, <3>3
    <3>4. CASE k < pc
      BY <1>2, <1>3, <2>1, <2>4, <3>1, <3>4, <3>0 DEF KeptOK
    <3>5. QED
      BY <2>1, <3>2, <3>3, <3>4
  <2>5. QED
    BY <1>3, <2>3, <2>4 DEF KeptOK
<1>8. AnswerOK'
  <2>1. routine = "upload" => s.caught = "told" /\ s.catch # Leaves
    BY <1>2 DEF Answers, Where, Unguarded
  <2>2. QED
    BY <1>3, <2>1 DEF AnswerOK
<1>9. QED
  BY <1>4, <1>5, <1>6, <1>7, <1>8 DEF SectionInv

LEMMA SectionInvHolds == SectionsSpec => []SectionInv
<1>1. SectionInv /\ UNCHANGED sectionVars => SectionInv'
  BY DEF SectionInv, SectionsTypeOK, HeldOK, Lost, EscapedOK, KeptOK, AnswerOK, sectionVars
<1>2. SectionInv /\ [SectionsNext]_sectionVars => SectionInv'
  BY <1>1, InvWorks, InvRefused, InvThrows DEF SectionsNext
<1>3. QED
  BY <1>2, InvStart, PTL DEF SectionsSpec

\* Every routine stays among its steps and tells and holds only what it may.
THEOREM SectionsTypeCorrect == SectionsSpec => []SectionsTypeOK
<1>1. SectionInv => SectionsTypeOK
  BY DEF SectionInv
<1>2. QED
  BY <1>1, SectionInvHolds, PTL

\* The items of the steps that must not be lost.
LEMMA KeptItems ==
  /\ SystemInfo[3].item = "cores" /\ SystemInfo[5].item = "memory"
  /\ SystemInfo[6].item = "process_memory" /\ SystemInfo[7].item = "factory"
  /\ ProcessInfo[2].item = "uptime" /\ ProcessInfo[3].item = "directory"
  /\ ProcessInfo[4].item = "command_line" /\ ProcessInfo[14].item = "token"
  /\ VrInfo[5].item = "model" /\ VrInfo[8].item = "driver" /\ VrInfo[11].item = "frequency"
  /\ VrInfo[12].item = "ipd" /\ VrInfo[13].item = "render_target"
  /\ XsePlugins[5].item = "plugin" /\ Upload[21].item = "browser"
<1>1. /\ SystemInfo[3].item = "cores" /\ SystemInfo[5].item = "memory"
      /\ SystemInfo[6].item = "process_memory" /\ SystemInfo[7].item = "factory"
  BY DEF SystemInfo, Sure, Step, Gets
<1>2. /\ ProcessFacts[2].item = "uptime" /\ ProcessFacts[3].item = "directory"
      /\ ProcessFacts[4].item = "command_line" /\ FileFacts[4].item = "token"
  BY DEF ProcessFacts, FileFacts, Sure, Step, Gets
<1>3. /\ VrInfo[5].item = "model" /\ VrInfo[8].item = "driver" /\ VrInfo[11].item = "frequency"
      /\ VrInfo[12].item = "ipd" /\ VrInfo[13].item = "render_target"
  BY DEF VrInfo, Step
<1>4. XsePlugins[5].item = "plugin"
  BY DEF XsePlugins, Sure, Step
<1>5. ShowUrl[1].item = "browser"
  BY DEF ShowUrl, Step
<1>6. /\ \A i \in 1 .. 5 : ProcessInfo[i] = ProcessFacts[i]
      /\ \A i \in 1 .. 5 : ProcessInfo[10 + i] = FileFacts[i]
  BY ProcessParts
<1>7. Upload[21] = ShowUrl[1]
  BY UploadParts
<1>8. ProcessInfo[14] = FileFacts[4]
  BY <1>6
<1>9. QED
  BY <1>1, <1>2, <1>3, <1>4, <1>5, <1>6, <1>7, <1>8

\* What was tried when a section ends without an exception.
LEMMA KeptTried ==
  ASSUME SectionInv, ~Running, escaped = {} PROVE Independent[routine] \subseteq tried
<1>1. /\ routine \in DOMAIN Routines /\ pc = End /\ KeptOK
  BY DEF SectionInv, SectionsTypeOK, Running
<1>2. \A k \in Needed(routine) : k < pc
  BY <1>1 DEF Needed, End
<1>3. (From(routine) = 0 \/ FromItem(routine) \in told) /\ (routine = "xse" => noted = {})
      => \A k \in Needed(routine) : Routines[routine][k].item \in tried
  BY <1>1, <1>2 DEF KeptOK
<1>4. CASE routine = "process"
  <2>1. \A k \in {2, 3, 4, 14} : ProcessInfo[k].item \in tried
    BY <1>3, <1>4 DEF Routines, Needed, From
  <2>2. {"uptime", "directory", "command_line", "token"} \subseteq tried
    BY <2>1, KeptItems
  <2>3. QED
    BY <1>1, <1>4, <2>2 DEF Independent
<1>5. CASE routine = "system"
  <2>1. \A k \in {3, 5, 6, 7} : SystemInfo[k].item \in tried
    BY <1>3, <1>5 DEF Routines, Needed, From
  <2>2. {"cores", "memory", "process_memory", "factory"} \subseteq tried
    BY <2>1, KeptItems
  <2>3. QED
    BY <1>1, <1>5, <2>2 DEF Independent
<1>6. CASE routine = "vr"
  <2>1. "runtime" \in told => \A k \in {5, 8, 11, 12, 13} : VrInfo[k].item \in tried
    BY <1>3, <1>6 DEF Routines, Needed, From, FromItem
  <2>2. "runtime" \in told => {"model", "driver", "frequency", "ipd", "render_target"} \subseteq tried
    BY <2>1, KeptItems
  <2>3. QED
    BY <1>1, <1>6, <2>2 DEF Independent
<1>7. CASE routine = "xse"
  <2>1. "exists" \in told /\ noted = {} => XsePlugins[5].item \in tried
    BY <1>3, <1>7 DEF Routines, Needed, From, FromItem
  <2>2. QED
    BY <1>1, <1>7, <2>1, KeptItems DEF Independent
<1>8. CASE routine = "upload"
  <2>1. "uploaded" \in told => Upload[21].item \in tried
    BY <1>3, <1>8 DEF Routines, Needed, From, FromItem
  <2>2. QED
    BY <1>1, <1>8, <2>1, KeptItems DEF Independent
<1>9. CASE routine \notin {"process", "system", "vr", "xse", "upload"}
  BY <1>1, <1>9 DEF Independent
<1>10. QED
  BY <1>4, <1>5, <1>6, <1>7, <1>8, <1>9

\* Whatever fails in a section or in the upload, what is not released at its end is what an
\* exception passed by or the copy that the clipboard refused, and the lines that do not
\* depend on the failure are still tried (CommonHeader.cpp, CrashHandler.cpp).
THEOREM SectionsAreContained == SectionsSpec => []SectionsContained
<1>1. ASSUME SectionInv PROVE ResourcesRight
  <2>1. ASSUME Running PROVE Current.undo \subseteq held /\ Current.frees \subseteq held \cup Current.gets
    BY <1>1, <2>1, StepFacts DEF Balanced
  <2>2. ~Running => HeldAt(routine, pc) = {}
    BY TableFacts DEF Running
  <2>3. QED
    BY <1>1, <2>1, <2>2 DEF ResourcesRight, SectionInv, HeldOK
<1>2. ASSUME SectionInv PROVE FailuresContained
  <2>1. ASSUME ~Running, escaped = {} PROVE Independent[routine] \subseteq tried
    BY <1>2, <2>1, KeptTried
  <2>2. escaped \subseteq Unguarded(routine)
    BY <1>2 DEF SectionInv, EscapedOK
  <2>3. /\ routine \in {"upload", "demands", "paths"} => escaped = {}
        /\ routine = "process" => escaped \subseteq {"ids"}
        /\ routine = "system" => escaped \subseteq {"os", "cpu", "gpus", "memory", "virtual_machine"}
        /\ routine = "vr" => escaped \subseteq {"library", "entry_points", "runtime", "device"}
    BY <2>2 DEF Unguarded
  <2>4. ~Running => (routine = "upload" /\ "return" \notin told => noted # {})
    BY <1>2 DEF SectionInv, AnswerOK, Running
  <2>5. QED
    BY <2>1, <2>3, <2>4 DEF FailuresContained
<1>3. SectionInv => SectionsContained
  BY <1>1, <1>2 DEF SectionsContained
<1>4. QED
  BY <1>3, SectionInvHolds, PTL

-----------------------------------------------------------------------------
(* The parts of a report together                                           *)

\* What is proved of the sections, of the exception, of the relevant objects and of the
\* call stack holds where they are run as parts of one model.
THEOREM ReportRunsItsParts ==
  ReportSpec => SectionsSpec /\ ExceptionSpec /\ RelevantSpec /\ CallStackSpec
<1>1. ReportInit => SectionsInit /\ ExceptionInit /\ RelevantInit /\ CallStackInit
  BY DEF ReportInit
<1>2. [ReportNext]_<<part, sectionVars, exceptionVars, relevantVars, moduleVars, stackVars>>
        => /\ [SectionsNext]_sectionVars /\ [ExceptionNext]_exceptionVars
           /\ [RelevantNext]_relevantVars /\ [CallStackNext]_<<moduleVars, stackVars>>
  BY DEF ReportNext
<1>3. QED
  BY <1>1, <1>2, PTL DEF ReportSpec, SectionsSpec, ExceptionSpec, RelevantSpec, CallStackSpec

\* Whatever part of the report is written, every variable of it keeps to its type.
THEOREM ReportTypeCorrect == ReportSpec => []ReportTypeOK
<1>1. SectionsTypeOK /\ ExceptionTypeOK /\ RelevantTypeOK /\ CallStackTypeOK => ReportTypeOK
  BY DEF ReportTypeOK
<1>2. QED
  BY <1>1, ReportRunsItsParts, SectionsTypeCorrect, ExceptionTypeCorrect, RelevantTypeCorrect,
     CallStackTypeCorrect, PTL
=============================================================================
