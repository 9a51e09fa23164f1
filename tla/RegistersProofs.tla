----------------------------- MODULE RegistersProofs ---------------------------
(***************************************************************************)
(* The register of one class on one day, for every set of teachers,        *)
(* students and requests: its audit rows add up to the marks there are,    *)
(* and who has submitted it is among them.  At the end, the types of both  *)
(* machines of MCSheets.                                                   *)
(***************************************************************************)
EXTENDS MCSheets, MarkSheetsProofs, SumTheorems

\* Whoever wrote an ATTENDANCE_TAKEN or an ATTENDANCE_CHANGED row, or is named
\* by the line logged in its place.
OnTheRecord(t) ==
  \/ \E i \in DOMAIN taken : taken[i].by = t
  \/ \E i \in DOMAIN untaken : untaken[i] = t
  \/ \E s \in Students :
       \/ \E i \in DOMAIN corrections[s] : corrections[s][i].by = t
       \/ \E i \in DOMAIN alarms[s] : alarms[s][i] = t
Signed(row) == row.flag => OnTheRecord(row.by)

TakenRow == [by : Teachers, marked : 1 .. Cardinality(Students)]
TakenSum == SumFunction([i \in DOMAIN taken |-> taken[i].marked])

\* The ATTENDANCE_TAKEN rows count the marks, but for those not written.
TakenOK ==
  /\ taken \in Seq(TakenRow)
  /\ untaken \in Seq(Teachers) /\ Len(untaken) <= MaxAlarms
  /\ TakenSum \in Nat
  /\ TakenSum + Len(untaken) <= Cardinality(Marked)
  /\ untaken = <<>> => TakenSum = Cardinality(Marked)

\* Audit rows h and alarms a of a mark that is m after k corrections.
Corrects(h, a, m, k) ==
  /\ k = Len(h) + Len(a)
  /\ m = Null => k = 0
  /\ a = <<>> =>
       /\ \A i \in 2 .. Len(h) : Follows(h, i)
       /\ h # <<>> => h[Len(h)].new = Says(m)

\* The corrections of s lead to its mark.
CorrectionsOK(s) == Corrects(corrections[s], alarms[s], marks[s], edits[s])
RecordOK ==
  /\ marks \in [Students -> Marks \cup {Null}]
  /\ edits \in [Students -> Nat]
  /\ alarms \in [Students -> Seq(Teachers)]
  /\ \A s \in Students : Len(alarms[s]) <= MaxAlarms
  /\ corrections \in [Students -> Seq(Entry)]
  /\ TakenOK
  /\ \A s \in Students : CorrectionsOK(s)

RowOK == register \in Row \cup {Null} /\ (register # Null => Signed(register))

\* There is a register behind every sheet.
SheetsOK ==
  /\ sheets \in [Teachers -> Sheet \cup {Null}]
  /\ \A t \in Teachers : Open(t) => register # Null

\* A save carries marks for a register there is; the rows it has locked stay;
\* and no call holds a copy that was submitted by nobody on the record.
SaveOK(w) ==
  LET call == calls[w] IN
  /\ call.kind = "save" /\ call.step # "idle" =>
       /\ call.by \in Teachers /\ register # Null
       /\ \A s \in DOMAIN call.rows : s \in Students /\ call.rows[s] \in Marks
  /\ call.kind = "save" /\ call.step = "locked" =>
       \A s \in call.had : s \in Students /\ marks[s] # Null
  /\ Signed(call.copy)
CallsOK == calls \in [Workers -> Call] /\ \A w \in Workers : SaveOK(w)

\* The inductive invariant.
RegisterInv == RecordOK /\ RowOK /\ SheetsOK /\ CallsOK

\* Every request and every correction has cost one of the requests sent.
Active == {w \in Workers : calls[w].step # "idle"}
CountOK ==
  /\ sent \in 0 .. MaxCalls
  /\ IsFiniteSet(Active)
  /\ \A s \in Students : edits[s] + Cardinality(Active) <= sent

----------------------------------------------------------------------------
(* Requests counted.                                                       *)

LEMMA CountTakes ==
  ASSUME CountOK, calls \in [Workers -> Call], edits \in [Students -> Nat],
         NEW w \in Workers, NEW call, Take(w, call), call.step # "idle", UNCHANGED edits
  PROVE  CountOK'
<1>1. /\ calls' = [calls EXCEPT ![w] = call] /\ sent' = sent + 1
      /\ calls[w].step = "idle" /\ sent < MaxCalls
  BY DEF Take
<1>2. Active' = Active \cup {w} /\ w \notin Active
  BY <1>1 DEF Active
<1>3. /\ IsFiniteSet(Active') /\ Cardinality(Active') = Cardinality(Active) + 1
      /\ Cardinality(Active) \in Nat
  BY <1>2, FS_AddElement, FS_CardinalityType DEF CountOK
<1>4. sent \in Nat /\ sent' \in 0 .. MaxCalls
  BY <1>1, ClassroomAssumption DEF CountOK
<1>5. ASSUME NEW s \in Students PROVE edits'[s] + Cardinality(Active') <= sent'
  <2>1. edits[s] \in Nat /\ edits[s] + Cardinality(Active) <= sent /\ edits'[s] = edits[s]
    BY DEF CountOK
  <2> QED BY <2>1, <1>1, <1>3, <1>4
<1> QED BY <1>3, <1>4, <1>5 DEF CountOK

\* At the end of a call a row may have been corrected once.
LEMMA CountFalls ==
  ASSUME CountOK, edits \in [Students -> Nat], NEW w \in Workers, calls[w].step # "idle",
         Active' = Active \ {w}, UNCHANGED sent,
         \A s \in Students : edits'[s] \in Nat /\ edits'[s] <= edits[s] + 1
  PROVE  CountOK'
<1>1. w \in Active
  BY DEF Active
<1>2. /\ IsFiniteSet(Active') /\ Cardinality(Active') = Cardinality(Active) - 1
      /\ Cardinality(Active) \in Nat
  BY <1>1, FS_RemoveElement, FS_CardinalityType DEF CountOK
<1>3. sent \in Nat /\ sent' \in 0 .. MaxCalls
  BY ClassroomAssumption DEF CountOK
<1>4. ASSUME NEW s \in Students PROVE edits'[s] + Cardinality(Active') <= sent'
  <2>1. /\ edits[s] \in Nat /\ edits[s] + Cardinality(Active) <= sent
        /\ edits'[s] \in Nat /\ edits'[s] <= edits[s] + 1
    BY DEF CountOK
  <2> QED BY <2>1, <1>2, <1>3
<1> QED BY <1>2, <1>3, <1>4 DEF CountOK

LEMMA CountDrops ==
  ASSUME CountOK, calls \in [Workers -> Call], edits \in [Students -> Nat],
         NEW w \in Workers, Drop(w), calls[w].step # "idle", UNCHANGED sent,
         \A s \in Students : edits'[s] \in Nat /\ edits'[s] <= edits[s] + 1
  PROVE  CountOK'
<1>1. calls' = [calls EXCEPT ![w] = NoCall] /\ NoCall.step = "idle"
  BY DEF Drop, NoCall
<1>2. Active' = Active \ {w}
  BY <1>1 DEF Active
<1> QED BY <1>2, CountFalls

\* Otherwise as many calls are under way as before.
LEMMA CountStays ==
  ASSUME CountOK, edits \in [Students -> Nat], UNCHANGED edits,
         \A v \in Workers : calls'[v].step = "idle" <=> calls[v].step = "idle",
         sent' = sent \/ (sent < MaxCalls /\ sent' = sent + 1)
  PROVE  CountOK'
<1>1. Active' = Active
  BY DEF Active
<1>2. sent \in Nat /\ sent' \in 0 .. MaxCalls /\ sent <= sent'
  BY ClassroomAssumption DEF CountOK
<1>3. Cardinality(Active) \in Nat
  BY FS_CardinalityType DEF CountOK
<1>4. ASSUME NEW s \in Students PROVE edits'[s] + Cardinality(Active') <= sent'
  <2>1. edits[s] \in Nat /\ edits[s] + Cardinality(Active) <= sent
    BY DEF CountOK
  <2> QED BY <2>1, <1>1, <1>2, <1>3
<1> QED BY <1>1, <1>2, <1>4 DEF CountOK

----------------------------------------------------------------------------
(* The ATTENDANCE_TAKEN rows added up.                                     *)

LEMMA SumOfEmpty ==
  ASSUME taken = <<>>
  PROVE  TakenSum = 0
<1>1. PICK f : f = [i \in DOMAIN taken |-> taken[i].marked]
  OBVIOUS
<1>2. DOMAIN f = {}
  BY <1>1
<1>3. SumFunction(f) = SumFunctionOnSet(f, {})
  BY <1>2, Zenon DEF SumFunction
<1> QED BY <1>1, <1>3, SumOfNone DEF TakenSum

LEMMA SumOfAppend ==
  ASSUME taken \in Seq(TakenRow), NEW row \in TakenRow, taken' = Append(taken, row),
         TakenSum \in Nat
  PROVE  TakenSum' = TakenSum + row.marked
<1>1. PICK f : f = [i \in DOMAIN taken |-> taken[i].marked]
  OBVIOUS
<1>2. PICK g : g = [i \in DOMAIN taken' |-> taken'[i].marked]
  OBVIOUS
<1>3. PICK n \in Nat : n = Len(taken)
  OBVIOUS
<1>4. /\ DOMAIN taken = 1 .. n /\ DOMAIN taken' = (1 .. n) \cup {n + 1} /\ n + 1 \notin 1 .. n
      /\ taken'[n + 1] = row
      /\ \A i \in 1 .. n : taken'[i] = taken[i] /\ taken[i] \in TakenRow
  BY <1>3
<1>5. /\ DOMAIN f = 1 .. n /\ DOMAIN g = (1 .. n) \cup {n + 1} /\ g[n + 1] = row.marked
      /\ \A i \in 1 .. n : f[i] = g[i]
      /\ \A i \in (1 .. n) \cup {n + 1} : g[i] \in Nat
  <2>1. row.marked \in Nat /\ \A i \in 1 .. n : taken[i].marked \in Nat
    <3>1. \A e \in TakenRow : e.marked \in Nat
      BY DEF TakenRow
    <3> QED BY <3>1, <1>4
  <2> QED BY <1>1, <1>2, <1>4, <2>1
<1>6. IsFiniteSet(1 .. n)
  BY FS_Interval
<1>7. SumFunction(f) = SumFunctionOnSet(f, 1 .. n)
  BY <1>5, Zenon DEF SumFunction
<1>8. SumFunction(g) = SumFunctionOnSet(g, (1 .. n) \cup {n + 1})
  BY <1>5, Zenon DEF SumFunction
<1>9. SumFunctionOnSet(f, 1 .. n) = SumFunctionOnSet(g, 1 .. n)
  BY <1>5, <1>6, SumOfTheSame
<1>10. SumFunctionOnSet(g, (1 .. n) \cup {n + 1}) = SumFunctionOnSet(g, 1 .. n) + g[n + 1]
  <2>1. PICK I, k : I = 1 .. n /\ k = n + 1
    OBVIOUS
  <2>2. IsFiniteSet(I) /\ k \notin I /\ \A i \in I \cup {k} : g[i] \in Nat
    BY <1>4, <1>5, <1>6, <2>1
  <2>3. SumFunctionOnSet(g, I \cup {k}) = SumFunctionOnSet(g, I) + g[k]
    BY <2>2, SumPutsIn
  <2> QED BY <2>1, <2>3
<1>11. SumFunction(f) = TakenSum
  BY <1>1 DEF TakenSum
<1>12. SumFunction(g) = TakenSum'
  BY <1>2 DEF TakenSum
<1> QED BY <1>5, <1>7, <1>8, <1>9, <1>10, <1>11, <1>12, Zenon

----------------------------------------------------------------------------
(* What a step leaves alone.                                               *)

\* Who is on the record stays on it, and the register stays.
RecordGrows == \A t \in Teachers \cup {Null} : OnTheRecord(t) => OnTheRecord(t)'
StaysThere == register # Null => register' # Null

LEMMA RecordStands ==
  ASSUME RecordOK, UNCHANGED <<rows, records>>
  PROVE  RecordOK' /\ RecordGrows /\ MarksKept
<1>1. UNCHANGED <<marks, edits, alarms, corrections, taken, untaken>>
  BY DEF rows, records
<1>2. \A s \in Students : CorrectionsOK(s)'
  BY <1>1 DEF RecordOK, CorrectionsOK, Corrects, Follows, Says
<1>3. TakenOK'
  <2>1. TakenSum' = TakenSum /\ Marked' = Marked
    BY <1>1 DEF TakenSum, Marked
  <2> QED BY <1>1, <2>1 DEF RecordOK, TakenOK
<1>4. RecordGrows /\ MarksKept
  BY <1>1 DEF RecordGrows, OnTheRecord, MarksKept
<1> QED BY <1>1, <1>2, <1>3, <1>4 DEF RecordOK

LEMMA RowStands ==
  ASSUME RowOK, UNCHANGED register, RecordGrows
  PROVE  RowOK' /\ StaysThere
BY DEF RowOK, StaysThere, Row, Signed, RecordGrows

LEMMA SheetsStand ==
  ASSUME SheetsOK, UNCHANGED sheets, StaysThere
  PROVE  SheetsOK'
BY DEF SheetsOK, StaysThere, Open

LEMMA OneSheetChanges ==
  ASSUME SheetsOK, StaysThere, NEW t \in Teachers, NEW sheet \in Sheet,
         sheets' = [sheets EXCEPT ![t] = sheet], register' # Null
  PROVE  SheetsOK'
BY DEF SheetsOK, Open

LEMMA SaveStays ==
  ASSUME CallsOK, NEW w \in Workers, calls'[w] = calls[w], RecordGrows, StaysThere, MarksKept
  PROVE  SaveOK(w)'
<1>1. PICK call \in Call : call = calls[w]
  BY DEF CallsOK
<1>2. call.copy \in [flag : Header, by : Teachers \cup {Null}]
  BY DEF Call
<1>3. call.copy.by \in Teachers \cup {Null}
  BY <1>2
<1>4. SaveOK(w)
  BY DEF CallsOK
<1>5. Signed(call.copy)'
  BY <1>1, <1>3, <1>4 DEF SaveOK, Signed, RecordGrows
<1> QED BY <1>1, <1>4, <1>5 DEF SaveOK, StaysThere, MarksKept

LEMMA CallsStand ==
  ASSUME CallsOK, UNCHANGED calls, RecordGrows, StaysThere, MarksKept
  PROVE  CallsOK'
BY SaveStays DEF CallsOK

LEMMA OneCallChanges ==
  ASSUME CallsOK, RecordGrows, StaysThere, MarksKept,
         NEW w \in Workers, NEW call \in Call, calls' = [calls EXCEPT ![w] = call],
         calls'[w] = call => SaveOK(w)'
  PROVE  CallsOK'
<1>1. calls' \in [Workers -> Call] /\ calls'[w] = call
  BY DEF CallsOK
<1>2. ASSUME NEW v \in Workers PROVE SaveOK(v)'
  <2>1. CASE v = w
    BY <1>1, <2>1
  <2>2. CASE v # w
    <3>1. calls'[v] = calls[v]
      BY <2>2 DEF CallsOK
    <3> QED BY <3>1, SaveStays
  <2> QED BY <2>1, <2>2
<1> QED BY <1>1, <1>2 DEF CallsOK

LEMMA CallDrops ==
  ASSUME CallsOK, RecordGrows, StaysThere, MarksKept, NEW w \in Workers, Drop(w)
  PROVE  CallsOK'
<1>1. NoCall.kind = "save" /\ NoCall.step = "idle" /\ ~NoCall.copy.flag
  BY DEF NoCall
<1>2. calls'[w] = NoCall => SaveOK(w)'
  BY <1>1 DEF SaveOK, Signed
<1>3. calls' = [calls EXCEPT ![w] = NoCall]
  BY DEF Drop
<1> QED BY <1>2, <1>3, NoCallIsCall, OneCallChanges

\* A call ends, and whoever waits for it sees its answer.
LEMMA CallEnds ==
  ASSUME SheetsOK, CallsOK, RecordGrows, StaysThere, MarksKept, NEW w \in Workers,
         NEW ok \in BOOLEAN, NEW header \in BOOLEAN, End(w, ok, header)
  PROVE  SheetsOK' /\ CallsOK'
<1>1. CallsOK'
  BY CallDrops DEF End
<1>2. ASSUME NEW t \in Teachers
      PROVE  sheets'[t] \in Sheet \cup {Null} /\ (Open(t)' => Open(t))
  <2>1. CASE ~(Open(t) /\ sheets[t].waiting = w)
    <3>1. sheets'[t] = sheets[t]
      BY <2>1 DEF End
    <3> QED BY <3>1 DEF SheetsOK, Open
  <2>2. CASE Open(t) /\ sheets[t].waiting = w
    <3>1. PICK sheet \in Sheet : sheet = sheets[t]
      BY <2>2 DEF Open, SheetsOK
    <3>2. PICK call \in Call : call = calls[w]
      BY DEF CallsOK
    <3>3. PICK new : new = Shown(sheet, call, ok, header)
      OBVIOUS
    <3>4. new \in Sheet
      BY <3>3, ShownIsSheet
    <3>5. sheets'[t] = new
      BY <2>2, <3>1, <3>2, <3>3 DEF End
    <3> QED BY <2>2, <3>4, <3>5
  <2> QED BY <2>1, <2>2
<1>3. sheets' \in [Teachers -> Sheet \cup {Null}]
  BY <1>2 DEF End
<1>4. \A t \in Teachers : Open(t)' => register' # Null
  BY <1>2 DEF SheetsOK, StaysThere
<1> QED BY <1>1, <1>3, <1>4 DEF SheetsOK

----------------------------------------------------------------------------
(* In the browser.                                                         *)

\* A sheet changes in the browser, and nothing else does.
LEMMA InTheBrowser ==
  ASSUME RegisterInv, NEW t \in Teachers, NEW sheet \in Sheet,
         sheets' = [sheets EXCEPT ![t] = sheet], register # Null,
         UNCHANGED <<rows, calls, register, records>>
  PROVE  RegisterInv'
<1>1. RecordOK' /\ RecordGrows /\ MarksKept
  BY RecordStands DEF RegisterInv
<1>2. RowOK' /\ StaysThere
  BY <1>1, RowStands DEF RegisterInv
<1>3. SheetsOK' /\ CallsOK'
  BY <1>1, <1>2, OneSheetChanges, CallsStand DEF RegisterInv
<1> QED BY <1>1, <1>2, <1>3 DEF RegisterInv

LEMMA TypeOnRegister ==
  ASSUME RegisterInv, NEW t \in Teachers, NEW s \in Students, NEW m \in Marks \cup {Null},
         Type(t, s, m), UNCHANGED <<register, records>>
  PROVE  RegisterInv'
<1>1. /\ Open(t) /\ s \in DOMAIN sheets[t].rows
      /\ sheets' = [sheets EXCEPT ![t].rows[s] = m, ![t].says = "unsaved"]
      /\ UNCHANGED <<rows, calls>>
  BY DEF Type
<1>2. PICK sheet \in Sheet : sheet = sheets[t]
  BY <1>1 DEF RegisterInv, SheetsOK, Open
<1>3. PICK typed : typed = [sheet.rows EXCEPT ![s] = m]
  OBVIOUS
<1>4. typed \in Draft
  <2>1. sheet.rows \in Draft
    BY DEF Sheet
  <2>2. PICK R \in SUBSET Students : sheet.rows \in [R -> Marks \cup {Null}]
    BY <2>1 DEF Draft
  <2>3. typed \in [R -> Marks \cup {Null}]
    BY <1>3, <2>2
  <2> QED BY <2>3, DraftIs
<1>5. PICK new : new = [sheet EXCEPT !.rows = typed, !.says = "unsaved"]
  OBVIOUS
<1>6. new \in Sheet
  BY <1>4, <1>5 DEF Sheet
<1>7. sheets' = [sheets EXCEPT ![t] = new]
  BY <1>1, <1>2, <1>3, <1>5 DEF Sheet
<1>8. register # Null
  BY <1>1 DEF RegisterInv, SheetsOK
<1> QED BY <1>1, <1>6, <1>7, <1>8, InTheBrowser

LEMMA LoseAnswerOfRegister ==
  ASSUME RegisterInv, NEW t \in Teachers, LoseAnswer(t), UNCHANGED <<register, records>>
  PROVE  RegisterInv'
<1>1. Open(t) /\ sheets' = [sheets EXCEPT ![t].waiting = Null] /\ UNCHANGED <<rows, calls>>
  BY DEF LoseAnswer
<1>2. PICK sheet \in Sheet : sheet = sheets[t]
  BY <1>1 DEF RegisterInv, SheetsOK, Open
<1>3. PICK new : new = [sheet EXCEPT !.waiting = Null]
  OBVIOUS
<1>4. new \in Sheet /\ sheets' = [sheets EXCEPT ![t] = new]
  BY <1>1, <1>2, <1>3 DEF Sheet
<1>5. register # Null
  BY <1>1 DEF RegisterInv, SheetsOK
<1> QED BY <1>1, <1>4, <1>5, InTheBrowser

LEMMA MarkAllOnRegister ==
  ASSUME RegisterInv, NEW t \in Teachers, NEW m \in Marks \cup {Null}, MarkAll(t, m)
  PROVE  RegisterInv'
<1>1. /\ Open(t) /\ UNCHANGED <<rows, calls, register, records>>
      /\ sheets' = [sheets EXCEPT ![t].rows = [s \in DOMAIN @ |-> m], ![t].says = "unsaved"]
  BY DEF MarkAll
<1>2. PICK sheet \in Sheet : sheet = sheets[t]
  BY <1>1 DEF RegisterInv, SheetsOK, Open
<1>3. PICK filled : filled = [s \in DOMAIN sheet.rows |-> m]
  OBVIOUS
<1>4. filled \in Draft
  <2>1. DOMAIN sheet.rows \in SUBSET Students
    BY DraftHas DEF Sheet
  <2>2. filled \in [DOMAIN sheet.rows -> Marks \cup {Null}]
    BY <1>3
  <2> QED BY <2>1, <2>2, DraftIs
<1>5. PICK new : new = [sheet EXCEPT !.rows = filled, !.says = "unsaved"]
  OBVIOUS
<1>6. new \in Sheet
  BY <1>4, <1>5 DEF Sheet
<1>7. sheets' = [sheets EXCEPT ![t] = new]
  BY <1>1, <1>2, <1>3, <1>5 DEF Sheet
<1>8. register # Null
  BY <1>1 DEF RegisterInv, SheetsOK
<1> QED BY <1>1, <1>6, <1>7, <1>8, InTheBrowser

LEMMA OpenRegisterSheetKeeps ==
  ASSUME RegisterInv, NEW t \in Teachers, OpenRegisterSheet(t)
  PROVE  RegisterInv'
<1>1. PICK roster : roster = {s \in Students : enrolled[s] # "CANCELLED"}
  OBVIOUS
<1>2. PICK read : read = [s \in roster |-> DisplayedOf(marks[s])]
  OBVIOUS
<1>3. PICK new : new = [rows |-> read, read |-> read, says |-> "nothing",
                        header |-> register.flag, waiting |-> Null]
  OBVIOUS
<1>4. /\ register # Null /\ sheets' = [sheets EXCEPT ![t] = new]
      /\ UNCHANGED <<rows, calls, register, records>>
  BY <1>1, <1>2, <1>3 DEF OpenRegisterSheet, ReadSheet
<1>5. read \in Draft
  <2>1. roster \in SUBSET Students /\ \A s \in Students : DisplayedOf(marks[s]) \in Marks \cup {Null}
    BY <1>1, RegistersAssumption DEF RegisterInv, RecordOK, DisplayedOf
  <2>2. read \in [roster -> Marks \cup {Null}]
    BY <1>2, <2>1
  <2> QED BY <2>1, <2>2, DraftIs
<1>6. register.flag \in BOOLEAN
  BY <1>4 DEF RegisterInv, RowOK, Row
<1>7. new \in Sheet
  BY <1>3, <1>5, <1>6 DEF Sheet, Header
<1> QED BY <1>4, <1>7, InTheBrowser

LEMMA SaveRegisterSheetKeeps ==
  ASSUME RegisterInv, NEW t \in Teachers, NEW w \in Workers, SaveRegisterSheet(t, w)
  PROVE  RegisterInv'
<1>1. PICK sheet \in Sheet : sheet = sheets[t]
  BY DEF RegisterInv, SheetsOK, SaveRegisterSheet, Open
<1>2. PICK payload : payload = Payload(sheet.rows)
  OBVIOUS
<1>3. /\ sheet.rows \in Draft /\ DOMAIN sheet.rows \subseteq Students
      /\ \A s \in DOMAIN sheet.rows : sheet.rows[s] \in Marks \cup {Null}
  BY DraftHas DEF Sheet
<1>4. /\ payload \in [{r \in DOMAIN sheet.rows : sheet.rows[r] # Null} -> Marks \cup {Null}]
      /\ \A s \in DOMAIN payload : s \in Students /\ payload[s] \in Marks
  BY <1>2, <1>3 DEF Payload
<1>5. payload \in Draft
  BY <1>3, <1>4, DraftIs
<1>6. PICK typed : typed = Typed(sheet)
  OBVIOUS
<1>7. typed \in SUBSET Students /\ sheet.read \in Draft
  BY <1>3, <1>6 DEF Typed, Sheet
<1>8. PICK call : call = [NoCall EXCEPT !.rows = payload, !.typed = typed, !.read = sheet.read]
  OBVIOUS
<1>9. PICK sentCall : sentCall = [call EXCEPT !.step = "sent", !.by = t]
  OBVIOUS
<1>10. /\ sentCall \in Call /\ sentCall.kind = "save" /\ sentCall.step = "sent"
       /\ sentCall.by = t /\ sentCall.rows = payload /\ ~sentCall.copy.flag
  BY <1>5, <1>7, <1>8, <1>9, EmptyDraft DEF NoCall, Call, Kinds, Steps, Header
<1>11. /\ Open(t) /\ UNCHANGED <<rows, register, records>>
       /\ calls' = [calls EXCEPT ![w] = sentCall]
       /\ sheets' = [sheets EXCEPT ![t].waiting = w]
  BY <1>1, <1>2, <1>6, <1>8, <1>9 DEF SaveRegisterSheet, SendSheet, Send, Take
<1>12. register # Null
  BY <1>11 DEF RegisterInv, SheetsOK
<1>13. RecordOK' /\ RecordGrows /\ MarksKept
  BY <1>11, RecordStands DEF RegisterInv
<1>14. RowOK' /\ StaysThere
  BY <1>11, <1>13, RowStands DEF RegisterInv
<1>15. calls'[w] = sentCall => SaveOK(w)'
  BY <1>4, <1>10, <1>11, <1>12 DEF SaveOK, Signed
<1>16. CallsOK'
  BY <1>10, <1>11, <1>13, <1>14, <1>15, OneCallChanges DEF RegisterInv
<1>17. PICK waiting : waiting = [sheet EXCEPT !.waiting = w]
  OBVIOUS
<1>18. waiting \in Sheet /\ sheets' = [sheets EXCEPT ![t] = waiting]
  BY <1>1, <1>11, <1>17 DEF Sheet
<1>19. SheetsOK'
  BY <1>11, <1>12, <1>14, <1>18, OneSheetChanges DEF RegisterInv
<1> QED BY <1>13, <1>14, <1>16, <1>19 DEF RegisterInv

----------------------------------------------------------------------------
(* On the server.                                                          *)

\* A call begins, or takes a step that no sheet sees.
LEMMA OnTheServer ==
  ASSUME RegisterInv, NEW w \in Workers, NEW call \in Call, calls' = [calls EXCEPT ![w] = call],
         UNCHANGED <<rows, sheets, register, records>>,
         calls'[w] = call /\ RecordGrows => SaveOK(w)'
  PROVE  RegisterInv'
<1>1. RecordOK' /\ RecordGrows /\ MarksKept
  BY RecordStands DEF RegisterInv
<1>2. RowOK' /\ StaysThere
  BY <1>1, RowStands DEF RegisterInv
<1>3. SheetsOK' /\ CallsOK'
  BY <1>1, <1>2, SheetsStand, OneCallChanges DEF RegisterInv
<1> QED BY <1>1, <1>2, <1>3 DEF RegisterInv

LEMMA StartRegisterKeeps ==
  ASSUME RegisterInv, NEW t \in Teachers, NEW w \in Workers, StartRegister(t, w)
  PROVE  RegisterInv'
<1>1. PICK call : call = [NoCall EXCEPT !.kind = "open", !.step = "valid", !.by = t]
  OBVIOUS
<1>2. call \in Call /\ call.kind = "open" /\ ~call.copy.flag
  BY <1>1, EmptyDraft DEF NoCall, Call, Kinds, Steps, Header
<1>3. /\ calls' = [calls EXCEPT ![w] = call]
      /\ UNCHANGED <<rows, sheets, register, records>>
  BY <1>1 DEF StartRegister, Take
<1>4. calls'[w] = call => SaveOK(w)'
  BY <1>2 DEF SaveOK, Signed
<1> QED BY <1>2, <1>3, <1>4, OnTheServer

LEMMA ReadForChangeKeeps ==
  ASSUME RegisterInv, NEW w \in Workers, ReadForChange(w)
  PROVE  RegisterInv'
<1>1. PICK row \in Row : row = register
  BY DEF RegisterInv, RowOK, ReadForChange
<1>2. Signed(row)
  BY <1>1 DEF RegisterInv, RowOK, ReadForChange
<1>3. PICK call : call = [NoCall EXCEPT !.kind = "edit", !.step = "valid", !.copy = row]
  OBVIOUS
<1>4. call \in Call /\ call.kind = "edit" /\ call.copy = row
  BY <1>3, EmptyDraft DEF NoCall, Call, Kinds, Steps, Header, Row
<1>5. /\ calls' = [calls EXCEPT ![w] = call]
      /\ UNCHANGED <<rows, sheets, register, records>>
  BY <1>1, <1>3 DEF ReadForChange, Take
<1>6. calls'[w] = call /\ RecordGrows => SaveOK(w)'
  BY <1>2, <1>4 DEF SaveOK, Signed, RecordGrows, Row
<1> QED BY <1>4, <1>5, <1>6, OnTheServer

LEMMA LockRegister ==
  ASSUME RegisterInv, NEW w \in Workers, Lock(w), UNCHANGED <<register, records>>
  PROVE  RegisterInv'
<1>1. PICK call \in Call : call = calls[w]
  BY DEF RegisterInv, CallsOK
<1>2. PICK new : new = [call EXCEPT !.step = "locked", !.had = Marked]
  OBVIOUS
<1>3. /\ new \in Call /\ new.kind = call.kind /\ new.by = call.by /\ new.rows = call.rows
      /\ new.had = Marked /\ new.copy = call.copy /\ call.kind = "save" /\ call.step = "valid"
  BY <1>1, <1>2 DEF Call, Steps, Marked, Lock, At
<1>4. calls' = [calls EXCEPT ![w] = new] /\ UNCHANGED <<rows, sheets>>
  BY <1>1, <1>2 DEF Lock
<1>5. SaveOK(w)
  BY DEF RegisterInv, CallsOK
<1>6. call.copy.by \in Teachers \cup {Null}
  BY DEF Call
<1>7. ASSUME calls'[w] = new, RecordGrows PROVE SaveOK(w)'
  <2>1. \A s \in Marked : s \in Students /\ marks'[s] # Null
    BY <1>4 DEF Marked, rows
  <2>2. Signed(new.copy)'
    BY <1>1, <1>3, <1>5, <1>6, <1>7 DEF SaveOK, Signed, RecordGrows
  <2> QED BY <1>1, <1>3, <1>5, <1>7, <2>1, <2>2 DEF SaveOK
<1> QED BY <1>3, <1>4, <1>7, OnTheServer

LEMMA EndOfCall ==
  ASSUME RegisterInv, NEW w \in Workers, NEW ok \in BOOLEAN, NEW header \in BOOLEAN,
         End(w, ok, header), UNCHANGED <<rows, register, records>>
  PROVE  RegisterInv'
<1>1. RecordOK' /\ RecordGrows /\ MarksKept
  BY RecordStands DEF RegisterInv
<1>2. RowOK' /\ StaysThere
  BY <1>1, RowStands DEF RegisterInv
<1>3. SheetsOK' /\ CallsOK'
  BY <1>1, <1>2, CallEnds DEF RegisterInv
<1> QED BY <1>1, <1>2, <1>3 DEF RegisterInv

LEMMA FailOfRegister ==
  ASSUME RegisterInv, NEW w \in Workers, Fail(w), UNCHANGED <<register, records>>
  PROVE  RegisterInv'
BY EndOfCall DEF Fail

LEMMA ValidateRegisterKeeps ==
  ASSUME RegisterInv, NEW w \in Workers, ValidateRegister(w)
  PROVE  RegisterInv'
<1>1. CASE End(w, FALSE, FALSE)
  BY <1>1, EndOfCall DEF ValidateRegister
<1>2. CASE calls' = [calls EXCEPT ![w].step = "valid", ![w].copy = register] /\ UNCHANGED sheets
  <2>1. PICK call \in Call : call = calls[w]
    BY DEF RegisterInv, CallsOK
  <2>2. SaveOK(w) /\ call.kind = "save" /\ call.step = "sent"
    BY <2>1 DEF RegisterInv, CallsOK, ValidateRegister, At
  <2>3. register # Null
    BY <2>1, <2>2 DEF SaveOK
  <2>4. PICK row \in Row : row = register
    BY <2>3 DEF RegisterInv, RowOK
  <2>5. Signed(row)
    BY <2>3, <2>4 DEF RegisterInv, RowOK
  <2>6. PICK new : new = [call EXCEPT !.step = "valid", !.copy = row]
    OBVIOUS
  <2>7. /\ new \in Call /\ new.kind = "save" /\ new.step = "valid" /\ new.by = call.by
        /\ new.rows = call.rows /\ new.copy = row
    BY <2>2, <2>6 DEF Call, Steps, Row, Header
  <2>8. /\ calls' = [calls EXCEPT ![w] = new]
        /\ UNCHANGED <<rows, register, records>>
    BY <1>2, <2>1, <2>4, <2>6 DEF ValidateRegister
  <2>9. calls'[w] = new /\ RecordGrows => SaveOK(w)'
    BY <2>1, <2>2, <2>3, <2>5, <2>7, <2>8 DEF SaveOK, Signed, RecordGrows, Row
  <2> QED BY <1>2, <2>7, <2>8, <2>9, OnTheServer
<1> QED BY <1>1, <1>2 DEF ValidateRegister

LEMMA ChangeEnrolmentOfRegister ==
  ASSUME RegisterInv, NEW s \in Students, NEW status, ChangeEnrolment(s, status),
         UNCHANGED <<register, records>>
  PROVE  RegisterInv'
<1>1. UNCHANGED <<rows, sheets, calls>>
  BY DEF ChangeEnrolment
<1>2. RecordOK' /\ RecordGrows /\ MarksKept
  BY <1>1, RecordStands DEF RegisterInv
<1>3. RowOK' /\ StaysThere
  BY <1>2, RowStands DEF RegisterInv
<1>4. SheetsOK' /\ CallsOK'
  BY <1>1, <1>2, <1>3, SheetsStand, CallsStand DEF RegisterInv
<1> QED BY <1>2, <1>3, <1>4 DEF RegisterInv

\* A register starts empty, unless another was there first.
LEMMA InsertRegisterKeeps ==
  ASSUME RegisterInv, NEW w \in Workers, InsertRegister(w)
  PROVE  RegisterInv'
<1>1. Drop(w) /\ UNCHANGED <<rows, sheets, records>>
  BY DEF InsertRegister
<1>2. RecordOK' /\ RecordGrows /\ MarksKept
  BY <1>1, RecordStands DEF RegisterInv
<1>3. RowOK' /\ StaysThere
  <2>1. CASE register # Null
    <3>1. UNCHANGED register
      BY <2>1 DEF InsertRegister
    <3> QED BY <3>1, <1>2, RowStands DEF RegisterInv
  <2>2. CASE register = Null
    <3>1. PICK row : row = [flag |-> FALSE, by |-> Null]
      OBVIOUS
    <3>2. row \in Row /\ ~row.flag /\ register' = row
      BY <2>2, <3>1 DEF InsertRegister, Row
    <3> QED BY <2>2, <3>2 DEF RowOK, StaysThere, Signed
  <2> QED BY <2>1, <2>2
<1>4. SheetsOK' /\ CallsOK'
  BY <1>1, <1>2, <1>3, SheetsStand, CallDrops DEF RegisterInv
<1> QED BY <1>2, <1>3, <1>4 DEF RegisterInv

\* An older copy of the register is written back; who submitted it is on the
\* record all the same.
LEMMA SaveChangeKeeps ==
  ASSUME RegisterInv, NEW w \in Workers, SaveChange(w)
  PROVE  RegisterInv'
<1>1. Drop(w) /\ register' = calls[w].copy /\ UNCHANGED <<rows, sheets, records>>
  BY DEF SaveChange
<1>2. RecordOK' /\ RecordGrows /\ MarksKept
  BY <1>1, RecordStands DEF RegisterInv
<1>3. RowOK' /\ StaysThere
  <2>1. PICK copy \in Row : copy = calls[w].copy
    BY DEF RegisterInv, CallsOK, Call, Row, Header
  <2>2. Signed(copy)
    BY <2>1 DEF RegisterInv, CallsOK, SaveOK
  <2>3. copy # Null
    BY RegistersAssumption
  <2>4. Signed(copy)'
    BY <1>2, <2>2 DEF Signed, RecordGrows, Row
  <2> QED BY <1>1, <2>1, <2>3, <2>4 DEF RowOK, StaysThere
<1>4. SheetsOK' /\ CallsOK'
  BY <1>1, <1>2, <1>3, SheetsStand, CallDrops DEF RegisterInv
<1> QED BY <1>2, <1>3, <1>4 DEF RegisterInv

\* What save_register finds of the rows it has been sent.
LEMMA WhatIsWritten ==
  ASSUME RegisterInv, NEW w \in Workers, NEW call \in Call, call = calls[w],
         At(w, "save", "locked"), ~Collides(call)
  PROVE  /\ call.by \in Teachers /\ register # Null
         /\ \A s \in Created(call) :
              s \in Students /\ s \notin Changed(call) /\ marks[s] = Null /\ call.rows[s] \in Marks
         /\ \A s \in Changed(call) :
              /\ s \in Students /\ marks[s] # Null
              /\ call.rows[s] \in Marks /\ call.rows[s] # marks[s]
<1>1. /\ call.by \in Teachers /\ register # Null
      /\ \A s \in DOMAIN call.rows : s \in Students /\ call.rows[s] \in Marks
      /\ \A s \in call.had : marks[s] # Null
  BY DEF RegisterInv, CallsOK, SaveOK, At
<1> QED BY <1>1 DEF Created, Changed, Collides

\* A correction is told, by an audit row or by an alarm.
LEMMA CorrectedByRow ==
  ASSUME NEW h \in Seq(Entry), NEW a \in Seq(Teachers), NEW m \in Marks, NEW k \in Nat,
         Corrects(h, a, m, k), NEW new \in Marks,
         NEW e \in Entry, e.old = Says(m), e.new = Says(new)
  PROVE  Corrects(Append(h, e), a, new, k + 1)
<1>1. PICK longer : longer = Append(h, e)
  OBVIOUS
<1>2. PICK l, c \in Nat : l = Len(h) /\ c = Len(a)
  OBVIOUS
<1>3. /\ Len(longer) = l + 1 /\ longer[l + 1] = e /\ \A i \in 1 .. l : longer[i] = h[i]
      /\ l # 0 => h # <<>>
  BY <1>1, <1>2
<1>4. k = l + c
  BY <1>2 DEF Corrects
<1>5. k + 1 = (l + 1) + c
  BY <1>4
<1>6. ASSUME a = <<>>, NEW i \in 2 .. l + 1
      PROVE  i > 1 /\ longer[i].old = longer[i - 1].new
  <2>1. i - 1 \in 1 .. l /\ i > 1 /\ l # 0
    OBVIOUS
  <2>2. CASE i = l + 1
    <3>1. h[l].new = Says(m)
      BY <1>2, <1>3, <1>6, <2>1 DEF Corrects
    <3>2. longer[i] = e /\ i - 1 = l /\ longer[i - 1] = h[l]
      BY <1>3, <2>1, <2>2
    <3> QED BY <2>1, <3>1, <3>2
  <2>3. CASE i # l + 1
    <3>1. i \in 2 .. l /\ i \in 1 .. l
      BY <2>3
    <3>2. h[i].old = h[i - 1].new
      BY <1>2, <1>6, <3>1 DEF Corrects, Follows
    <3> QED BY <1>3, <2>1, <3>1, <3>2
  <2> QED BY <2>2, <2>3
<1>7. new # Null
  BY SaysWhat
<1>8. k + 1 = Len(longer) + Len(a) /\ longer[Len(longer)].new = Says(new)
  BY <1>2, <1>3, <1>5
<1>9. a = <<>> => \A i \in 2 .. Len(longer) : Follows(longer, i)
  BY <1>3, <1>6 DEF Follows
<1> QED BY <1>1, <1>7, <1>8, <1>9 DEF Corrects

LEMMA CorrectedByAlarm ==
  ASSUME NEW h \in Seq(Entry), NEW a \in Seq(Teachers), NEW m \in Marks, NEW k \in Nat,
         Corrects(h, a, m, k), NEW new \in Marks, NEW t \in Teachers
  PROVE  Corrects(h, Append(a, t), new, k + 1)
<1>1. PICK longer : longer = Append(a, t)
  OBVIOUS
<1>2. PICK l, c \in Nat : l = Len(h) /\ c = Len(a)
  OBVIOUS
<1>3. Len(longer) = c + 1 /\ longer # <<>> /\ new # Null
  BY <1>1, <1>2, SaysWhat
<1>4. k = l + c
  BY <1>2 DEF Corrects
<1>5. k + 1 = l + (c + 1)
  BY <1>4
<1> QED BY <1>1, <1>2, <1>3, <1>5 DEF Corrects

LEMMA CorrectionsAre ==
  ASSUME NEW s
  PROVE  CorrectionsOK(s)' <=> Corrects(corrections'[s], alarms'[s], marks'[s], edits'[s])
BY DEF CorrectionsOK, Corrects, Follows, Says

\* Nothing leaves a sequence that is the same or one longer.
Extends(h, longer) == \A i \in DOMAIN h : i \in DOMAIN longer /\ longer[i] = h[i]
LEMMA AppendExtends ==
  ASSUME NEW S, NEW h \in Seq(S), NEW e \in S
  PROVE  /\ Append(h, e) \in Seq(S) /\ Len(Append(h, e)) = Len(h) + 1 /\ Extends(h, Append(h, e))
         /\ \E i \in DOMAIN Append(h, e) : Append(h, e)[i] = e
<1>1. PICK longer : longer = Append(h, e)
  OBVIOUS
<1>2. PICK l \in Nat : l = Len(h)
  OBVIOUS
<1>3. /\ longer \in Seq(S) /\ Len(longer) = l + 1 /\ DOMAIN h = 1 .. l /\ DOMAIN longer = 1 .. l + 1
      /\ longer[l + 1] = e /\ \A i \in 1 .. l : longer[i] = h[i]
  BY <1>1, <1>2
<1>4. l + 1 \in DOMAIN longer /\ \A i \in 1 .. l : i \in 1 .. l + 1
  BY <1>3
<1> QED BY <1>1, <1>2, <1>3, <1>4 DEF Extends

\* One student's row and corrections.
LEMMA OneStudent ==
  ASSUME RegisterInv, NEW w \in Workers, NEW call \in Call, call = calls[w],
         At(w, "save", "locked"), ~Collides(call), WriteRows(call),
         NEW failed \in SUBSET Changed(call), MayFail(failed),
         corrections' = Recorded(corrections, Changed(call) \ failed, call),
         alarms' = Alarmed(failed, call), NEW s \in Students
  PROVE  /\ marks'[s] \in Marks \cup {Null} /\ (marks[s] # Null => marks'[s] # Null)
         /\ s \in Created(call) \cup Changed(call) => marks'[s] # Null
         /\ s \notin Created(call) \cup Changed(call) => marks'[s] = marks[s]
         /\ edits'[s] \in Nat /\ edits'[s] <= edits[s] + 1
         /\ corrections'[s] \in Seq(Entry) /\ Extends(corrections[s], corrections'[s])
         /\ alarms'[s] \in Seq(Teachers) /\ Extends(alarms[s], alarms'[s])
         /\ Len(alarms'[s]) <= MaxAlarms
         /\ s \in Changed(call) =>
              \/ \E i \in DOMAIN corrections'[s] : corrections'[s][i].by = call.by
              \/ \E i \in DOMAIN alarms'[s] : alarms'[s][i] = call.by
         /\ CorrectionsOK(s)'
<1>1. /\ marks[s] \in Marks \cup {Null} /\ edits[s] \in Nat
      /\ corrections[s] \in Seq(Entry) /\ alarms[s] \in Seq(Teachers)
      /\ Len(alarms[s]) <= MaxAlarms /\ CorrectionsOK(s) /\ Null \notin Marks /\ MaxAlarms \in Nat
  BY ClassroomAssumption DEF RegisterInv, RecordOK
<1>2. /\ marks'[s] = IF s \in Created(call) \cup Changed(call) THEN call.rows[s] ELSE marks[s]
      /\ edits'[s] = edits[s] + (IF s \in Changed(call) THEN 1 ELSE 0)
      /\ corrections'[s] = IF s \in Changed(call) \ failed
                           THEN Append(corrections[s], AuditRow(s, call)) ELSE corrections[s]
      /\ alarms'[s] = IF s \in failed THEN Append(alarms[s], call.by) ELSE alarms[s]
  BY DEF WriteRows, Recorded, Alarmed
<1>3. /\ call.by \in Teachers
      /\ s \in Created(call) => s \notin Changed(call) /\ marks[s] = Null /\ call.rows[s] \in Marks
      /\ s \in Changed(call) => marks[s] # Null /\ call.rows[s] \in Marks /\ call.rows[s] # marks[s]
  BY WhatIsWritten
<1>4. /\ marks'[s] \in Marks \cup {Null} /\ (marks[s] # Null => marks'[s] # Null)
      /\ s \in Created(call) \cup Changed(call) => marks'[s] # Null
      /\ s \notin Created(call) \cup Changed(call) => marks'[s] = marks[s]
  BY <1>1, <1>2, <1>3
<1>5. edits'[s] \in Nat /\ edits'[s] <= edits[s] + 1
  BY <1>1, <1>2
<1>6. Corrects(corrections[s], alarms[s], marks[s], edits[s])
  BY <1>1 DEF CorrectionsOK
<1>7. CASE s \in Changed(call)
  <2>1. marks[s] \in Marks /\ marks'[s] \in Marks /\ marks'[s] = call.rows[s]
        /\ edits'[s] = edits[s] + 1
    BY <1>1, <1>2, <1>3, <1>7
  <2>2. CASE s \notin failed
    <3>1. PICK h \in Seq(Entry) : h = corrections[s]
      BY <1>1
    <3>2. PICK e \in Entry : /\ e = AuditRow(s, call) /\ e.by = call.by
                             /\ e.old = Says(marks[s]) /\ e.new = Says(marks'[s])
      <4>1. PICK e : e = AuditRow(s, call)
        OBVIOUS
      <4>2. e.old = Says(marks[s]) /\ e.new = Says(marks'[s]) /\ e.by = call.by
        BY <2>1, <4>1 DEF AuditRow
      <4>3. Says(marks[s]) \in Marks /\ Says(call.rows[s]) \in Marks
        BY <2>1, SaysWhat
      <4>4. e \in Entry
        BY <1>3, <4>1, <4>3 DEF AuditRow, Entry
      <4> QED BY <4>1, <4>2, <4>4
    <3>3. corrections'[s] = Append(h, e) /\ alarms'[s] = alarms[s]
      BY <1>2, <1>7, <2>2, <3>1, <3>2
    <3>4. Corrects(Append(h, e), alarms[s], marks'[s], edits[s] + 1)
      BY <1>1, <1>6, <2>1, <3>1, <3>2, CorrectedByRow
    <3>5. CorrectionsOK(s)'
      BY <2>1, <3>3, <3>4, CorrectionsAre
    <3>6. /\ corrections'[s] \in Seq(Entry) /\ Extends(corrections[s], corrections'[s])
          /\ \E i \in DOMAIN corrections'[s] : corrections'[s][i] = e
      <4>1. PICK longer : longer = Append(h, e)
        OBVIOUS
      <4>2. /\ longer \in Seq(Entry) /\ Extends(h, longer)
            /\ \E i \in DOMAIN longer : longer[i] = e
        BY <4>1, AppendExtends
      <4>3. corrections'[s] = longer
        BY <3>3, <4>1
      <4> QED BY <3>1, <4>2, <4>3, Zenon
    <3>7. \E i \in DOMAIN corrections'[s] : corrections'[s][i].by = call.by
      BY <3>2, <3>6
    <3>8. Extends(alarms[s], alarms'[s])
      BY <3>3 DEF Extends
    <3> QED BY <1>1, <1>4, <1>5, <3>3, <3>5, <3>6, <3>7, <3>8
  <2>3. CASE s \in failed
    <3>1. PICK a \in Seq(Teachers) : a = alarms[s]
      BY <1>1
    <3>2. alarms'[s] = Append(a, call.by) /\ corrections'[s] = corrections[s] /\ Len(a) < MaxAlarms
      BY <1>2, <2>3, <3>1 DEF MayFail
    <3>3. Corrects(corrections[s], Append(a, call.by), marks'[s], edits[s] + 1)
      BY <1>1, <1>3, <1>6, <2>1, <3>1, CorrectedByAlarm
    <3>4. CorrectionsOK(s)'
      BY <2>1, <3>2, <3>3, CorrectionsAre
    <3>5. /\ alarms'[s] \in Seq(Teachers) /\ Extends(alarms[s], alarms'[s])
          /\ Len(alarms'[s]) = Len(a) + 1
          /\ \E i \in DOMAIN alarms'[s] : alarms'[s][i] = call.by
      BY <1>3, <3>1, <3>2, AppendExtends
    <3>6. Len(alarms'[s]) <= MaxAlarms
      <4>1. Len(a) \in Nat
        OBVIOUS
      <4> QED BY <1>1, <3>2, <3>5, <4>1
    <3>7. Extends(corrections[s], corrections'[s])
      BY <3>2 DEF Extends
    <3> QED BY <1>1, <1>4, <1>5, <3>2, <3>4, <3>5, <3>6, <3>7
  <2> QED BY <2>2, <2>3
<1>8. CASE s \notin Changed(call)
  <2>1. corrections'[s] = corrections[s] /\ alarms'[s] = alarms[s] /\ edits'[s] = edits[s]
    BY <1>1, <1>2, <1>8
  <2>2. Corrects(corrections[s], alarms[s], marks'[s], edits[s])
    <3>1. CASE s \in Created(call)
      <4>1. marks[s] = Null /\ marks'[s] # Null
        BY <1>3, <1>4, <3>1
      <4>2. Len(corrections[s]) + Len(alarms[s]) = 0 /\ edits[s] = 0
        BY <1>6, <4>1 DEF Corrects
      <4>3. PICK l, c \in Nat : l = Len(corrections[s]) /\ c = Len(alarms[s])
        BY <1>1
      <4>4. Len(corrections[s]) = 0
        <5>1. l + c = 0
          BY <4>2, <4>3
        <5>2. l = 0
          BY <5>1
        <5> QED BY <4>3, <5>2
      <4>5. corrections[s] = <<>>
        BY <1>1, <4>4
      <4> QED BY <4>1, <4>2, <4>4, <4>5 DEF Corrects
    <3>2. CASE s \notin Created(call)
      BY <1>4, <1>6, <1>8, <3>2
    <3> QED BY <3>1, <3>2
  <2>3. CorrectionsOK(s)'
    BY <2>1, <2>2, CorrectionsAre
  <2>4. Extends(corrections[s], corrections'[s]) /\ Extends(alarms[s], alarms'[s])
    BY <2>1 DEF Extends
  <2> QED BY <1>1, <1>4, <1>5, <1>8, <2>1, <2>3, <2>4
<1> QED BY <1>7, <1>8

\* What is newly marked is counted in the ATTENDANCE_TAKEN row, once.
LEMMA TakenAddsUp ==
  ASSUME RegisterInv, NEW w \in Workers, NEW call \in Call, call = calls[w],
         At(w, "save", "locked"), ~Collides(call), Taken(call), TakenSum \in Nat,
         \A s \in Students :
           /\ marks[s] # Null => marks'[s] # Null
           /\ s \in Created(call) \cup Changed(call) => marks'[s] # Null
           /\ s \notin Created(call) \cup Changed(call) => marks'[s] = marks[s]
  PROVE  /\ TakenOK'
         /\ Extends(taken, taken') /\ Extends(untaken, untaken')
         /\ Created(call) # {} => \/ \E i \in DOMAIN taken' : taken'[i].by = call.by
                                 \/ \E i \in DOMAIN untaken' : untaken'[i] = call.by
<1>1. PICK created : created = Created(call)
  OBVIOUS
<1>2. /\ call.by \in Teachers /\ created \subseteq Students
      /\ \A s \in created : marks[s] = Null
      /\ \A s \in Changed(call) : marks[s] # Null
  BY <1>1, WhatIsWritten
<1>3. Marked' = Marked \cup created /\ Marked \cap created = {}
  <2>1. ASSUME NEW s \in Students PROVE marks'[s] # Null <=> marks[s] # Null \/ s \in created
    <3>1. /\ marks[s] # Null => marks'[s] # Null
          /\ s \in created \cup Changed(call) => marks'[s] # Null
          /\ s \notin created \cup Changed(call) => marks'[s] = marks[s]
      BY <1>1
    <3> QED BY <1>2, <3>1
  <2> QED BY <1>2, <2>1 DEF Marked
<1>4. /\ IsFiniteSet(Marked) /\ IsFiniteSet(created)
      /\ Cardinality(created) <= Cardinality(Students)
  <2>1. Marked \in SUBSET Students /\ created \in SUBSET Students /\ IsFiniteSet(Students)
    BY <1>2, RegistersAssumption DEF Marked
  <2> QED BY <2>1, FS_Subset
<1>5. /\ Cardinality(Marked) \in Nat /\ Cardinality(created) \in Nat
      /\ Cardinality(Students) \in Nat
  BY <1>4, FS_CardinalityType, RegistersAssumption
<1>6. Cardinality(Marked') = Cardinality(Marked) + Cardinality(created)
  <2>1. Cardinality(Marked \cup created)
          = Cardinality(Marked) + Cardinality(created) - Cardinality(Marked \cap created)
    BY <1>4, FS_Union
  <2>2. Cardinality(Marked \cap created) = 0
    BY <1>3, FS_EmptySet
  <2> QED BY <1>3, <1>5, <2>1, <2>2
<1>7. /\ taken \in Seq(TakenRow) /\ untaken \in Seq(Teachers) /\ Len(untaken) <= MaxAlarms
      /\ TakenSum + Len(untaken) <= Cardinality(Marked)
      /\ untaken = <<>> => TakenSum = Cardinality(Marked)
      /\ Len(untaken) \in Nat /\ MaxAlarms \in Nat
  BY ClassroomAssumption DEF RegisterInv, RecordOK, TakenOK
<1>8. Cardinality(created) # 0 <=> created # {}
  BY <1>4, FS_EmptySet
<1>9. CASE created = {} /\ UNCHANGED <<taken, untaken>>
  <2>1. TakenSum' = TakenSum
    BY <1>9 DEF TakenSum
  <2>2. TakenOK'
    BY <1>5, <1>6, <1>7, <1>8, <1>9, <2>1 DEF TakenOK
  <2> QED BY <1>1, <1>9, <2>2 DEF Extends
<1>10. CASE created # {} /\ UNCHANGED untaken
            /\ taken' = Append(taken, [by |-> call.by, marked |-> Cardinality(created)])
  <2>1. PICK row : row = [by |-> call.by, marked |-> Cardinality(created)]
    OBVIOUS
  <2>2. row \in TakenRow /\ row.marked = Cardinality(created) /\ row.by = call.by
    BY <1>2, <1>4, <1>5, <1>8, <1>10, <2>1 DEF TakenRow
  <2>3. taken' = Append(taken, row)
    BY <1>10, <2>1
  <2>4. TakenSum' = TakenSum + row.marked
    BY <1>7, <2>2, <2>3, SumOfAppend
  <2>5. /\ taken' \in Seq(TakenRow) /\ Extends(taken, taken')
        /\ \E i \in DOMAIN taken' : taken'[i] = row
    BY <1>7, <2>2, <2>3, AppendExtends
  <2>6. Extends(untaken, untaken')
    BY <1>10 DEF Extends
  <2>7. TakenOK'
    BY <1>5, <1>6, <1>7, <1>10, <2>2, <2>4, <2>5 DEF TakenOK
  <2> QED BY <2>2, <2>5, <2>6, <2>7
<1>11. CASE created # {} /\ Len(untaken) < MaxAlarms /\ UNCHANGED taken
            /\ untaken' = Append(untaken, call.by)
  <2>1. /\ untaken' \in Seq(Teachers) /\ Len(untaken') = Len(untaken) + 1
        /\ Extends(untaken, untaken') /\ \E i \in DOMAIN untaken' : untaken'[i] = call.by
    BY <1>2, <1>7, <1>11, AppendExtends
  <2>2. TakenSum' = TakenSum /\ Extends(taken, taken')
    BY <1>11 DEF TakenSum, Extends
  <2>3. untaken' # <<>>
    BY <2>1
  <2>4. Len(untaken') <= MaxAlarms
    BY <1>7, <1>11, <2>1
  <2>5. Cardinality(created) >= 1
    BY <1>5, <1>8, <1>11
  <2>6. TakenSum' + Len(untaken') <= Cardinality(Marked')
    BY <1>5, <1>6, <1>7, <2>1, <2>2, <2>5
  <2>7. TakenOK'
    BY <1>7, <1>11, <2>1, <2>2, <2>3, <2>4, <2>6 DEF TakenOK
  <2> QED BY <2>1, <2>2, <2>7
<1> QED BY <1>1, <1>9, <1>10, <1>11 DEF Taken, TookSome, NewlyMarked

\* Of a step that only appends, nobody leaves the record.
LEMMA LongerRecord ==
  ASSUME Extends(taken, taken'), Extends(untaken, untaken'),
         \A s \in Students :
           Extends(corrections[s], corrections'[s]) /\ Extends(alarms[s], alarms'[s])
  PROVE  RecordGrows
<1> SUFFICES ASSUME NEW t \in Teachers \cup {Null}, OnTheRecord(t) PROVE OnTheRecord(t)'
  BY DEF RecordGrows
<1>1. CASE \E i \in DOMAIN taken : taken[i].by = t
  BY <1>1 DEF OnTheRecord, Extends
<1>2. CASE \E i \in DOMAIN untaken : untaken[i] = t
  BY <1>2 DEF OnTheRecord, Extends
<1>3. CASE \E s \in Students : \E i \in DOMAIN corrections[s] : corrections[s][i].by = t
  BY <1>3 DEF OnTheRecord, Extends
<1>4. CASE \E s \in Students : \E i \in DOMAIN alarms[s] : alarms[s][i] = t
  BY <1>4 DEF OnTheRecord, Extends
<1> QED BY <1>1, <1>2, <1>3, <1>4 DEF OnTheRecord

LEMMA CommitRegisterKeeps ==
  ASSUME RegisterInv, NEW w \in Workers, CommitRegister(w)
  PROVE  RegisterInv'
<1>1. PICK call \in Call : call = calls[w]
  BY DEF RegisterInv, CallsOK
<1>2. CASE Collides(call)
  <2>1. End(w, FALSE, FALSE) /\ UNCHANGED <<rows, register, records>>
    BY <1>1, <1>2 DEF CommitRegister
  <2> QED BY <2>1, EndOfCall
<1>3. CASE ~Collides(call)
  <2>1. /\ At(w, "save", "locked") /\ WriteRows(call) /\ End(w, TRUE, TRUE)
        /\ Taken(call) /\ register' = Submitted(call)
    BY <1>1, <1>3 DEF CommitRegister
  <2>2. PICK failed \in SUBSET Changed(call) :
          /\ MayFail(failed)
          /\ corrections' = Recorded(corrections, Changed(call) \ failed, call)
          /\ alarms' = Alarmed(failed, call)
    BY <1>1, <1>3 DEF CommitRegister
  <2>3. ASSUME NEW s \in Students
        PROVE  /\ marks'[s] \in Marks \cup {Null} /\ (marks[s] # Null => marks'[s] # Null)
               /\ s \in Created(call) \cup Changed(call) => marks'[s] # Null
               /\ s \notin Created(call) \cup Changed(call) => marks'[s] = marks[s]
               /\ edits'[s] \in Nat
               /\ corrections'[s] \in Seq(Entry) /\ Extends(corrections[s], corrections'[s])
               /\ alarms'[s] \in Seq(Teachers) /\ Extends(alarms[s], alarms'[s])
               /\ Len(alarms'[s]) <= MaxAlarms
               /\ s \in Changed(call) =>
                    \/ \E i \in DOMAIN corrections'[s] : corrections'[s][i].by = call.by
                    \/ \E i \in DOMAIN alarms'[s] : alarms'[s][i] = call.by
               /\ CorrectionsOK(s)'
    BY <1>1, <1>3, <2>1, <2>2, OneStudent
  <2>4. /\ TakenOK' /\ Extends(taken, taken') /\ Extends(untaken, untaken')
        /\ Created(call) # {} => \/ \E i \in DOMAIN taken' : taken'[i].by = call.by
                                \/ \E i \in DOMAIN untaken' : untaken'[i] = call.by
    <3>1. TakenSum \in Nat
      BY DEF RegisterInv, RecordOK, TakenOK
    <3> QED BY <1>1, <1>3, <2>1, <2>3, <3>1, TakenAddsUp
  <2>9. RecordOK'
    <3>1. /\ marks' = [s \in Students |-> marks'[s]] /\ edits' = [s \in Students |-> edits'[s]]
          /\ corrections' = [s \in Students |-> corrections'[s]]
          /\ alarms' = [s \in Students |-> alarms'[s]]
      BY <2>1, <2>2 DEF WriteRows, Recorded, Alarmed
    <3>2. /\ \A s \in Students : marks'[s] \in Marks \cup {Null}
          /\ \A s \in Students : edits'[s] \in Nat
          /\ \A s \in Students : corrections'[s] \in Seq(Entry)
          /\ \A s \in Students : alarms'[s] \in Seq(Teachers)
      BY <2>3
    <3>3. /\ marks' \in [Students -> Marks \cup {Null}] /\ edits' \in [Students -> Nat]
          /\ corrections' \in [Students -> Seq(Entry)] /\ alarms' \in [Students -> Seq(Teachers)]
      BY <3>1, <3>2
    <3> QED BY <2>3, <2>4, <3>3 DEF RecordOK
  <2>5. RecordGrows /\ MarksKept
    BY <2>3, <2>4, LongerRecord DEF MarksKept
  <2>6. call.by \in Teachers /\ register # Null /\ \A s \in Changed(call) : s \in Students
    BY <1>1, <1>3, <2>1, WhatIsWritten
  <2>7. RowOK' /\ StaysThere
    <3>1. CASE ~call.copy.flag /\ WroteSomething(call)
      <4>1. PICK row : row = [flag |-> TRUE, by |-> call.by]
        OBVIOUS
      <4>2. row \in Row /\ row.by = call.by /\ register' = row
        BY <2>1, <2>6, <3>1, <4>1 DEF Submitted, Row
      <4>3. OnTheRecord(call.by)'
        <5>1. CASE Created(call) # {}
          BY <2>4, <5>1 DEF OnTheRecord
        <5>2. CASE Changed(call) # {}
          BY <2>3, <2>6, <5>2 DEF OnTheRecord
        <5> QED BY <3>1, <5>1, <5>2 DEF WroteSomething
      <4> QED BY <4>2, <4>3, RegistersAssumption DEF RowOK, Signed, StaysThere
    <3>2. CASE ~(~call.copy.flag /\ WroteSomething(call))
      <4>1. UNCHANGED register
        BY <2>1, <3>2 DEF Submitted
      <4> QED BY <4>1, <2>5, RowStands DEF RegisterInv
    <3> QED BY <3>1, <3>2
  <2>8. SheetsOK' /\ CallsOK'
    BY <2>1, <2>5, <2>7, CallEnds DEF RegisterInv
  <2> QED BY <2>9, <2>7, <2>8 DEF RegisterInv
<1> QED BY <1>2, <1>3

----------------------------------------------------------------------------
LEMMA InitRegisterInv == RegisterInit => RegisterInv
<1> SUFFICES ASSUME RegisterInit PROVE RegisterInv
  OBVIOUS
<1> USE DEF RegisterInit, ClassInit
<1>1. RecordOK
  <2>1. ASSUME NEW s \in Students PROVE CorrectionsOK(s)
    BY DEF CorrectionsOK, Corrects
  <2>2. Marked = {}
    BY DEF Marked
  <2>3. TakenSum = 0
    BY SumOfEmpty
  <2>4. TakenOK
    BY <2>2, <2>3, FS_EmptySet, ClassroomAssumption DEF TakenOK
  <2> QED BY <2>1, <2>4, ClassroomAssumption DEF RecordOK
<1>2. RowOK
  BY DEF RowOK
<1>3. SheetsOK
  BY DEF SheetsOK, Open
<1>4. CallsOK
  <2>1. NoCall.step = "idle" /\ ~NoCall.copy.flag
    BY DEF NoCall
  <2> QED BY <2>1, NoCallIsCall DEF CallsOK, SaveOK, Signed
<1> QED BY <1>1, <1>2, <1>3, <1>4 DEF RegisterInv

LEMMA NextRegisterInv == RegisterInv /\ [RegisterNext]_registerVars => RegisterInv'
<1> SUFFICES ASSUME RegisterInv, [RegisterNext]_registerVars PROVE RegisterInv'
  OBVIOUS
<1>1. CASE UNCHANGED registerVars
  <2>1. UNCHANGED <<rows, sheets, calls, register, records>>
    BY <1>1 DEF registerVars, classVars, rows, records
  <2>2. RecordOK' /\ RecordGrows /\ MarksKept
    BY <2>1, RecordStands DEF RegisterInv
  <2>3. RowOK' /\ StaysThere
    BY <2>1, <2>2, RowStands DEF RegisterInv
  <2>4. SheetsOK' /\ CallsOK'
    BY <2>1, <2>2, <2>3, SheetsStand, CallsStand DEF RegisterInv
  <2> QED BY <2>2, <2>3, <2>4 DEF RegisterInv
<1>2. CASE ClassNext /\ UNCHANGED <<register, records>>
  <2>1. ASSUME NEW t \in Teachers, LoseAnswer(t) PROVE RegisterInv'
    BY <1>2, <2>1, LoseAnswerOfRegister
  <2>2. ASSUME NEW t \in Teachers, NEW s \in Students, NEW m \in Marks \cup {Null}, Type(t, s, m)
        PROVE  RegisterInv'
    BY <1>2, <2>2, TypeOnRegister
  <2>3. ASSUME NEW w \in Workers, Lock(w) PROVE RegisterInv'
    BY <1>2, <2>3, LockRegister
  <2>4. ASSUME NEW w \in Workers, Fail(w) PROVE RegisterInv'
    BY <1>2, <2>4, FailOfRegister
  <2>5. ASSUME NEW change \in Leaving, ChangeEnrolment(change[1], change[2]) PROVE RegisterInv'
    <3>1. change[1] \in Students
      BY ClassroomAssumption
    <3> QED BY <1>2, <2>5, <3>1, ChangeEnrolmentOfRegister
  <2> QED BY <1>2, <2>1, <2>2, <2>3, <2>4, <2>5 DEF ClassNext
<1>3. ASSUME NEW t \in Teachers,
             \/ OpenRegisterSheet(t)
             \/ \E m \in Marks \cup {Null} : MarkAll(t, m)
             \/ \E w \in Workers : StartRegister(t, w) \/ SaveRegisterSheet(t, w)
      PROVE  RegisterInv'
  BY <1>3, OpenRegisterSheetKeeps, MarkAllOnRegister, StartRegisterKeeps, SaveRegisterSheetKeeps
<1>4. ASSUME NEW w \in Workers,
             \/ InsertRegister(w) \/ ReadForChange(w) \/ SaveChange(w)
             \/ ValidateRegister(w) \/ CommitRegister(w)
      PROVE  RegisterInv'
  BY <1>4, InsertRegisterKeeps, ReadForChangeKeeps, SaveChangeKeeps, ValidateRegisterKeeps,
     CommitRegisterKeeps
<1> QED BY <1>1, <1>2, <1>3, <1>4 DEF RegisterNext

LEMMA RegisterInvHolds == RegisterSpec => []RegisterInv
BY InitRegisterInv, NextRegisterInv, PTL DEF RegisterSpec

\* The weight of a register is on its trail (attendance/models.py:33): its
\* ATTENDANCE_TAKEN rows add up to the marks there are, but for those whose
\* insert failed, and each correction counted on a row has an audit row or an
\* alarm; without alarms the rows are a chain to the status there is.
THEOREM RegisterAddsUpHolds == RegisterSpec => []RegisterAddsUp
<1>1. RegisterInv => RegisterAddsUp
  <2> SUFFICES ASSUME RegisterInv
               PROVE  /\ TakenSum + Len(untaken) <= Cardinality(Marked)
                      /\ untaken = <<>> => TakenSum = Cardinality(Marked)
                      /\ \A s \in Students :
                           /\ edits[s] = Len(corrections[s]) + Len(alarms[s])
                           /\ alarms[s] = <<>> =>
                                /\ \A i \in 2 .. Len(corrections[s]) : Follows(corrections[s], i)
                                /\ corrections[s] # <<>> => Last(corrections[s]).new = Says(marks[s])
    BY DEF RegisterAddsUp, TakenSum
  <2>1. TakenOK /\ \A s \in Students : CorrectionsOK(s)
    BY DEF RegisterInv, RecordOK
  <2> QED BY <2>1 DEF TakenOK, CorrectionsOK, Corrects, Last
<1> QED BY <1>1, RegisterInvHolds, PTL

\* Whoever has submitted the register is named by an audit row, or by the line
\* logged in its place (save_register), whatever older copy was written back.
THEOREM SubmitterIsOnTheTrailHolds == RegisterSpec => []SubmitterIsOnTheTrail
<1>1. RegisterInv => SubmitterIsOnTheTrail
  BY DEF RegisterInv, RowOK, Signed, OnTheRecord, SubmitterIsOnTheTrail
<1> QED BY <1>1, RegisterInvHolds, PTL

----------------------------------------------------------------------------
(* The types of both machines, and the bound on the corrections of a mark. *)

EnrolledOK == enrolled \in [Students -> {"ACTIVE", "COMPLETED", "CANCELLED"}]

LEMMA ClassCounts ==
  ASSUME CountOK, EnrolledOK, calls \in [Workers -> Call], edits \in [Students -> Nat], ClassNext
  PROVE  CountOK' /\ EnrolledOK'
<1>1. ASSUME NEW t \in Teachers, LoseAnswer(t) PROVE CountOK' /\ EnrolledOK'
  BY <1>1, CountStays DEF LoseAnswer, rows, EnrolledOK
<1>2. ASSUME NEW t \in Teachers, NEW s \in Students, NEW m, Type(t, s, m)
      PROVE  CountOK' /\ EnrolledOK'
  BY <1>2, CountStays DEF Type, rows, EnrolledOK
<1>3. ASSUME NEW w \in Workers, Lock(w) PROVE CountOK' /\ EnrolledOK'
  <2>1. \A v \in Workers : calls'[v].step = "idle" <=> calls[v].step = "idle"
    <3>1. PICK call \in Call : call = calls[w]
      OBVIOUS
    <3>2. PICK new : new = [call EXCEPT !.step = "locked", !.had = Marked]
      OBVIOUS
    <3>3. new.step = "locked" /\ calls' = [calls EXCEPT ![w] = new] /\ call.step = "valid"
      BY <1>3, <3>1, <3>2 DEF Lock, At, Call
    <3> QED BY <3>1, <3>3
  <2> QED BY <1>3, <2>1, CountStays DEF Lock, rows, EnrolledOK
<1>4. ASSUME NEW w \in Workers, Fail(w) PROVE CountOK' /\ EnrolledOK'
  <2>1. Drop(w) /\ calls[w].step # "idle" /\ UNCHANGED <<edits, enrolled, sent>>
    BY <1>4 DEF Fail, End, rows
  <2>2. \A s \in Students : edits'[s] \in Nat /\ edits'[s] <= edits[s] + 1
    BY <2>1
  <2> QED BY <2>1, <2>2, CountDrops DEF EnrolledOK
<1>5. ASSUME NEW change \in Leaving, ChangeEnrolment(change[1], change[2])
      PROVE  CountOK' /\ EnrolledOK'
  <2>1. change[1] \in Students /\ change[2] \in {"ACTIVE", "COMPLETED", "CANCELLED"}
    BY ClassroomAssumption
  <2>2. /\ sent < MaxCalls /\ sent' = sent + 1 /\ UNCHANGED <<edits, calls>>
        /\ enrolled' = [enrolled EXCEPT ![change[1]] = change[2]]
    BY <1>5 DEF ChangeEnrolment, rows
  <2>3. CountOK'
    BY <2>2, CountStays
  <2> QED BY <2>1, <2>2, <2>3 DEF EnrolledOK
<1> QED BY <1>1, <1>2, <1>3, <1>4, <1>5 DEF ClassNext

\* A sheet that is sent takes a worker.
LEMMA SheetTakes ==
  ASSUME CountOK, calls \in [Workers -> Call], edits \in [Students -> Nat],
         NEW t \in Teachers, NEW w \in Workers, SendSheet(t, w)
  PROVE  CountOK' /\ UNCHANGED enrolled
<1>1. PICK call : call = [[NoCall EXCEPT !.rows = Payload(sheets[t].rows),
                                         !.typed = Typed(sheets[t]), !.read = sheets[t].read]
                            EXCEPT !.step = "sent", !.by = t]
  OBVIOUS
<1>2. call.step = "sent"
  BY <1>1 DEF NoCall
<1>3. Take(w, call) /\ UNCHANGED <<edits, enrolled>>
  BY <1>1 DEF SendSheet, Send, rows
<1> QED BY <1>2, <1>3, CountTakes

\* A save that is committed corrects a row once at most.
LEMMA CommitCounts ==
  ASSUME CountOK, calls \in [Workers -> Call], edits \in [Students -> Nat], NEW w \in Workers,
         calls[w].step # "idle", Drop(w), UNCHANGED sent, NEW call,
         WriteRows(call) \/ UNCHANGED edits
  PROVE  CountOK'
<1>1. \A s \in Students : edits'[s] \in Nat /\ edits'[s] <= edits[s] + 1
  BY DEF WriteRows
<1> QED BY <1>1, CountDrops

LEMMA RegisterCounts ==
  ASSUME RegisterInv, CountOK, EnrolledOK, [RegisterNext]_registerVars
  PROVE  CountOK' /\ EnrolledOK'
<1>0. calls \in [Workers -> Call] /\ edits \in [Students -> Nat]
  BY DEF RegisterInv, RecordOK, CallsOK
<1>1. CASE UNCHANGED registerVars
  BY <1>0, <1>1, CountStays DEF registerVars, classVars, EnrolledOK
<1>2. CASE ClassNext
  BY <1>0, <1>2, ClassCounts
<1>3. ASSUME NEW t \in Teachers,
             OpenRegisterSheet(t) \/ \E m \in Marks \cup {Null} : MarkAll(t, m)
      PROVE  CountOK' /\ EnrolledOK'
  BY <1>0, <1>3, CountStays DEF OpenRegisterSheet, MarkAll, rows, EnrolledOK
<1>4. ASSUME NEW t \in Teachers, NEW w \in Workers, StartRegister(t, w)
      PROVE  CountOK' /\ EnrolledOK'
  <2>1. PICK call : call = [NoCall EXCEPT !.kind = "open", !.step = "valid", !.by = t]
    OBVIOUS
  <2>2. call.step = "valid" /\ Take(w, call) /\ UNCHANGED <<edits, enrolled>>
    BY <1>4, <2>1 DEF StartRegister, NoCall, rows
  <2> QED BY <1>0, <2>2, CountTakes DEF EnrolledOK
<1>5. ASSUME NEW t \in Teachers, NEW w \in Workers, SaveRegisterSheet(t, w)
      PROVE  CountOK' /\ EnrolledOK'
  BY <1>0, <1>5, SheetTakes DEF SaveRegisterSheet, EnrolledOK
<1>6. ASSUME NEW w \in Workers, ReadForChange(w) PROVE CountOK' /\ EnrolledOK'
  <2>1. PICK call : call = [NoCall EXCEPT !.kind = "edit", !.step = "valid", !.copy = register]
    OBVIOUS
  <2>2. call.step = "valid" /\ Take(w, call) /\ UNCHANGED <<edits, enrolled>>
    BY <1>6, <2>1 DEF ReadForChange, NoCall, rows
  <2> QED BY <1>0, <2>2, CountTakes DEF EnrolledOK
<1>7. ASSUME NEW w \in Workers, InsertRegister(w) \/ SaveChange(w) PROVE CountOK' /\ EnrolledOK'
  <2>1. Drop(w) /\ calls[w].step # "idle" /\ UNCHANGED <<edits, enrolled, sent>>
    BY <1>7 DEF InsertRegister, SaveChange, At, rows
  <2> QED BY <1>0, <2>1, CommitCounts DEF EnrolledOK
<1>8. ASSUME NEW w \in Workers, ValidateRegister(w) PROVE CountOK' /\ EnrolledOK'
  <2>1. calls[w].step = "sent" /\ UNCHANGED <<edits, enrolled, sent>>
    BY <1>8 DEF ValidateRegister, At, rows
  <2>2. CASE Drop(w)
    BY <1>0, <2>1, <2>2, CommitCounts DEF EnrolledOK
  <2>3. CASE calls' = [calls EXCEPT ![w].step = "valid", ![w].copy = register]
    <3>1. PICK call \in Call : call = calls[w]
      BY <1>0
    <3>2. PICK new : new = [call EXCEPT !.step = "valid", !.copy = register]
      OBVIOUS
    <3>3. new.step = "valid" /\ calls' = [calls EXCEPT ![w] = new]
      BY <2>3, <3>1, <3>2 DEF Call
    <3>4. \A v \in Workers : calls'[v].step = "idle" <=> calls[v].step = "idle"
      BY <1>0, <2>1, <3>3
    <3> QED BY <1>0, <2>1, <3>4, CountStays DEF EnrolledOK
  <2> QED BY <1>8, <2>2, <2>3 DEF ValidateRegister, End
<1>9. ASSUME NEW w \in Workers, CommitRegister(w) PROVE CountOK' /\ EnrolledOK'
  <2>1. /\ calls[w].step # "idle" /\ Drop(w) /\ UNCHANGED <<sent, enrolled>>
        /\ WriteRows(calls[w]) \/ UNCHANGED edits
    BY <1>9 DEF CommitRegister, At, End, rows
  <2> QED BY <1>0, <2>1, CommitCounts DEF EnrolledOK
<1> QED BY <1>1, <1>2, <1>3, <1>4, <1>5, <1>6, <1>7, <1>8, <1>9 DEF RegisterNext

LEMMA MarkCounts ==
  ASSUME IInv, CountOK, EnrolledOK, [MarkNext]_markVars
  PROVE  CountOK' /\ EnrolledOK'
<1>0. calls \in [Workers -> Call] /\ edits \in [Students -> Nat]
  BY DEF IInv, RangesOK
<1>1. CASE UNCHANGED markVars
  BY <1>0, <1>1, CountStays DEF markVars, classVars, EnrolledOK
<1>2. CASE ClassNext
  BY <1>0, <1>2, ClassCounts
<1>3. ASSUME NEW t \in Teachers, OpenMarkSheet(t) PROVE CountOK' /\ EnrolledOK'
  BY <1>0, <1>3, CountStays DEF OpenMarkSheet, rows, EnrolledOK
<1>4. ASSUME NEW t \in Teachers, NEW w \in Workers, SaveMarkSheet(t, w)
      PROVE  CountOK' /\ EnrolledOK'
  BY <1>0, <1>4, SheetTakes DEF SaveMarkSheet, EnrolledOK
<1>5. ASSUME NEW t \in Teachers, NEW w \in Workers, Publish(t, w) PROVE CountOK' /\ EnrolledOK'
  <2>1. PICK call : call = [[NoCall EXCEPT !.kind = "publish"] EXCEPT !.step = "sent", !.by = t]
    OBVIOUS
  <2>2. call.step = "sent"
    BY <2>1 DEF NoCall
  <2>3. Take(w, call) /\ UNCHANGED <<edits, enrolled>>
    BY <1>5, <2>1 DEF Publish, Send, rows
  <2> QED BY <1>0, <2>2, <2>3, CountTakes DEF EnrolledOK
<1>6. ASSUME NEW w \in Workers, ReadForEdit(w) \/ CheckDelete(w) PROVE CountOK' /\ EnrolledOK'
  <2>1. CASE ReadForEdit(w)
    <3>1. PICK call : call = [NoCall EXCEPT !.kind = "edit", !.step = "valid",
                                            !.copy.flag = assessment.is_published]
      OBVIOUS
    <3>2. call.step = "valid" /\ Take(w, call) /\ UNCHANGED <<edits, enrolled>>
      BY <2>1, <3>1 DEF ReadForEdit, NoCall, rows
    <3> QED BY <1>0, <3>2, CountTakes DEF EnrolledOK
  <2>2. CASE CheckDelete(w)
    <3>1. PICK call : call = [NoCall EXCEPT !.kind = "delete", !.step = "valid", !.had = Marked]
      OBVIOUS
    <3>2. call.step = "valid" /\ Take(w, call) /\ UNCHANGED <<edits, enrolled>>
      BY <2>2, <3>1 DEF CheckDelete, NoCall, rows
    <3> QED BY <1>0, <3>2, CountTakes DEF EnrolledOK
  <2> QED BY <1>6, <2>1, <2>2
<1>7. ASSUME NEW w \in Workers, CommitMarks(w) \/ SaveEdit(w) \/ TellStudents(w)
      PROVE  CountOK' /\ EnrolledOK'
  <2>1. /\ calls[w].step # "idle" /\ Drop(w) /\ UNCHANGED <<sent, enrolled>>
        /\ WriteRows(calls[w]) \/ UNCHANGED edits
    BY <1>7 DEF CommitMarks, SaveEdit, TellStudents, At, End, rows
  <2> QED BY <1>0, <2>1, CommitCounts DEF EnrolledOK
<1>8. ASSUME NEW w \in Workers, ValidateMarks(w) \/ SavePublished(w) PROVE CountOK' /\ EnrolledOK'
  <2>1. calls[w].step = "sent" /\ UNCHANGED <<edits, enrolled, sent>>
    BY <1>8 DEF ValidateMarks, SavePublished, At, rows
  <2>2. CASE Drop(w)
    BY <1>0, <2>1, <2>2, CommitCounts DEF EnrolledOK
  <2>3. ASSUME NEW step \in {"valid", "telling"}, Goto(w, step) PROVE CountOK' /\ EnrolledOK'
    <3>1. PICK call \in Call : call = calls[w]
      BY <1>0
    <3>2. PICK new : new = [call EXCEPT !.step = step]
      OBVIOUS
    <3>3. new.step = step /\ calls' = [calls EXCEPT ![w] = new]
      BY <2>3, <3>1, <3>2 DEF Call, Goto
    <3>4. \A v \in Workers : calls'[v].step = "idle" <=> calls[v].step = "idle"
      BY <1>0, <2>1, <3>3
    <3> QED BY <1>0, <2>1, <3>4, CountStays DEF EnrolledOK
  <2> QED BY <1>8, <2>2, <2>3 DEF ValidateMarks, SavePublished, End
<1>9. ASSUME NEW w \in Workers, Delete(w) PROVE CountOK' /\ EnrolledOK'
  <2>1. /\ calls[w].step # "idle" /\ UNCHANGED <<sent, enrolled>>
        /\ edits' = [s \in Students |-> 0]
    BY <1>9 DEF Delete, At
  <2>2. \A s \in Students : edits'[s] \in Nat /\ edits'[s] <= edits[s] + 1
    BY <1>0, <2>1
  <2>3. Active' = Active \ {w}
    <3>1. calls'[w].step = "idle"
      BY <1>9 DEF Delete, NoCall
    <3>2. ASSUME NEW v \in Workers, v # w PROVE calls'[v].step = calls[v].step
      <4>1. calls[v] \in Call
        BY <1>0
      <4> QED BY <1>9, <3>2, <4>1 DEF Delete, Call
    <3> QED BY <3>1, <3>2 DEF Active
  <2> QED BY <1>0, <2>1, <2>2, <2>3, CountFalls DEF EnrolledOK
<1> QED BY <1>1, <1>2, <1>3, <1>4, <1>5, <1>6, <1>7, <1>8, <1>9 DEF MarkNext

\* One machine or the other, its invariant, and the counts.
SheetsInv ==
  /\ CountOK /\ EnrolledOK
  /\ \/ which = "marks" /\ IInv /\ NoRegister
     \/ which = "register" /\ RegisterInv /\ NoAssessment

LEMMA SheetsInvHolds == Spec => []SheetsInv
<1>1. Init => SheetsInv
  <2> SUFFICES ASSUME Init PROVE SheetsInv
    OBVIOUS
  <2>1. ClassInit
    BY DEF Init, MarkInit, RegisterInit
  <2>2. CountOK /\ EnrolledOK
    <3>1. Active = {}
      BY <2>1 DEF ClassInit, Active, NoCall
    <3>2. IsFiniteSet(Active) /\ Cardinality(Active) = 0
      BY <3>1, FS_EmptySet
    <3> QED BY <2>1, <3>2, ClassroomAssumption DEF ClassInit, CountOK, EnrolledOK
  <2> QED BY <2>2, InitIInv, InitRegisterInv DEF Init, SheetsInv
<1>2. SheetsInv /\ [Next]_<<markVars, others, which>> => SheetsInv'
  <2> SUFFICES ASSUME SheetsInv, [Next]_<<markVars, others, which>> PROVE SheetsInv'
    OBVIOUS
  <2>1. CASE which = "marks" /\ IInv /\ NoRegister
    <3>1. which' = "marks" /\ [MarkNext]_markVars /\ UNCHANGED others
      BY <2>1 DEF Next
    <3>2. IInv' /\ NoRegister'
      BY <2>1, <3>1, NextIInv DEF NoRegister, others, records
    <3> QED BY <2>1, <3>1, <3>2, MarkCounts DEF SheetsInv
  <2>2. CASE which = "register" /\ RegisterInv /\ NoAssessment
    <3>1. which' = "register" /\ [RegisterNext]_registerVars /\ UNCHANGED above
      BY <2>2 DEF Next, markVars, registerVars, above, others, records
    <3>2. RegisterInv' /\ NoAssessment'
      BY <2>2, <3>1, NextRegisterInv DEF NoAssessment, above
    <3> QED BY <2>2, <3>1, <3>2, RegisterCounts DEF SheetsInv
  <2> QED BY <2>1, <2>2 DEF SheetsInv
<1> QED BY <1>1, <1>2, PTL DEF Spec

\* Every variable of the marks and of the register keeps its type; that a
\* mark is corrected MaxCalls times at most is because each call corrects it
\* once at most.
THEOREM SheetsTypeOKHolds == Spec => []SheetsTypeOK
<1>1. SheetsInv => SheetsTypeOK
  <2> SUFFICES ASSUME SheetsInv PROVE SheetsTypeOK
    OBVIOUS
  <2>1. CountOK /\ EnrolledOK
    BY DEF SheetsInv
  <2>2. ASSUME edits \in [Students -> Nat] PROVE edits \in [Students -> 0 .. MaxCalls]
    <3>1. ASSUME NEW s \in Students PROVE edits[s] \in 0 .. MaxCalls
      <4>1. /\ edits[s] \in Nat /\ Cardinality(Active) \in Nat /\ sent \in 0 .. MaxCalls
            /\ edits[s] + Cardinality(Active) <= sent
        BY <2>1, <2>2, FS_CardinalityType DEF CountOK
      <4> QED BY <4>1, ClassroomAssumption
    <3> QED BY <2>2, <3>1
  <2>3. sent \in 0 .. MaxCalls
    BY <2>1 DEF CountOK
  <2>4. CASE IInv /\ NoRegister
    <3>1. MarksTypeOK
      BY <2>1, <2>2, <2>3, <2>4 DEF IInv, RangesOK, MarksTypeOK, ClassTypeOK, EnrolledOK
    <3>2. RegisterTypeOK
      BY <2>4, <3>1, ClassroomAssumption DEF NoRegister, MarksTypeOK, RegisterTypeOK
    <3> QED BY <3>1, <3>2 DEF SheetsTypeOK
  <2>5. CASE RegisterInv /\ NoAssessment
    <3>1. RegisterTypeOK
      BY <2>1, <2>2, <2>3, <2>5 DEF RegisterInv, RecordOK, TakenOK, RowOK, SheetsOK, CallsOK, TakenRow,
         RegisterTypeOK, ClassTypeOK, EnrolledOK
    <3>2. MarksTypeOK
      BY <2>5, <3>1 DEF NoAssessment, MarksTypeOK, RegisterTypeOK
    <3> QED BY <3>1, <3>2 DEF SheetsTypeOK
  <2> QED BY <2>4, <2>5 DEF SheetsInv
<1> QED BY <1>1, SheetsInvHolds, PTL
================================================================================
