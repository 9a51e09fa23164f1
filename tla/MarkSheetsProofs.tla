---------------------------- MODULE MarkSheetsProofs ---------------------------
(***************************************************************************)
(* The marks of one assessment, for every set of teachers, students, marks *)
(* and requests: the trail is the history of each mark, a saved sheet is   *)
(* on it, and nothing but what was typed or stale is written.              *)
(***************************************************************************)
EXTENDS MarkSheets, TLAPS

RangesOK ==
  /\ marks \in [Students -> Marks \cup {Null}]
  /\ edits \in [Students -> Nat]
  /\ alarms \in [Students -> Seq(Teachers)]
  /\ \A s \in Students : Len(alarms[s]) <= MaxAlarms
  /\ trail \in [Students -> Seq(Entry)]
  /\ written \in [Students -> SUBSET Marks]
  /\ before \in [Students -> Nat]
  /\ assessment \in [exists : BOOLEAN, is_published : BOOLEAN]
  /\ told \subseteq Students
  /\ sheets \in [Teachers -> Sheet \cup {Null}]
  /\ calls \in [Workers -> Call]

\* Audit rows that are a chain, the last mark of which began after n rows.
Linked(h, n) ==
  \A i \in DOMAIN h :
    /\ h[i].old = Null \/ Follows(h, i)
    /\ i > n => (h[i].old = Null <=> i = n + 1)

\* Audit rows h and alarms a tell how the mark came to be m, the last of those
\* in w, corrected k times since it was entered after n of them.
Tells(h, a, n, m, k, w) ==
  /\ Len(h) + Len(a) = n + (IF m = Null THEN 0 ELSE k + 1)
  /\ m = Null => k = 0
  /\ m # Null => m \in w
  /\ a = <<>> =>
       /\ Linked(h, n)
       /\ m # Null => h[Len(h)].new = Says(m)

\* The trail of s tells how its mark came to be what it is.
HistoryOK(s) == Tells(trail[s], alarms[s], before[s], marks[s], edits[s], written[s])

\* A sheet shows as read only what was written.
SheetOK(t) ==
  Open(t) =>
    /\ DOMAIN sheets[t].rows = DOMAIN sheets[t].read
    /\ \A s \in DOMAIN sheets[t].read :
         sheets[t].read[s] # Null => sheets[t].read[s] \in written[s]

\* A save carries marks, and those not typed are those that were read; the
\* rows it has locked stay there; a deletion was asked of an empty sheet.
CallOK(w) ==
  LET call == calls[w] IN
  /\ call.kind = "save" /\ call.step # "idle" =>
       /\ call.by \in Teachers
       /\ \A s \in DOMAIN call.rows :
            /\ s \in Students /\ call.rows[s] \in Marks
            /\ s \notin call.typed => call.rows[s] = call.read[s]
  /\ call.kind = "save" /\ call.step = "locked" =>
       \A s \in call.had : s \in Students /\ marks[s] # Null
  /\ call.kind = "delete" /\ call.step # "idle" => call.had = {}

\* The inductive invariant.
IInv ==
  /\ RangesOK
  /\ \A s \in Students : HistoryOK(s)
  /\ \A t \in Teachers : SheetOK(t)
  /\ \A w \in Workers : CallOK(w)
  /\ ToldOnlyOfAMark
----------------------------------------------------------------------------
(* Drafts, sheets and calls.                                               *)

LEMMA DraftHas ==
  ASSUME NEW f \in Draft
  PROVE  DOMAIN f \subseteq Students /\ \A s \in DOMAIN f : f[s] \in Marks \cup {Null}
<1>1. PICK R \in SUBSET Students : f \in [R -> Marks \cup {Null}]
  BY DEF Draft
<1> QED BY <1>1

LEMMA DraftIs ==
  ASSUME NEW R \in SUBSET Students, NEW f \in [R -> Marks \cup {Null}]
  PROVE  f \in Draft
BY DEF Draft

LEMMA EmptyDraft == <<>> \in Draft /\ DOMAIN <<>> = {}
<1>1. DOMAIN <<>> = {}
  OBVIOUS
<1>2. <<>> \in [{} -> Marks \cup {Null}]
  OBVIOUS
<1> QED BY <1>1, <1>2, DraftIs

LEMMA NoCallIsCall == NoCall \in Call
BY EmptyDraft DEF NoCall, Call, Kinds, Steps, Header

\* What the answer leaves of a sheet.
LEMMA ShownIsSheet ==
  ASSUME NEW sheet \in Sheet, NEW call \in Call, NEW ok \in BOOLEAN, NEW header \in BOOLEAN,
         NEW new, new = Shown(sheet, call, ok, header)
  PROVE  /\ new \in Sheet
         /\ new.rows = sheet.rows
         /\ DOMAIN new.read = DOMAIN sheet.read
         /\ \A s \in DOMAIN sheet.read :
              \/ new.read[s] = sheet.read[s]
              \/ Saved(call, ok) /\ s \in DOMAIN call.rows /\ new.read[s] = call.rows[s]
<1>1. PICK read : read = IF Saved(call, ok)
                         THEN [s \in DOMAIN sheet.read |->
                                 IF s \in DOMAIN call.rows THEN call.rows[s] ELSE sheet.read[s]]
                         ELSE sheet.read
  OBVIOUS
<1>2. sheet.read \in Draft /\ call.rows \in Draft
  BY DEF Sheet, Call
<1>3. /\ DOMAIN sheet.read \subseteq Students
      /\ \A s \in DOMAIN sheet.read : sheet.read[s] \in Marks \cup {Null}
      /\ \A s \in DOMAIN call.rows : call.rows[s] \in Marks \cup {Null}
  BY <1>2, DraftHas
<1>4. read \in Draft /\ DOMAIN read = DOMAIN sheet.read
  <2>1. CASE Saved(call, ok)
    <3>1. read \in [DOMAIN sheet.read -> Marks \cup {Null}]
      BY <1>1, <1>3, <2>1
    <3> QED BY <3>1, <1>3, DraftIs
  <2>2. CASE ~Saved(call, ok)
    BY <1>1, <1>2, <2>2
  <2> QED BY <2>1, <2>2
<1>5. Shown(sheet, call, ok, header) =
        [sheet EXCEPT !.waiting = Null,
                      !.header = IF ok THEN header ELSE sheet.header,
                      !.says = IF Saved(call, ok) THEN "saved" ELSE sheet.says,
                      !.read = read]
  BY <1>1 DEF Shown, Sheet
<1>6. /\ Shown(sheet, call, ok, header) \in Sheet
      /\ Shown(sheet, call, ok, header).rows = sheet.rows
      /\ Shown(sheet, call, ok, header).read = read
  BY <1>4, <1>5 DEF Sheet, Header
<1>7. ASSUME NEW s \in DOMAIN sheet.read
      PROVE  \/ read[s] = sheet.read[s]
             \/ Saved(call, ok) /\ s \in DOMAIN call.rows /\ read[s] = call.rows[s]
  BY <1>1
<1> QED BY <1>4, <1>6, <1>7

----------------------------------------------------------------------------
(* What a step leaves alone.                                               *)

\* What was written stays written.
WrittenKept == \A s \in Students : written[s] \subseteq written'[s]
MarksKept == \A s \in Students : marks[s] # Null => marks'[s] # Null

LEMMA SheetStays ==
  ASSUME IInv, NEW t \in Teachers, sheets'[t] = sheets[t], WrittenKept
  PROVE  SheetOK(t)'
<1> SUFFICES ASSUME sheets[t] # Null
             PROVE  /\ DOMAIN sheets[t].rows = DOMAIN sheets[t].read
                    /\ \A s \in DOMAIN sheets[t].read :
                         sheets[t].read[s] # Null => sheets[t].read[s] \in written'[s]
  BY DEF SheetOK, Open
<1>1. sheets[t] \in Sheet /\ SheetOK(t)
  BY DEF IInv, RangesOK
<1>2. DOMAIN sheets[t].read \subseteq Students
  BY <1>1, DraftHas DEF Sheet
<1> QED BY <1>1, <1>2 DEF SheetOK, Open, WrittenKept

LEMMA CallStays ==
  ASSUME IInv, NEW w \in Workers, calls'[w] = calls[w], MarksKept
  PROVE  CallOK(w)'
<1>1. CallOK(w)
  BY DEF IInv
<1> QED BY <1>1 DEF CallOK, MarksKept

LEMMA IdleIsOK ==
  ASSUME NEW w \in Workers, calls'[w] = NoCall
  PROVE  CallOK(w)'
BY DEF CallOK, NoCall

\* The end of a call: of a save that succeeded, all it carried is written.
LEMMA Ends ==
  ASSUME IInv, NEW w \in Workers, NEW ok \in BOOLEAN, NEW header \in BOOLEAN,
         End(w, ok, header), WrittenKept, MarksKept,
         Saved(calls[w], ok) => \A s \in DOMAIN calls[w].rows : calls[w].rows[s] \in written'[s]
  PROVE  /\ sheets' \in [Teachers -> Sheet \cup {Null}]
         /\ calls' \in [Workers -> Call]
         /\ \A t \in Teachers : SheetOK(t)'
         /\ \A v \in Workers : CallOK(v)'
<1> USE DEF IInv, RangesOK
<1>1. calls' \in [Workers -> Call] /\ calls'[w] = NoCall
  BY NoCallIsCall DEF End, Drop
<1>2. ASSUME NEW v \in Workers PROVE CallOK(v)'
  <2>1. CASE v = w
    BY <1>1, <2>1, IdleIsOK
  <2>2. CASE v # w
    <3>1. calls'[v] = calls[v]
      BY <2>2 DEF End, Drop
    <3> QED BY <3>1, CallStays
  <2> QED BY <2>1, <2>2
<1>3. ASSUME NEW t \in Teachers
      PROVE  sheets'[t] \in Sheet \cup {Null} /\ SheetOK(t)'
  <2>1. CASE ~(Open(t) /\ sheets[t].waiting = w)
    <3>1. sheets'[t] = sheets[t]
      BY <2>1 DEF End
    <3> QED BY <3>1, SheetStays
  <2>2. CASE Open(t) /\ sheets[t].waiting = w
    <3>1. PICK sheet \in Sheet : sheet = sheets[t]
      BY <2>2 DEF Open
    <3>2. PICK new : new = Shown(sheet, calls[w], ok, header)
      OBVIOUS
    <3>3. sheets'[t] = new
      BY <2>2, <3>1, <3>2 DEF End
    <3>4. /\ new \in Sheet /\ new.rows = sheet.rows /\ DOMAIN new.read = DOMAIN sheet.read
          /\ \A s \in DOMAIN sheet.read :
               \/ new.read[s] = sheet.read[s]
               \/ /\ Saved(calls[w], ok) /\ s \in DOMAIN calls[w].rows
                  /\ new.read[s] = calls[w].rows[s]
      <4>1. calls[w] \in Call
        OBVIOUS
      <4> HIDE DEF IInv, RangesOK
      <4> QED BY <3>2, <4>1, ShownIsSheet
    <3>5. SheetOK(t)
      OBVIOUS
    <3>6. /\ DOMAIN sheet.rows = DOMAIN sheet.read
          /\ \A s \in DOMAIN sheet.read : sheet.read[s] # Null => sheet.read[s] \in written[s]
      BY <2>2, <3>1, <3>5 DEF SheetOK
    <3>7. ASSUME NEW s \in DOMAIN sheet.read, new.read[s] # Null
          PROVE  new.read[s] \in written'[s]
      <4>1. CASE /\ Saved(calls[w], ok) /\ s \in DOMAIN calls[w].rows
                 /\ new.read[s] = calls[w].rows[s]
        BY <4>1
      <4>2. CASE new.read[s] = sheet.read[s]
        <5>1. sheet.read[s] \in written[s]
          BY <3>6, <3>7, <4>2
        <5>2. s \in Students
          BY DraftHas DEF Sheet
        <5> QED BY <4>2, <5>1, <5>2 DEF WrittenKept
      <4> QED BY <3>4, <4>1, <4>2
    <3>8. SheetOK(t)'
      BY <3>3, <3>4, <3>6, <3>7 DEF SheetOK
    <3> QED BY <3>3, <3>4, <3>8
  <2> QED BY <2>1, <2>2
<1>4. sheets' \in [Teachers -> Sheet \cup {Null}]
  BY <1>3 DEF End
<1> QED BY <1>1, <1>2, <1>3, <1>4

\* A step that writes no row.
RecordIsOK ==
  /\ marks \in [Students -> Marks \cup {Null}]
  /\ edits \in [Students -> Nat]
  /\ alarms \in [Students -> Seq(Teachers)]
  /\ \A s \in Students : Len(alarms[s]) <= MaxAlarms
  /\ trail \in [Students -> Seq(Entry)]
  /\ written \in [Students -> SUBSET Marks]
  /\ before \in [Students -> Nat]
  /\ told \subseteq Students
  /\ \A s \in Students : HistoryOK(s)
  /\ ToldOnlyOfAMark

LEMMA RecordStays ==
  ASSUME IInv, UNCHANGED <<marks, edits, alarms, trail, told, written, before>>
  PROVE  RecordIsOK' /\ WrittenKept /\ MarksKept
<1>1. \A s \in Students : HistoryOK(s)'
  <2> SUFFICES ASSUME NEW s \in Students PROVE HistoryOK(s)'
    OBVIOUS
  <2> HistoryOK(s)
    BY DEF IInv
  <2> QED BY DEF HistoryOK, Tells, Linked, Follows, Says
<1>2. ToldOnlyOfAMark'
  BY DEF IInv, ToldOnlyOfAMark
<1> QED BY <1>1, <1>2 DEF IInv, RangesOK, RecordIsOK, WrittenKept, MarksKept

LEMMA SheetsStay ==
  ASSUME IInv, UNCHANGED sheets, WrittenKept
  PROVE  sheets' \in [Teachers -> Sheet \cup {Null}] /\ \A t \in Teachers : SheetOK(t)'
BY SheetStays DEF IInv, RangesOK

LEMMA OneSheet ==
  ASSUME IInv, NEW t \in Teachers, NEW sheet \in Sheet, sheets' = [sheets EXCEPT ![t] = sheet],
         WrittenKept, DOMAIN sheet.rows = DOMAIN sheet.read,
         \A s \in DOMAIN sheet.read : sheet.read[s] # Null => sheet.read[s] \in written'[s]
  PROVE  sheets' \in [Teachers -> Sheet \cup {Null}] /\ \A u \in Teachers : SheetOK(u)'
<1>1. sheets' \in [Teachers -> Sheet \cup {Null}] /\ sheets'[t] = sheet
  BY DEF IInv, RangesOK
<1>2. ASSUME NEW u \in Teachers PROVE SheetOK(u)'
  <2>1. CASE u = t
    BY <1>1, <2>1 DEF SheetOK
  <2>2. CASE u # t
    <3>1. sheets'[u] = sheets[u]
      BY <2>2 DEF IInv, RangesOK
    <3> QED BY <3>1, SheetStays
  <2> QED BY <2>1, <2>2
<1> QED BY <1>1, <1>2

\* Of a sheet whose rows as read are the same, nothing new has to be shown.
LEMMA SameRead ==
  ASSUME IInv, NEW t \in Teachers, Open(t), NEW sheet \in Sheet,
         sheets' = [sheets EXCEPT ![t] = sheet], WrittenKept,
         DOMAIN sheet.rows = DOMAIN sheet.read, sheet.read = sheets[t].read
  PROVE  sheets' \in [Teachers -> Sheet \cup {Null}] /\ \A u \in Teachers : SheetOK(u)'
<1>1. sheets[t] \in Sheet /\ SheetOK(t)
  BY DEF IInv, RangesOK, Open
<1>2. ASSUME NEW s \in DOMAIN sheet.read, sheet.read[s] # Null
      PROVE  sheet.read[s] \in written'[s]
  <2>1. sheet.read[s] \in written[s]
    BY <1>1, <1>2 DEF SheetOK, Open
  <2>2. s \in Students
    BY DraftHas DEF Sheet
  <2> QED BY <2>1, <2>2 DEF WrittenKept
<1> QED BY <1>2, OneSheet

LEMMA CallsStay ==
  ASSUME IInv, UNCHANGED calls, MarksKept
  PROVE  calls' \in [Workers -> Call] /\ \A v \in Workers : CallOK(v)'
BY CallStays DEF IInv, RangesOK

LEMMA OneCall ==
  ASSUME IInv, NEW w \in Workers, NEW call \in Call, calls' = [calls EXCEPT ![w] = call],
         MarksKept, CallOK(w)'
  PROVE  calls' \in [Workers -> Call] /\ calls'[w] = call /\ \A v \in Workers : CallOK(v)'
<1>1. calls' \in [Workers -> Call] /\ calls'[w] = call
  BY DEF IInv, RangesOK
<1>2. ASSUME NEW v \in Workers PROVE CallOK(v)'
  <2>1. CASE v = w
    BY <2>1
  <2>2. CASE v # w
    <3>1. calls'[v] = calls[v]
      BY <2>2 DEF IInv, RangesOK
    <3> QED BY <3>1, CallStays
  <2> QED BY <2>1, <2>2
<1> QED BY <1>1, <1>2

----------------------------------------------------------------------------
(* In the browser.                                                         *)

LEMMA TypeKeeps ==
  ASSUME IInv, NEW t \in Teachers, NEW s \in Students, NEW m \in Marks \cup {Null},
         Type(t, s, m), UNCHANGED above
  PROVE  IInv'
<1> USE DEF Type, above, rows
<1>1. RecordIsOK' /\ WrittenKept /\ MarksKept
  BY RecordStays DEF IInv, RangesOK
<1>2. PICK sheet \in Sheet : sheet = sheets[t]
  BY DEF IInv, RangesOK, Open
<1>3. PICK typed : typed = [sheet.rows EXCEPT ![s] = m]
  OBVIOUS
<1>4. typed \in Draft /\ DOMAIN typed = DOMAIN sheet.rows
  <2>1. /\ sheet.rows \in Draft /\ DOMAIN sheet.rows \subseteq Students
        /\ \A u \in DOMAIN sheet.rows : sheet.rows[u] \in Marks \cup {Null}
    BY DraftHas DEF Sheet
  <2>2. PICK R \in SUBSET Students : sheet.rows \in [R -> Marks \cup {Null}]
    BY <2>1 DEF Draft
  <2>3. typed \in [R -> Marks \cup {Null}]
    BY <1>3, <2>2
  <2> QED BY <2>2, <2>3, DraftIs
<1>5. PICK new : new = [sheet EXCEPT !.rows = typed, !.says = "unsaved"]
  OBVIOUS
<1>6. new \in Sheet /\ new.rows = typed /\ new.read = sheet.read
  BY <1>4, <1>5 DEF Sheet
<1>7. sheets' = [sheets EXCEPT ![t] = new]
  BY <1>2, <1>3, <1>5 DEF Sheet
<1>8. DOMAIN sheet.rows = DOMAIN sheet.read
  BY <1>2 DEF IInv, SheetOK
<1>9. Open(t) /\ DOMAIN new.rows = DOMAIN new.read /\ new.read = sheets[t].read
  BY <1>2, <1>4, <1>6, <1>8
<1> HIDE DEF Type, above, rows
<1>9a. sheets' \in [Teachers -> Sheet \cup {Null}] /\ \A u \in Teachers : SheetOK(u)'
  BY <1>1, <1>6, <1>7, <1>9, SameRead
<1> USE DEF Type, above, rows
<1>10. calls' \in [Workers -> Call] /\ \A v \in Workers : CallOK(v)'
  BY <1>1, CallsStay
<1> QED BY <1>1, <1>9a, <1>10 DEF IInv, RangesOK, RecordIsOK

LEMMA LoseAnswerKeeps ==
  ASSUME IInv, NEW t \in Teachers, LoseAnswer(t), UNCHANGED above
  PROVE  IInv'
<1>1. /\ RecordIsOK' /\ WrittenKept /\ MarksKept
      /\ assessment' \in [exists : BOOLEAN, is_published : BOOLEAN]
  BY RecordStays DEF IInv, RangesOK, LoseAnswer, rows, above
<1>2. Open(t) /\ sheets' = [sheets EXCEPT ![t].waiting = Null] /\ UNCHANGED calls
  BY DEF LoseAnswer
<1>3. PICK sheet \in Sheet : sheet = sheets[t]
  BY <1>2 DEF IInv, RangesOK, Open
<1>4. PICK new : new = [sheet EXCEPT !.waiting = Null]
  OBVIOUS
<1>5. new \in Sheet /\ new.rows = sheet.rows /\ new.read = sheet.read
  BY <1>4 DEF Sheet
<1>6. sheets' = [sheets EXCEPT ![t] = new]
  BY <1>2, <1>3, <1>4
<1>7. DOMAIN new.rows = DOMAIN new.read /\ new.read = sheets[t].read
  BY <1>2, <1>3, <1>5 DEF IInv, SheetOK
<1>8. sheets' \in [Teachers -> Sheet \cup {Null}] /\ \A u \in Teachers : SheetOK(u)'
  BY <1>1, <1>2, <1>5, <1>6, <1>7, SameRead
<1>9. calls' \in [Workers -> Call] /\ \A v \in Workers : CallOK(v)'
  BY <1>1, <1>2, CallsStay
<1> QED BY <1>1, <1>8, <1>9 DEF IInv, RangesOK, RecordIsOK

LEMMA OpenMarkSheetKeeps ==
  ASSUME IInv, NEW t \in Teachers, OpenMarkSheet(t)
  PROVE  IInv'
<1>1. /\ RecordIsOK' /\ WrittenKept /\ MarksKept
      /\ assessment' \in [exists : BOOLEAN, is_published : BOOLEAN]
  BY RecordStays DEF IInv, RangesOK, OpenMarkSheet, rows, above
<1>2. PICK read : read = [s \in {u \in Students : enrolled[u] = "ACTIVE"} |-> marks[s]]
  OBVIOUS
<1>3. PICK new : new = [rows |-> read, read |-> read, says |-> "nothing",
                        header |-> assessment.is_published, waiting |-> Null]
  OBVIOUS
<1>4. sheets' = [sheets EXCEPT ![t] = new] /\ UNCHANGED calls
  BY <1>2, <1>3 DEF OpenMarkSheet, ReadSheet
<1>5. /\ read \in [{u \in Students : enrolled[u] = "ACTIVE"} -> Marks \cup {Null}]
      /\ \A s \in DOMAIN read : s \in Students /\ read[s] = marks[s]
  BY <1>2 DEF IInv, RangesOK
<1>6. read \in Draft
  BY <1>5, DraftIs
<1>7. new \in Sheet /\ new.rows = read /\ new.read = read
  BY <1>3, <1>6 DEF Sheet, Header, IInv, RangesOK
<1>8. ASSUME NEW s \in DOMAIN new.read, new.read[s] # Null
      PROVE  new.read[s] \in written'[s]
  <2>1. s \in Students /\ marks[s] # Null /\ new.read[s] = marks[s]
    BY <1>5, <1>7, <1>8
  <2>2. marks[s] \in written[s]
    BY <2>1 DEF IInv, HistoryOK, Tells
  <2> QED BY <1>1, <2>1, <2>2 DEF WrittenKept
<1>9. sheets' \in [Teachers -> Sheet \cup {Null}] /\ \A u \in Teachers : SheetOK(u)'
  BY <1>1, <1>4, <1>7, <1>8, OneSheet
<1>10. calls' \in [Workers -> Call] /\ \A v \in Workers : CallOK(v)'
  BY <1>1, <1>4, CallsStay
<1> QED BY <1>1, <1>9, <1>10 DEF IInv, RangesOK, RecordIsOK

\* A teacher waits for the call she has sent.
LEMMA SendKeeps ==
  ASSUME IInv, NEW t \in Teachers, NEW w \in Workers, NEW call \in Call, Open(t), Send(t, w, call),
         UNCHANGED <<rows, above>>,
         \A s \in DOMAIN call.rows :
           call.rows[s] \in Marks /\ (s \notin call.typed => call.rows[s] = call.read[s]),
         call.kind # "delete"
  PROVE  IInv'
<1>1. /\ RecordIsOK' /\ WrittenKept /\ MarksKept
      /\ assessment' \in [exists : BOOLEAN, is_published : BOOLEAN]
  BY RecordStays DEF IInv, RangesOK, rows, above
<1>2. PICK new : new = [call EXCEPT !.step = "sent", !.by = t]
  OBVIOUS
<1>3. /\ new \in Call /\ new.kind = call.kind /\ new.step = "sent" /\ new.by = t
      /\ new.rows = call.rows /\ new.typed = call.typed /\ new.read = call.read
  BY <1>2 DEF Call, Steps
<1>4. calls' = [calls EXCEPT ![w] = new] /\ sheets' = [sheets EXCEPT ![t].waiting = w]
  BY <1>2 DEF Send, Take
<1>5. calls'[w] = new
  BY <1>4 DEF IInv, RangesOK
<1>6. \A s \in DOMAIN new.rows : s \in Students
  BY <1>3, DraftHas DEF Call
<1>7. CallOK(w)'
  BY <1>3, <1>5, <1>6 DEF CallOK
<1>8. calls' \in [Workers -> Call] /\ \A v \in Workers : CallOK(v)'
  BY <1>1, <1>3, <1>4, <1>7, OneCall
<1>9. PICK sheet \in Sheet : sheet = sheets[t]
  BY DEF IInv, RangesOK, Open
<1>10. PICK waiting : waiting = [sheet EXCEPT !.waiting = w]
  OBVIOUS
<1>11. waiting \in Sheet /\ waiting.rows = sheet.rows /\ waiting.read = sheet.read
  BY <1>10 DEF Sheet
<1>12. sheets' = [sheets EXCEPT ![t] = waiting]
  BY <1>4, <1>9, <1>10
<1>13. DOMAIN waiting.rows = DOMAIN waiting.read /\ waiting.read = sheets[t].read
  BY <1>9, <1>11 DEF IInv, SheetOK
<1>14. sheets' \in [Teachers -> Sheet \cup {Null}] /\ \A u \in Teachers : SheetOK(u)'
  BY <1>1, <1>11, <1>12, <1>13, SameRead
<1> QED BY <1>1, <1>8, <1>14 DEF IInv, RangesOK, RecordIsOK

LEMMA SaveMarkSheetKeeps ==
  ASSUME IInv, NEW t \in Teachers, NEW w \in Workers, SaveMarkSheet(t, w)
  PROVE  IInv'
<1>1. PICK sheet \in Sheet : sheet = sheets[t]
  BY DEF IInv, RangesOK, Open, SaveMarkSheet
<1>2. PICK payload : payload = Payload(sheet.rows)
  OBVIOUS
<1>3. /\ sheet.rows \in Draft /\ DOMAIN sheet.rows \subseteq Students
      /\ \A s \in DOMAIN sheet.rows : sheet.rows[s] \in Marks \cup {Null}
  BY DraftHas DEF Sheet
<1>4. /\ payload \in [{r \in DOMAIN sheet.rows : sheet.rows[r] # Null} -> Marks]
      /\ \A s \in DOMAIN payload : s \in DOMAIN sheet.rows /\ payload[s] = sheet.rows[s]
  BY <1>2, <1>3 DEF Payload
<1>5. payload \in [{r \in DOMAIN sheet.rows : sheet.rows[r] # Null} -> Marks \cup {Null}]
  BY <1>4
<1>6. payload \in Draft
  BY <1>3, <1>5, DraftIs
<1>7. PICK call : call = [NoCall EXCEPT !.rows = payload, !.typed = Typed(sheet), !.read = sheet.read]
  OBVIOUS
<1>8. /\ call \in Call /\ call.kind = "save" /\ call.rows = payload
      /\ call.typed = Typed(sheet) /\ call.read = sheet.read
  BY <1>3, <1>6, <1>7, EmptyDraft DEF NoCall, Call, Kinds, Steps, Header, Sheet, Typed
<1>9. \A s \in DOMAIN call.rows :
        call.rows[s] \in Marks /\ (s \notin call.typed => call.rows[s] = call.read[s])
  BY <1>4, <1>8 DEF Typed
<1>10. Open(t) /\ Send(t, w, call) /\ UNCHANGED <<rows, above>>
  BY <1>1, <1>2, <1>7 DEF SaveMarkSheet, SendSheet
<1> QED BY <1>8, <1>9, <1>10, SendKeeps

LEMMA PublishKeeps ==
  ASSUME IInv, NEW t \in Teachers, NEW w \in Workers, Publish(t, w)
  PROVE  IInv'
<1>1. PICK call : call = [NoCall EXCEPT !.kind = "publish"]
  OBVIOUS
<1>2. call \in Call /\ call.kind = "publish" /\ call.rows = <<>>
  BY <1>1, EmptyDraft DEF NoCall, Call, Kinds, Steps, Header
<1>3. Open(t) /\ Send(t, w, call) /\ UNCHANGED <<rows, above>>
  BY <1>1 DEF Publish
<1>4. \A s \in DOMAIN call.rows :
        call.rows[s] \in Marks /\ (s \notin call.typed => call.rows[s] = call.read[s])
  BY <1>2, EmptyDraft
<1> QED BY <1>2, <1>3, <1>4, SendKeeps

----------------------------------------------------------------------------
(* On the server.                                                          *)

LEMMA ChangeEnrolmentKeeps ==
  ASSUME IInv, NEW s \in Students, NEW status, ChangeEnrolment(s, status), UNCHANGED above
  PROVE  IInv'
<1>1. /\ RecordIsOK' /\ WrittenKept /\ MarksKept
      /\ assessment' \in [exists : BOOLEAN, is_published : BOOLEAN]
  BY RecordStays DEF IInv, RangesOK, ChangeEnrolment, rows, above
<1>2. UNCHANGED <<sheets, calls>>
  BY DEF ChangeEnrolment
<1>3. sheets' \in [Teachers -> Sheet \cup {Null}] /\ \A u \in Teachers : SheetOK(u)'
  BY <1>1, <1>2, SheetsStay
<1>4. calls' \in [Workers -> Call] /\ \A v \in Workers : CallOK(v)'
  BY <1>1, <1>2, CallsStay
<1> QED BY <1>1, <1>3, <1>4 DEF IInv, RangesOK, RecordIsOK

\* A call that ends without a save.
LEMMA EndKeeps ==
  ASSUME IInv, NEW w \in Workers, NEW ok \in BOOLEAN, NEW header \in BOOLEAN,
         End(w, ok, header), ~Saved(calls[w], ok), UNCHANGED <<rows, above>>
  PROVE  IInv'
<1>1. /\ RecordIsOK' /\ WrittenKept /\ MarksKept
      /\ assessment' \in [exists : BOOLEAN, is_published : BOOLEAN]
  BY RecordStays DEF IInv, RangesOK, rows, above
<1>2. /\ sheets' \in [Teachers -> Sheet \cup {Null}]
      /\ calls' \in [Workers -> Call]
      /\ \A t \in Teachers : SheetOK(t)'
      /\ \A v \in Workers : CallOK(v)'
  BY <1>1, Ends
<1> QED BY <1>1, <1>2 DEF IInv, RangesOK, RecordIsOK

LEMMA FailKeeps ==
  ASSUME IInv, NEW w \in Workers, Fail(w), UNCHANGED above
  PROVE  IInv'
BY EndKeeps DEF Fail, Saved, rows

\* A call takes its next step and no sheet sees it.
LEMMA GotoKeeps ==
  ASSUME IInv, NEW w \in Workers, NEW step \in Steps, Goto(w, step), step # "locked",
         calls[w].step # "idle", UNCHANGED <<rows, above, sheets>>
  PROVE  IInv'
<1>1. /\ RecordIsOK' /\ WrittenKept /\ MarksKept
      /\ assessment' \in [exists : BOOLEAN, is_published : BOOLEAN]
  BY RecordStays DEF IInv, RangesOK, rows, above
<1>2. PICK call \in Call : call = calls[w]
  BY DEF IInv, RangesOK
<1>3. PICK new : new = [call EXCEPT !.step = step]
  OBVIOUS
<1>4. /\ new \in Call /\ new.kind = call.kind /\ new.step = step /\ new.by = call.by
      /\ new.rows = call.rows /\ new.typed = call.typed /\ new.read = call.read
      /\ new.had = call.had
  BY <1>3 DEF Call
<1>5. calls' = [calls EXCEPT ![w] = new]
  BY <1>2, <1>3 DEF Goto
<1>6. calls'[w] = new
  BY <1>5 DEF IInv, RangesOK
<1>7. CallOK(w)
  BY DEF IInv
<1>8. CallOK(w)'
  BY <1>2, <1>4, <1>6, <1>7 DEF CallOK
<1>9. calls' \in [Workers -> Call] /\ \A v \in Workers : CallOK(v)'
  BY <1>1, <1>4, <1>5, <1>8, OneCall
<1>10. sheets' \in [Teachers -> Sheet \cup {Null}] /\ \A u \in Teachers : SheetOK(u)'
  BY <1>1, SheetsStay
<1> QED BY <1>1, <1>9, <1>10 DEF IInv, RangesOK, RecordIsOK

LEMMA ValidateMarksKeeps ==
  ASSUME IInv, NEW w \in Workers, ValidateMarks(w)
  PROVE  IInv'
<1>1. CASE Goto(w, "valid") /\ UNCHANGED sheets
  BY <1>1, GotoKeeps DEF ValidateMarks, At, Steps
<1>2. CASE End(w, FALSE, FALSE)
  BY <1>2, EndKeeps DEF ValidateMarks, Saved
<1> QED BY <1>1, <1>2 DEF ValidateMarks

LEMMA LockKeeps ==
  ASSUME IInv, NEW w \in Workers, Lock(w), UNCHANGED above
  PROVE  IInv'
<1>1. /\ RecordIsOK' /\ WrittenKept /\ MarksKept
      /\ assessment' \in [exists : BOOLEAN, is_published : BOOLEAN]
  BY RecordStays DEF IInv, RangesOK, Lock, rows, above
<1>2. PICK call \in Call : call = calls[w]
  BY DEF IInv, RangesOK
<1>3. PICK new : new = [call EXCEPT !.step = "locked", !.had = Marked]
  OBVIOUS
<1>4. /\ new \in Call /\ new.kind = call.kind /\ new.step = "locked" /\ new.by = call.by
      /\ new.rows = call.rows /\ new.typed = call.typed /\ new.read = call.read
      /\ new.had = Marked
  BY <1>3 DEF Call, Steps, Marked
<1>5. calls' = [calls EXCEPT ![w] = new] /\ call.kind = "save" /\ call.step = "valid"
  BY <1>2, <1>3 DEF Lock, At
<1>6. calls'[w] = new /\ UNCHANGED <<marks, sheets>>
  BY <1>5 DEF IInv, RangesOK, Lock, rows
<1>7. CallOK(w)
  BY DEF IInv
<1>8. CallOK(w)'
  BY <1>2, <1>4, <1>5, <1>6, <1>7 DEF CallOK, Marked
<1>9. calls' \in [Workers -> Call] /\ \A v \in Workers : CallOK(v)'
  BY <1>1, <1>4, <1>5, <1>8, OneCall
<1>10. sheets' \in [Teachers -> Sheet \cup {Null}] /\ \A u \in Teachers : SheetOK(u)'
  BY <1>1, <1>6, SheetsStay
<1> QED BY <1>1, <1>9, <1>10 DEF IInv, RangesOK, RecordIsOK

\* An audit row that starts from the last value, or that of a new mark.
LEMMA LinkGrows ==
  ASSUME NEW h \in Seq(Entry), NEW e \in Entry, NEW n \in Nat, Linked(h, n),
         \/ e.old = Null /\ Len(h) = n
         \/ e.old # Null /\ Len(h) > n /\ e.old = h[Len(h)].new
  PROVE  Linked(Append(h, e), n)
<1>1. PICK longer : longer = Append(h, e)
  OBVIOUS
<1>2. PICK k \in Nat : k = Len(h)
  OBVIOUS
<1>3. /\ DOMAIN h = 1 .. k /\ DOMAIN longer = 1 .. k + 1 /\ longer[k + 1] = e
      /\ \A i \in 1 .. k : longer[i] = h[i]
  BY <1>1, <1>2
<1>4. ASSUME NEW i \in 1 .. k + 1
      PROVE  /\ longer[i].old = Null \/ (i > 1 /\ longer[i].old = longer[i - 1].new)
             /\ i > n => (longer[i].old = Null <=> i = n + 1)
  <2>1. CASE i = k + 1
    <3>1. longer[i] = e
      BY <1>3, <2>1
    <3>2. CASE e.old = Null /\ k = n
      BY <2>1, <3>1, <3>2
    <3>3. CASE e.old # Null /\ k > n /\ e.old = h[k].new
      <4>1. i > 1 /\ i - 1 = k /\ k \in 1 .. k /\ i # n + 1
        BY <2>1, <3>3
      <4>2. longer[i - 1] = h[k]
        BY <1>3, <4>1
      <4> QED BY <3>1, <3>3, <4>1, <4>2
    <3> QED BY <1>2, <3>2, <3>3
  <2>2. CASE i # k + 1
    <3>1. i \in 1 .. k /\ (i > 1 => i - 1 \in 1 .. k)
      BY <2>2
    <3>2. longer[i] = h[i] /\ (i > 1 => longer[i - 1] = h[i - 1])
      BY <1>3, <3>1
    <3>3. /\ h[i].old = Null \/ (i > 1 /\ h[i].old = h[i - 1].new)
          /\ i > n => (h[i].old = Null <=> i = n + 1)
      BY <1>3, <3>1 DEF Linked, Follows
    <3> QED BY <3>2, <3>3
  <2> QED BY <2>1, <2>2
<1> QED BY <1>1, <1>3, <1>4 DEF Linked, Follows

LEMMA SaysWhat ==
  /\ Says(Null) = Null /\ Null \notin Marks
  /\ \A m \in Marks : Says(m) \in Marks /\ Says(m) # Null
BY ClassroomAssumption DEF Says

\* A mark is entered or corrected, and so it is told: by an audit row,
LEMMA ToldByRow ==
  ASSUME NEW h \in Seq(Entry), NEW a \in Seq(Teachers), NEW n \in Nat,
         NEW m \in Marks \cup {Null}, NEW k \in Nat, NEW w, Tells(h, a, n, m, k, w),
         NEW new \in Marks, NEW more, new \in more,
         NEW e \in Entry, e.old = Says(m), e.new = Says(new),
         NEW times, times = IF m = Null THEN 0 ELSE k + 1
  PROVE  Tells(Append(h, e), a, n, new, times, more)
<1>1. PICK longer : longer = Append(h, e)
  OBVIOUS
<1>2. PICK l \in Nat : l = Len(h)
  OBVIOUS
<1>3. Len(longer) = l + 1 /\ longer[l + 1] = e /\ new # Null
  BY <1>1, <1>2, SaysWhat
<1>4. PICK c \in Nat : c = Len(a)
  OBVIOUS
<1>5. l + c = n + times /\ times \in Nat
  BY <1>2, <1>4 DEF Tells
<1>6. l + 1 + c = n + times + 1
  BY <1>5
<1>7. ASSUME a = <<>> PROVE Linked(longer, n)
  <2>1. c = 0 /\ Linked(h, n) /\ (m # Null => h[l].new = Says(m))
    BY <1>2, <1>4, <1>7 DEF Tells
  <2>2. CASE m = Null
    <3>1. e.old = Null /\ Len(h) = n
      BY <1>2, <1>5, <2>1, <2>2, SaysWhat
    <3> QED BY <1>1, <2>1, <3>1, LinkGrows
  <2>3. CASE m # Null
    <3>1. e.old # Null /\ Len(h) > n /\ e.old = h[Len(h)].new
      <4>1. e.old # Null /\ e.old = h[Len(h)].new
        BY <1>2, <2>1, <2>3, SaysWhat
      <4>2. l = n + k + 1
        BY <1>5, <2>1, <2>3
      <4> QED BY <1>2, <4>1, <4>2
    <3> QED BY <1>1, <2>1, <3>1, LinkGrows
  <2> QED BY <2>2, <2>3
<1>8. /\ Len(longer) + Len(a) = n + (IF new = Null THEN 0 ELSE times + 1)
      /\ longer[Len(longer)].new = Says(new)
  BY <1>3, <1>4, <1>5, <1>6
<1> QED BY <1>1, <1>3, <1>7, <1>8 DEF Tells

\* or by an alarm.
LEMMA ToldByAlarm ==
  ASSUME NEW h \in Seq(Entry), NEW a \in Seq(Teachers), NEW n \in Nat,
         NEW m \in Marks \cup {Null}, NEW k \in Nat, NEW w, Tells(h, a, n, m, k, w),
         NEW new \in Marks, NEW more, new \in more, NEW t \in Teachers,
         NEW times, times = IF m = Null THEN 0 ELSE k + 1
  PROVE  Tells(h, Append(a, t), n, new, times, more)
<1>1. PICK longer : longer = Append(a, t)
  OBVIOUS
<1>2. PICK l, c \in Nat : l = Len(h) /\ c = Len(a)
  OBVIOUS
<1>3. Len(longer) = c + 1 /\ longer # <<>> /\ new # Null
  BY <1>1, <1>2, SaysWhat
<1>4. l + c = n + times /\ times \in Nat
  BY <1>2 DEF Tells
<1>5. l + (c + 1) = n + (times + 1) /\ l \in Nat
  BY <1>2, <1>4
<1> QED BY <1>1, <1>2, <1>3, <1>5 DEF Tells

LEMMA HistoryIs ==
  ASSUME NEW s
  PROVE  HistoryOK(s)' <=> Tells(trail'[s], alarms'[s], before'[s], marks'[s], edits'[s], written'[s])
BY DEF HistoryOK, Tells, Linked, Follows, Says

\* What a save that is not refused does to one student.
LEMMA OneMark ==
  ASSUME IInv, NEW w \in Workers, NEW call \in Call, call = calls[w], At(w, "save", "locked"),
         ~Refused(call), WriteRows(call),
         NEW touched, touched = Created(call) \cup Changed(call),
         NEW failed \in SUBSET touched, MayFail(failed),
         trail' = Recorded(trail, touched \ failed, call), alarms' = Alarmed(failed, call),
         written' = [s \in Students |-> written[s] \cup ({marks'[s]} \ {Null})],
         UNCHANGED before, NEW s \in Students
  PROVE  /\ marks'[s] \in Marks \cup {Null} /\ (marks[s] # Null => marks'[s] # Null)
         /\ edits'[s] \in Nat /\ edits'[s] <= edits[s] + 1
         /\ alarms'[s] \in Seq(Teachers) /\ Len(alarms'[s]) <= MaxAlarms
         /\ trail'[s] \in Seq(Entry)
         /\ written'[s] \in SUBSET Marks /\ written[s] \subseteq written'[s]
         /\ s \in DOMAIN call.rows => call.rows[s] \in written'[s]
         /\ HistoryOK(s)'
<1>1. CallOK(w) /\ HistoryOK(s) /\ call.kind = "save" /\ call.step = "locked"
  BY DEF IInv, At
<1>2. /\ call.by \in Teachers
      /\ \A u \in DOMAIN call.rows : call.rows[u] \in Marks
      /\ \A u \in call.had : marks[u] # Null
  BY <1>1 DEF CallOK
<1>3. /\ marks[s] \in Marks \cup {Null} /\ edits[s] \in Nat /\ before[s] \in Nat
      /\ alarms[s] \in Seq(Teachers) /\ Len(alarms[s]) <= MaxAlarms
      /\ trail[s] \in Seq(Entry) /\ written[s] \in SUBSET Marks
      /\ Null \notin Marks /\ MaxAlarms \in Nat
  BY ClassroomAssumption DEF IInv, RangesOK
<1>5. /\ marks'[s] = IF s \in touched THEN call.rows[s] ELSE marks[s]
      /\ edits'[s] = edits[s] + (IF s \in Changed(call) THEN 1 ELSE 0)
      /\ trail'[s] = IF s \in touched \ failed THEN Append(trail[s], AuditRow(s, call)) ELSE trail[s]
      /\ alarms'[s] = IF s \in failed THEN Append(alarms[s], call.by) ELSE alarms[s]
      /\ written'[s] = written[s] \cup ({marks'[s]} \ {Null})
      /\ before'[s] = before[s]
  BY DEF WriteRows, Recorded, Alarmed
<1>6. /\ s \in Changed(call) => s \in touched /\ marks[s] # Null
      /\ s \in touched /\ s \notin Changed(call) => marks[s] = Null
      /\ s \in touched => s \in DOMAIN call.rows /\ call.rows[s] \in Marks
  BY <1>2 DEF Created, Changed, Collides, Refused
<1>7. s \in DOMAIN call.rows /\ s \notin touched => call.rows[s] = marks[s] /\ marks[s] # Null
  BY <1>2 DEF Created, Changed
<1>8. /\ marks'[s] \in Marks \cup {Null} /\ (marks[s] # Null => marks'[s] # Null)
      /\ edits'[s] \in Nat /\ edits'[s] <= edits[s] + 1
      /\ written'[s] \in SUBSET Marks /\ written[s] \subseteq written'[s]
      /\ s \in DOMAIN call.rows => call.rows[s] \in written'[s]
  <2>1. marks'[s] \in Marks \cup {Null} /\ (marks[s] # Null => marks'[s] # Null)
    BY <1>3, <1>5, <1>6
  <2>2. edits'[s] \in Nat /\ edits'[s] <= edits[s] + 1
    BY <1>3, <1>5
  <2>3. written'[s] \in SUBSET Marks /\ written[s] \subseteq written'[s]
    BY <1>3, <1>5, <2>1
  <2>4. ASSUME s \in DOMAIN call.rows PROVE call.rows[s] \in written'[s]
    <3>1. call.rows[s] = marks'[s] /\ marks'[s] # Null
      BY <2>4, <1>3, <1>5, <1>6, <1>7
    <3> QED BY <1>5, <3>1
  <2> QED BY <2>1, <2>2, <2>3, <2>4
<1>9. CASE s \notin touched
  <2>1. /\ marks'[s] = marks[s] /\ edits'[s] = edits[s] /\ trail'[s] = trail[s]
        /\ alarms'[s] = alarms[s] /\ before'[s] = before[s]
    BY <1>3, <1>5, <1>6, <1>9
  <2>2. Tells(trail[s], alarms[s], before[s], marks[s], edits[s], written'[s])
    BY <1>1, <1>8 DEF HistoryOK, Tells
  <2>3. HistoryOK(s)'
    BY <2>1, <2>2, HistoryIs
  <2> QED BY <1>3, <1>8, <2>1, <2>3
<1>10. CASE s \in touched
  <2>1. /\ marks'[s] = call.rows[s] /\ marks'[s] \in Marks /\ marks'[s] # Null
        /\ marks'[s] \in written'[s] /\ before'[s] = before[s]
    BY <1>3, <1>5, <1>6, <1>8, <1>10
  <2>2. edits'[s] = IF marks[s] = Null THEN 0 ELSE edits[s] + 1
    BY <1>1, <1>3, <1>5, <1>6, <1>10 DEF HistoryOK, Tells
  <2>3. Tells(trail[s], alarms[s], before[s], marks[s], edits[s], written[s])
    BY <1>1 DEF HistoryOK
  <2>4. CASE s \in failed
    <3>1. /\ alarms'[s] = Append(alarms[s], call.by) /\ trail'[s] = trail[s]
          /\ Len(alarms[s]) < MaxAlarms
      BY <1>5, <2>4 DEF MayFail
    <3>2. alarms'[s] \in Seq(Teachers) /\ Len(alarms'[s]) <= MaxAlarms
      BY <1>2, <1>3, <3>1
    <3>3. Tells(trail[s], Append(alarms[s], call.by), before[s], marks'[s], edits'[s], written'[s])
      BY <1>2, <1>3, <2>1, <2>2, <2>3, ToldByAlarm
    <3>4. HistoryOK(s)'
      BY <2>1, <3>1, <3>3, HistoryIs
    <3> QED BY <1>3, <1>8, <3>1, <3>2, <3>4
  <2>5. CASE s \notin failed
    <3>1. PICK e : e = AuditRow(s, call)
      OBVIOUS
    <3>2. e \in Entry /\ e.old = Says(marks[s]) /\ e.new = Says(marks'[s])
      <4>1. Says(marks[s]) \in Marks \cup {Null} /\ Says(call.rows[s]) \in Marks
        BY <1>3, <1>6, <1>10, SaysWhat
      <4> QED BY <1>2, <2>1, <3>1, <4>1 DEF AuditRow, Entry
    <3>3. trail'[s] = Append(trail[s], e) /\ alarms'[s] = alarms[s]
      BY <1>5, <1>10, <2>5, <3>1
    <3>4. trail'[s] \in Seq(Entry)
      <4>1. trail[s] \in Seq(Entry) /\ e \in Entry
        BY <1>3, <3>2
      <4>2. PICK h \in Seq(Entry) : h = trail[s]
        BY <4>1
      <4>3. Append(h, e) \in Seq(Entry)
        BY <4>1
      <4> QED BY <3>3, <4>2, <4>3
    <3>5. Tells(Append(trail[s], e), alarms[s], before[s], marks'[s], edits'[s], written'[s])
      BY <1>3, <2>1, <2>2, <2>3, <3>2, ToldByRow
    <3>6. HistoryOK(s)'
      BY <2>1, <3>3, <3>5, HistoryIs
    <3> QED BY <1>3, <1>8, <3>3, <3>4, <3>6
  <2> QED BY <2>4, <2>5
<1> QED BY <1>9, <1>10

LEMMA CommitMarksKeeps ==
  ASSUME IInv, NEW w \in Workers, CommitMarks(w)
  PROVE  IInv'
<1>1. PICK call \in Call : call = calls[w]
  BY DEF IInv, RangesOK
<1>2. CASE Refused(call)
  <2>1. End(w, FALSE, FALSE) /\ UNCHANGED <<rows, above>> /\ ~Saved(calls[w], FALSE)
    BY <1>1, <1>2 DEF CommitMarks, Saved, above
  <2> QED BY <2>1, EndKeeps
<1>3. CASE ~Refused(call)
  <2>1. PICK touched : touched = Created(call) \cup Changed(call)
    OBVIOUS
  <2>2. /\ At(w, "save", "locked") /\ WriteRows(call) /\ End(w, TRUE, assessment.is_published)
        /\ written' = [s \in Students |-> written[s] \cup ({marks'[s]} \ {Null})]
        /\ UNCHANGED <<assessment, told, before>>
    BY <1>1, <1>3 DEF CommitMarks
  <2>3. PICK failed \in SUBSET touched :
          /\ MayFail(failed)
          /\ trail' = Recorded(trail, touched \ failed, call)
          /\ alarms' = Alarmed(failed, call)
    BY <1>1, <1>3, <2>1 DEF CommitMarks
  <2>4. ASSUME NEW s \in Students
        PROVE  /\ marks'[s] \in Marks \cup {Null} /\ (marks[s] # Null => marks'[s] # Null)
               /\ edits'[s] \in Nat
               /\ alarms'[s] \in Seq(Teachers) /\ Len(alarms'[s]) <= MaxAlarms
               /\ trail'[s] \in Seq(Entry)
               /\ written'[s] \in SUBSET Marks /\ written[s] \subseteq written'[s]
               /\ s \in DOMAIN call.rows => call.rows[s] \in written'[s]
               /\ HistoryOK(s)'
    BY <1>1, <1>3, <2>1, <2>2, <2>3, <2>4, OneMark
  <2>5. /\ marks' \in [Students -> Marks \cup {Null}] /\ edits' \in [Students -> Nat]
        /\ alarms' \in [Students -> Seq(Teachers)] /\ trail' \in [Students -> Seq(Entry)]
        /\ written' \in [Students -> SUBSET Marks]
    <3>1. /\ marks' = [s \in Students |-> marks'[s]] /\ edits' = [s \in Students |-> edits'[s]]
          /\ alarms' = [s \in Students |-> alarms'[s]] /\ trail' = [s \in Students |-> trail'[s]]
          /\ written' = [s \in Students |-> written'[s]]
      BY <2>2, <2>3 DEF WriteRows, Recorded, Alarmed
    <3>2. /\ \A s \in Students : marks'[s] \in Marks \cup {Null}
          /\ \A s \in Students : edits'[s] \in Nat
          /\ \A s \in Students : alarms'[s] \in Seq(Teachers)
          /\ \A s \in Students : trail'[s] \in Seq(Entry)
          /\ \A s \in Students : written'[s] \in SUBSET Marks
      BY <2>4
    <3>3. marks' \in [Students -> Marks \cup {Null}] /\ edits' \in [Students -> Nat]
      BY <3>1, <3>2
    <3>4. alarms' \in [Students -> Seq(Teachers)] /\ trail' \in [Students -> Seq(Entry)]
      BY <3>1, <3>2
    <3>5. written' \in [Students -> SUBSET Marks]
      BY <3>1, <3>2
    <3> QED BY <3>3, <3>4, <3>5
  <2>6. WrittenKept /\ MarksKept
    BY <2>4 DEF WrittenKept, MarksKept
  <2>7. ToldOnlyOfAMark'
    BY <2>2, <2>4 DEF ToldOnlyOfAMark, IInv, RangesOK
  <2>8. ASSUME NEW s \in DOMAIN calls[w].rows PROVE calls[w].rows[s] \in written'[s]
    <3>1. CallOK(w) /\ calls[w].kind = "save" /\ calls[w].step = "locked"
      BY <2>2 DEF IInv, At
    <3>2. s \in Students
      BY <3>1 DEF CallOK
    <3> QED BY <1>1, <2>4, <3>2
  <2>9. /\ sheets' \in [Teachers -> Sheet \cup {Null}]
        /\ calls' \in [Workers -> Call]
        /\ \A t \in Teachers : SheetOK(t)'
        /\ \A v \in Workers : CallOK(v)'
    <3>1. assessment.is_published \in BOOLEAN
      BY DEF IInv, RangesOK
    <3> QED BY <3>1, <2>2, <2>6, <2>8, Ends
  <2> QED BY <2>2, <2>4, <2>5, <2>7, <2>9 DEF IInv, RangesOK
<1> QED BY <1>2, <1>3

LEMMA SavePublishedKeeps ==
  ASSUME IInv, NEW w \in Workers, SavePublished(w)
  PROVE  IInv'
<1>1. /\ assessment' \in [exists : BOOLEAN, is_published : BOOLEAN]
      /\ UNCHANGED <<marks, edits, alarms, trail, told, written, before>>
  BY DEF SavePublished, rows, IInv, RangesOK
<1>2. RecordIsOK' /\ WrittenKept /\ MarksKept
  BY <1>1, RecordStays
<1>3. CASE End(w, FALSE, FALSE)
  <2>1. ~Saved(calls[w], FALSE)
    BY DEF Saved
  <2>2. /\ sheets' \in [Teachers -> Sheet \cup {Null}]
        /\ calls' \in [Workers -> Call]
        /\ \A t \in Teachers : SheetOK(t)'
        /\ \A v \in Workers : CallOK(v)'
    BY <1>2, <1>3, <2>1, Ends
  <2> QED BY <1>1, <1>2, <2>2 DEF IInv, RangesOK, RecordIsOK
<1>4. CASE Goto(w, "telling") /\ UNCHANGED sheets
  <2>1. PICK call \in Call : call = calls[w]
    BY DEF IInv, RangesOK
  <2>2. PICK new : new = [call EXCEPT !.step = "telling"]
    OBVIOUS
  <2>3. new \in Call /\ new.kind = call.kind /\ new.step = "telling" /\ call.kind = "publish"
    BY <2>1, <2>2 DEF Call, Steps, SavePublished, At
  <2>4. calls' = [calls EXCEPT ![w] = new]
    BY <1>4, <2>1, <2>2 DEF Goto
  <2>5. calls'[w] = new
    BY <2>4 DEF IInv, RangesOK
  <2>6. CallOK(w)'
    BY <2>3, <2>5 DEF CallOK
  <2>7. calls' \in [Workers -> Call] /\ \A v \in Workers : CallOK(v)'
    BY <1>2, <2>3, <2>4, <2>6, OneCall
  <2>8. sheets' \in [Teachers -> Sheet \cup {Null}] /\ \A u \in Teachers : SheetOK(u)'
    BY <1>2, <1>4, SheetsStay
  <2> QED BY <1>1, <1>2, <2>7, <2>8 DEF IInv, RangesOK, RecordIsOK
<1> QED BY <1>3, <1>4 DEF SavePublished

LEMMA TellStudentsKeeps ==
  ASSUME IInv, NEW w \in Workers, TellStudents(w)
  PROVE  IInv'
<1>1. /\ UNCHANGED <<marks, edits, alarms, trail, written, before, assessment>>
      /\ told' = told \cup Marked
      /\ End(w, TRUE, assessment.is_published) /\ ~Saved(calls[w], TRUE)
  BY DEF TellStudents, ToTell, rows, At, Saved
<1>2. \A s \in Students : HistoryOK(s) /\ HistoryOK(s)'
  <2> SUFFICES ASSUME NEW s \in Students PROVE HistoryOK(s) /\ HistoryOK(s)'
    OBVIOUS
  <2> HistoryOK(s)
    BY DEF IInv
  <2> QED BY <1>1 DEF HistoryOK, Tells, Linked, Follows, Says
<1>3. \A s \in Marked : s \in Students /\ written[s] # {}
  BY <1>2 DEF Marked, HistoryOK, Tells
<1>4. ToldOnlyOfAMark' /\ told' \subseteq Students
  BY <1>1, <1>3 DEF ToldOnlyOfAMark, IInv, RangesOK
<1>5. WrittenKept /\ MarksKept
  BY <1>1 DEF WrittenKept, MarksKept
<1>6. assessment.is_published \in BOOLEAN
  BY DEF IInv, RangesOK
<1>7. /\ sheets' \in [Teachers -> Sheet \cup {Null}]
      /\ calls' \in [Workers -> Call]
      /\ \A t \in Teachers : SheetOK(t)'
      /\ \A v \in Workers : CallOK(v)'
  BY <1>1, <1>5, <1>6, Ends
<1> QED BY <1>1, <1>2, <1>4, <1>7 DEF IInv, RangesOK

\* A call from elsewhere than a sheet begins.
LEMMA TakeKeeps ==
  ASSUME IInv, NEW w \in Workers, NEW call \in Call, Take(w, call), UNCHANGED <<rows, sheets, above>>,
         call.kind # "save", call.kind = "delete" => call.had = {}
  PROVE  IInv'
<1>1. /\ RecordIsOK' /\ WrittenKept /\ MarksKept
      /\ assessment' \in [exists : BOOLEAN, is_published : BOOLEAN]
  BY RecordStays DEF IInv, RangesOK, rows, above
<1>2. calls' = [calls EXCEPT ![w] = call]
  BY DEF Take
<1>3. calls'[w] = call
  BY <1>2 DEF IInv, RangesOK
<1>4. CallOK(w)'
  BY <1>3 DEF CallOK
<1>5. calls' \in [Workers -> Call] /\ \A v \in Workers : CallOK(v)'
  BY <1>1, <1>2, <1>4, OneCall
<1>6. sheets' \in [Teachers -> Sheet \cup {Null}] /\ \A u \in Teachers : SheetOK(u)'
  BY <1>1, SheetsStay
<1> QED BY <1>1, <1>5, <1>6 DEF IInv, RangesOK, RecordIsOK

LEMMA ReadForEditKeeps ==
  ASSUME IInv, NEW w \in Workers, ReadForEdit(w)
  PROVE  IInv'
<1>1. PICK flag \in BOOLEAN : flag = assessment.is_published
  BY DEF IInv, RangesOK
<1>2. PICK call : call = [NoCall EXCEPT !.kind = "edit", !.step = "valid", !.copy.flag = flag]
  OBVIOUS
<1>3. call \in Call /\ call.kind = "edit"
  BY <1>1, <1>2, EmptyDraft DEF NoCall, Call, Kinds, Steps, Header
<1>4. Take(w, call) /\ UNCHANGED <<rows, sheets, above>>
  BY <1>1, <1>2 DEF ReadForEdit, rows
<1> QED BY <1>3, <1>4, TakeKeeps

LEMMA CheckDeleteKeeps ==
  ASSUME IInv, NEW w \in Workers, CheckDelete(w)
  PROVE  IInv'
<1>1. PICK call : call = [NoCall EXCEPT !.kind = "delete", !.step = "valid", !.had = {}]
  OBVIOUS
<1>2. call \in Call /\ call.kind = "delete" /\ call.had = {}
  BY <1>1, EmptyDraft DEF NoCall, Call, Kinds, Steps, Header
<1>3. Marked = {}
  BY DEF CheckDelete, NoMarksYet
<1>4. Take(w, call) /\ UNCHANGED <<rows, sheets, above>>
  BY <1>1, <1>3 DEF CheckDelete, rows
<1> QED BY <1>2, <1>4, TakeKeeps

LEMMA SaveEditKeeps ==
  ASSUME IInv, NEW w \in Workers, SaveEdit(w)
  PROVE  IInv'
<1>1. PICK flag \in BOOLEAN : flag = calls[w].copy.flag
  BY DEF IInv, RangesOK, Call, Header
<1>2. /\ assessment' \in [exists : BOOLEAN, is_published : BOOLEAN]
      /\ UNCHANGED <<marks, edits, alarms, trail, told, written, before, sheets>>
      /\ calls' = [calls EXCEPT ![w] = NoCall]
  BY <1>1 DEF SaveEdit, WrittenBack, Drop, rows
<1>3. RecordIsOK' /\ WrittenKept /\ MarksKept
  BY <1>2, RecordStays
<1>4. CallOK(w)'
  <2>1. calls'[w] = NoCall
    BY <1>2 DEF IInv, RangesOK
  <2> QED BY <2>1, IdleIsOK
<1>5. calls' \in [Workers -> Call] /\ \A v \in Workers : CallOK(v)'
  BY <1>2, <1>3, <1>4, NoCallIsCall, OneCall
<1>6. sheets' \in [Teachers -> Sheet \cup {Null}] /\ \A u \in Teachers : SheetOK(u)'
  BY <1>2, <1>3, SheetsStay
<1> QED BY <1>2, <1>3, <1>5, <1>6 DEF IInv, RangesOK, RecordIsOK

LEMMA DeleteKeeps ==
  ASSUME IInv, NEW w \in Workers, Delete(w)
  PROVE  IInv'
<1>1. /\ assessment' \in [exists : BOOLEAN, is_published : BOOLEAN]
      /\ marks' = [s \in Students |-> Null] /\ edits' = [s \in Students |-> 0]
      /\ before' = [s \in Students |-> Len(trail[s]) + Len(alarms[s])]
      /\ UNCHANGED <<alarms, trail, told, written, sheets>>
  BY DEF Delete, IInv, RangesOK
<1>2. ASSUME NEW s \in Students
      PROVE  HistoryOK(s)' /\ before'[s] \in Nat
  <2>1. /\ HistoryOK(s) /\ trail[s] \in Seq(Entry) /\ alarms[s] \in Seq(Teachers)
        /\ before[s] \in Nat /\ edits[s] \in Nat
    BY DEF IInv, RangesOK
  <2>2. PICK l, c \in Nat : l = Len(trail[s]) /\ c = Len(alarms[s])
    BY <2>1
  <2>3. /\ marks'[s] = Null /\ edits'[s] = 0 /\ alarms'[s] = alarms[s] /\ trail'[s] = trail[s]
        /\ before'[s] = l + c /\ before'[s] \in Nat
    <3>1. marks'[s] = Null /\ edits'[s] = 0 /\ alarms'[s] = alarms[s] /\ trail'[s] = trail[s]
      BY <1>1
    <3>2. before'[s] = Len(trail[s]) + Len(alarms[s])
      BY <1>1
    <3>3. before'[s] = l + c
      BY <2>2, <3>2, Zenon
    <3>4. l + c \in Nat
      OBVIOUS
    <3> QED BY <3>1, <3>3, <3>4
  <2>4. ASSUME alarms[s] = <<>> PROVE Linked(trail[s], l + c)
    <3>1. c = 0 /\ Linked(trail[s], before[s]) /\ DOMAIN trail[s] = 1 .. l
      BY <2>1, <2>2, <2>4 DEF HistoryOK, Tells
    <3>2. \A i \in 1 .. l : ~(i > l + c)
      BY <3>1
    <3> QED BY <3>1, <3>2 DEF Linked
  <2>5. Tells(trail[s], alarms[s], l + c, Null, 0, written'[s])
    <3>1. l + c = l + c + 0
      OBVIOUS
    <3>2. Len(trail[s]) + Len(alarms[s]) = l + c + 0
      BY <2>2, <3>1
    <3> QED BY <2>4, <3>2, Zenon DEF Tells
  <2>6. HistoryOK(s)'
    BY <2>3, <2>5, HistoryIs
  <2> QED BY <2>3, <2>6
<1>3. ToldOnlyOfAMark'
  BY <1>1 DEF ToldOnlyOfAMark, IInv
<1>4. ASSUME NEW v \in Workers PROVE calls'[v] \in Call /\ CallOK(v)'
  <2>1. CASE v = w
    <3>1. calls'[v] = NoCall
      BY <2>1 DEF Delete
    <3> QED BY <3>1, NoCallIsCall, IdleIsOK
  <2>2. CASE v # w /\ At(v, "save", "locked")
    <3>1. PICK call \in Call : call = calls[v]
      BY DEF IInv, RangesOK
    <3>2. PICK new : new = [call EXCEPT !.had = {}]
      OBVIOUS
    <3>3. /\ new \in Call /\ new.kind = call.kind /\ new.step = call.step /\ new.by = call.by
          /\ new.rows = call.rows /\ new.typed = call.typed /\ new.read = call.read
          /\ new.had = {}
      BY <3>2 DEF Call
    <3>4. calls'[v] = new
      BY <2>2, <3>1, <3>2 DEF Delete
    <3>5. CallOK(v)
      BY DEF IInv
    <3>6. CallOK(v)'
      BY <3>1, <3>3, <3>4, <3>5 DEF CallOK
    <3> QED BY <3>3, <3>4, <3>6
  <2>3. CASE v # w /\ ~At(v, "save", "locked")
    <3>1. calls'[v] = calls[v]
      BY <2>3 DEF Delete
    <3>2. CallOK(v)
      BY DEF IInv
    <3>3. CallOK(v)'
      BY <2>3, <3>1, <3>2 DEF CallOK, At
    <3> QED BY <3>1, <3>3 DEF IInv, RangesOK
  <2> QED BY <2>1, <2>2, <2>3
<1>5. calls' \in [Workers -> Call]
  BY <1>4 DEF Delete
<1>6. sheets' \in [Teachers -> Sheet \cup {Null}] /\ \A u \in Teachers : SheetOK(u)'
  BY <1>1, SheetsStay DEF WrittenKept
<1>7. /\ marks' \in [Students -> Marks \cup {Null}] /\ edits' \in [Students -> Nat]
      /\ before' \in [Students -> Nat]
  BY <1>1, <1>2
<1> QED BY <1>1, <1>2, <1>3, <1>4, <1>5, <1>6, <1>7 DEF IInv, RangesOK

----------------------------------------------------------------------------
LEMMA InitIInv == MarkInit => IInv
<1> SUFFICES ASSUME MarkInit PROVE IInv
  OBVIOUS
<1>1. RangesOK
  BY NoCallIsCall, ClassroomAssumption DEF MarkInit, ClassInit, RangesOK
<1>2. ASSUME NEW s \in Students PROVE HistoryOK(s)
  <2>1. /\ marks[s] = Null /\ edits[s] = 0 /\ alarms[s] = <<>> /\ trail[s] = <<>>
        /\ before[s] = 0
    BY DEF MarkInit, ClassInit
  <2> QED BY <2>1 DEF HistoryOK, Tells, Linked
<1>3. ASSUME NEW t \in Teachers PROVE SheetOK(t)
  BY DEF MarkInit, ClassInit, SheetOK, Open
<1>4. ASSUME NEW w \in Workers PROVE CallOK(w)
  BY DEF MarkInit, ClassInit, CallOK, NoCall
<1>5. ToldOnlyOfAMark
  BY DEF MarkInit, ToldOnlyOfAMark
<1> QED BY <1>1, <1>2, <1>3, <1>4, <1>5 DEF IInv

LEMMA NextIInv == IInv /\ [MarkNext]_markVars => IInv'
<1> SUFFICES ASSUME IInv, [MarkNext]_markVars PROVE IInv'
  OBVIOUS
<1>1. CASE UNCHANGED markVars
  BY <1>1 DEF markVars, classVars, IInv, RangesOK, HistoryOK, Tells, Linked, Follows, Says,
     SheetOK, CallOK, Open, ToldOnlyOfAMark, rows
<1>2. CASE ClassNext /\ UNCHANGED above
  <2>1. ASSUME NEW t \in Teachers, LoseAnswer(t) PROVE IInv'
    BY <1>2, <2>1, LoseAnswerKeeps
  <2>2. ASSUME NEW t \in Teachers, NEW s \in Students, NEW m \in Marks \cup {Null}, Type(t, s, m)
        PROVE  IInv'
    BY <1>2, <2>2, TypeKeeps
  <2>3. ASSUME NEW w \in Workers, Lock(w) PROVE IInv'
    BY <1>2, <2>3, LockKeeps
  <2>4. ASSUME NEW w \in Workers, Fail(w) PROVE IInv'
    BY <1>2, <2>4, FailKeeps
  <2>5. ASSUME NEW change \in Leaving, ChangeEnrolment(change[1], change[2]) PROVE IInv'
    <3>1. change[1] \in Students
      BY ClassroomAssumption
    <3> QED BY <1>2, <2>5, <3>1, ChangeEnrolmentKeeps
  <2> QED BY <1>2, <2>1, <2>2, <2>3, <2>4, <2>5 DEF ClassNext
<1>3. ASSUME NEW t \in Teachers, OpenMarkSheet(t) PROVE IInv'
  BY <1>3, OpenMarkSheetKeeps
<1>4. ASSUME NEW t \in Teachers, NEW w \in Workers, SaveMarkSheet(t, w) \/ Publish(t, w) PROVE IInv'
  BY <1>4, SaveMarkSheetKeeps, PublishKeeps
<1>5. ASSUME NEW w \in Workers,
             \/ ValidateMarks(w) \/ CommitMarks(w) \/ SavePublished(w) \/ TellStudents(w)
             \/ ReadForEdit(w) \/ SaveEdit(w) \/ CheckDelete(w) \/ Delete(w)
      PROVE  IInv'
  BY <1>5, ValidateMarksKeeps, CommitMarksKeeps, SavePublishedKeeps, TellStudentsKeeps,
     ReadForEditKeeps, SaveEditKeeps, CheckDeleteKeeps, DeleteKeeps
<1> QED BY <1>1, <1>2, <1>3, <1>4, <1>5 DEF MarkNext

LEMMA IInvHolds == MarkSpec => []IInv
BY InitIInv, NextIInv, PTL DEF MarkSpec

\* With several teachers saving stale sheets, and an assessment deleted and
\* written back, each entry and correction of a mark has left an audit row or an
\* alarm, and without alarms the rows are a chain (services.py:116).
THEOREM TrailIsTheHistoryHolds == MarkSpec => []TrailIsTheHistory
<1>1. IInv => TrailIsTheHistory
  <2> SUFFICES ASSUME IInv, NEW s \in Students
               PROVE  /\ Len(trail[s]) + Len(alarms[s])
                           = before[s] + (IF marks[s] = Null THEN 0 ELSE edits[s] + 1)
                      /\ alarms[s] = <<>> =>
                           /\ \A i \in DOMAIN trail[s] :
                                /\ trail[s][i].old = Null \/ Follows(trail[s], i)
                                /\ i > before[s] => (trail[s][i].old = Null <=> i = before[s] + 1)
                           /\ marks[s] # Null => Last(trail[s]).new = Says(marks[s])
    BY DEF TrailIsTheHistory
  <2>1. HistoryOK(s)
    BY DEF IInv
  <2> QED BY <2>1 DEF HistoryOK, Tells, Linked, Last
<1> QED BY <1>1, IInvHolds, PTL

\* Every mark a sheet shows as saved was written (MarkSheet.tsx:145).
THEOREM SavedMeansRecordedHolds == MarkSpec => []SavedMeansRecorded
<1>1. IInv => SavedMeansRecorded
  <2> SUFFICES ASSUME IInv, NEW t \in Teachers, Open(t),
                      NEW s \in DOMAIN sheets[t].rows \ Typed(sheets[t]), sheets[t].rows[s] # Null
               PROVE  sheets[t].rows[s] \in written[s]
    BY DEF SavedMeansRecorded
  <2>1. sheets[t].rows[s] = sheets[t].read[s]
    BY DEF Typed
  <2>2. SheetOK(t)
    BY DEF IInv
  <2> QED BY <2>1, <2>2 DEF SheetOK
<1> QED BY <1>1, IInvHolds, PTL

\* Nobody is told of a result who has none on record (views.py:156).
THEOREM ToldOnlyOfAMarkHolds == MarkSpec => []ToldOnlyOfAMark
<1>1. IInv => ToldOnlyOfAMark
  BY DEF IInv
<1> QED BY <1>1, IInvHolds, PTL

\* Only a save and a deletion write marks.
LEMMA WhoWritesMarks ==
  ASSUME [MarkNext]_markVars, marks' # marks
  PROVE  \E v \in Workers : CommitMarks(v) \/ Delete(v)
BY DEF MarkNext, ClassNext, markVars, classVars, rows, above, LoseAnswer, Type, Lock, Fail,
   ChangeEnrolment, OpenMarkSheet, SaveMarkSheet, SendSheet, Publish, ValidateMarks, SavePublished,
   TellStudents, ReadForEdit, SaveEdit, CheckDelete

\* A whole sheet is sent for one mark typed: what it changes was typed, or
\* goes back to what its teacher had read.
THEOREM OnlyTypedOrStaleMarksChangeHolds == MarkSpec => OnlyTypedOrStaleMarksChange
<1>1. IInv /\ [MarkNext]_markVars =>
        \A w \in Workers : At(w, "save", "locked") /\ calls'[w].step = "idle" =>
          \A s \in Students : marks'[s] # marks[s] =>
            \/ s \in calls[w].typed
            \/ marks[s] # calls[w].read[s] /\ marks'[s] = calls[w].read[s]
  <2> SUFFICES ASSUME IInv, [MarkNext]_markVars, NEW w \in Workers, At(w, "save", "locked"),
                      calls'[w].step = "idle", NEW s \in Students, marks'[s] # marks[s],
                      s \notin calls[w].typed
               PROVE  marks[s] # calls[w].read[s] /\ marks'[s] = calls[w].read[s]
    OBVIOUS
  <2>1. PICK v \in Workers : CommitMarks(v) \/ Delete(v)
    BY WhoWritesMarks
  <2>2. calls[w] \in Call /\ calls[w].kind = "save" /\ calls[w].step = "locked"
    BY DEF IInv, RangesOK, At
  <2>3. ~Delete(v)
    <3> SUFFICES ASSUME Delete(v) PROVE FALSE
      OBVIOUS
    <3>1. v # w
      BY <2>2 DEF Delete, At
    <3>2. calls'[w] = [calls[w] EXCEPT !.had = {}]
      BY <3>1 DEF Delete
    <3>3. calls'[w].step = calls[w].step
      BY <2>2, <3>2 DEF Call
    <3> QED BY <2>2, <3>3
  <2>4. v = w
    <3>1. calls' = [calls EXCEPT ![v] = NoCall]
      BY <2>1, <2>3 DEF CommitMarks, End, Drop
    <3>2. v # w => calls'[w] = calls[w]
      BY <3>1 DEF IInv, RangesOK
    <3> QED BY <2>2, <3>2
  <2>5. WriteRows(calls[w])
    BY <2>1, <2>3, <2>4 DEF CommitMarks, rows
  <2>6. s \in DOMAIN calls[w].rows /\ marks'[s] = calls[w].rows[s]
    BY <2>5 DEF WriteRows, Created, Changed
  <2>7. CallOK(w)
    BY DEF IInv
  <2>8. calls[w].rows[s] = calls[w].read[s]
    BY <2>6, <2>7 DEF CallOK, At
  <2> QED BY <2>6, <2>8
<1> QED BY <1>1, IInvHolds, PTL DEF MarkSpec, OnlyTypedOrStaleMarksChange

\* A mark goes only with its assessment, and only if it was entered between
\* the check and the deletion (views.py:91).
THEOREM OnlyMarksEnteredMeanwhileAreLostHolds == MarkSpec => OnlyMarksEnteredMeanwhileAreLost
<1>1. IInv /\ [MarkNext]_markVars =>
        \A s \in Students : marks[s] # Null /\ marks'[s] = Null =>
          \E w \in Workers : At(w, "delete", "valid") /\ s \notin calls[w].had
  <2> SUFFICES ASSUME IInv, [MarkNext]_markVars, NEW s \in Students, marks[s] # Null, marks'[s] = Null
               PROVE  \E w \in Workers : At(w, "delete", "valid") /\ s \notin calls[w].had
    OBVIOUS
  <2>1. PICK v \in Workers : CommitMarks(v) \/ Delete(v)
    BY WhoWritesMarks
  <2>2. CASE CommitMarks(v)
    <3>1. WriteRows(calls[v])
      BY <2>2 DEF CommitMarks, rows
    <3>2. s \in DOMAIN calls[v].rows /\ marks'[s] = calls[v].rows[s]
      BY <3>1 DEF WriteRows, Created, Changed
    <3>3. CallOK(v)
      BY DEF IInv
    <3>4. calls[v].rows[s] \in Marks
      BY <2>2, <3>2, <3>3 DEF CallOK, CommitMarks, At
    <3> QED BY <3>2, <3>4, ClassroomAssumption
  <2>3. CASE Delete(v)
    <3>1. CallOK(v)
      BY DEF IInv
    <3>2. At(v, "delete", "valid") /\ calls[v].had = {}
      BY <2>3, <3>1 DEF Delete, At, CallOK
    <3> QED BY <3>2
  <2> QED BY <2>1, <2>2, <2>3
<1> QED BY <1>1, IInvHolds, PTL DEF MarkSpec, OnlyMarksEnteredMeanwhileAreLost

================================================================================
