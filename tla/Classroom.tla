------------------------------- MODULE Classroom -------------------------------
(***************************************************************************)
(* What the mark sheet and the attendance register share: a class held as  *)
(* a draft in each teacher's browser (frontend grades/[assessmentId] and   *)
(* attendance/[id]) over one row per student in the database.              *)
(*                                                                         *)
(* A sheet is read once, when it is opened.  From then on it is a draft:   *)
(* router.refresh() after a save brings new props, which useState ignores. *)
(* Saving sends every row that is not blank, in one call.  The server      *)
(* writes them in one transaction that locks the rows it finds and inserts *)
(* the others, so two savers may both take a row for missing.              *)
(*                                                                         *)
(* A mark is a score with its comment, or a status with its minutes and    *)
(* note, taken as one value; an audit row says the score or the status     *)
(* alone.  The answer to a call may be lost, the call done or not, and the *)
(* button pressed again.                                                   *)
(***************************************************************************)
EXTENDS Integers, Sequences, FiniteSets, SequencesExt

CONSTANTS Teachers, Students, Workers,
          Marks,     \* what a row may hold
          Audited,   \* mark -> the mark with only its score or status
          Typing,    \* <<teacher, student, mark or Null>>: what may be typed
          Leaving,   \* <<student, status>>: what an enrolment may become
          MaxCalls,  \* bound: requests sent
          MaxAlarms, \* bound: audit inserts that fail, for each student
          Null

ASSUME ClassroomAssumption ==
  /\ MaxCalls \in Nat /\ MaxAlarms \in Nat
  /\ Audited \in [Marks -> Marks]
  /\ Typing \subseteq Teachers \X Students \X (Marks \cup {Null})
  /\ Leaving \subseteq Students \X {"ACTIVE", "COMPLETED", "CANCELLED"}
  /\ Null \notin Marks \cup Workers \cup Teachers

VARIABLES
  marks,       \* student -> mark, Null when there is no row
  edits,       \* student -> change_count
  alarms,      \* student -> who the "AUDIT WRITE FAILED" lines about it name
  enrolled,    \* student -> status of the enrolment on this course
  sheets,      \* teacher -> the sheet in the browser, or Null
  calls,       \* worker -> the request it serves
  sent         \* how many were sent, up to MaxCalls

rows == <<marks, edits, alarms>>
classVars == <<marks, edits, alarms, enrolled, sheets, calls, sent>>

Entry == [old : Marks \cup {Null}, new : Marks, by : Teachers]
Draft == UNION {[R -> Marks \cup {Null}] : R \in SUBSET Students}
Header == BOOLEAN \* is_published of the assessment, or register submitted
\* read: the rows as last confirmed by the server; says: the line beside the
\* button; header: the row above the sheet as last read.
Sheet == [rows : Draft, read : Draft, says : {"nothing", "unsaved", "saved"},
          header : Header, waiting : Workers \cup {Null}]
Kinds == {"save", "publish", "edit", "delete", "open"}
Steps == {"idle", "sent", "valid", "locked", "telling"}
\* had: the students with a mark when the call looked; copy: the row it read.
Call == [kind : Kinds, step : Steps, by : Teachers \cup {Null}, rows : Draft,
         typed : SUBSET Students, read : Draft, had : SUBSET Students,
         copy : [flag : Header, by : Teachers \cup {Null}]]
NoCall == [kind |-> "save", step |-> "idle", by |-> Null, rows |-> <<>>, typed |-> {},
           read |-> <<>>, had |-> {}, copy |-> [flag |-> FALSE, by |-> Null]]

ClassInit ==
  /\ marks = [s \in Students |-> Null]
  /\ edits = [s \in Students |-> 0]
  /\ alarms = [s \in Students |-> <<>>]
  /\ enrolled = [s \in Students |-> "ACTIVE"]
  /\ sheets = [t \in Teachers |-> Null]
  /\ calls = [w \in Workers |-> NoCall]
  /\ sent = 0

Marked == {s \in Students : marks[s] # Null}
Open(t) == sheets[t] # Null
Busy(t) == sheets[t].waiting # Null
Take(w, call) ==
  /\ calls[w].step = "idle" /\ sent < MaxCalls
  /\ calls' = [calls EXCEPT ![w] = call]
  /\ sent' = sent + 1
At(w, kind, step) == calls[w].kind = kind /\ calls[w].step = step
Goto(w, step) == calls' = [calls EXCEPT ![w].step = step]
Drop(w) == calls' = [calls EXCEPT ![w] = NoCall]

----------------------------------------------------------------------------
(* In the browser.                                                         *)

\* The roster with what it shows of each mark, in the two states useState
\* starts from.  Opening it again drops the draft; to leave it while a call is
\* on its way is to lose its answer.
ReadSheet(t, read, header) ==
  /\ Open(t) => ~Busy(t)
  /\ sheets' = [sheets EXCEPT ![t] = [rows |-> read, read |-> read, says |-> "nothing",
                                      header |-> header, waiting |-> Null]]

\* update, mark: the inputs stay enabled while a save is on its way.
Type(t, s, mark) ==
  /\ <<t, s, mark>> \in Typing
  /\ Open(t) /\ s \in DOMAIN sheets[t].rows
  /\ mark # sheets[t].rows[s]
  /\ sheets' = [sheets EXCEPT ![t].rows[s] = mark, ![t].says = "unsaved"]
  /\ UNCHANGED <<rows, enrolled, calls, sent>>

\* fault: a blank is sent as a mark.
BlankIsSent(draft) ==
  [s \in DOMAIN draft |-> IF draft[s] = Null THEN CHOOSE m \in Marks : TRUE ELSE draft[s]]
\* Blank means not marked yet, and is left out.
Payload(draft) == [s \in {r \in DOMAIN draft : draft[r] # Null} |-> draft[s]]

Typed(sheet) == {s \in DOMAIN sheet.rows : sheet.rows[s] # sheet.read[s]}
\* busy disables the button until the answer.
Send(t, w, call) ==
  /\ Take(w, [call EXCEPT !.step = "sent", !.by = t])
  /\ sheets' = [sheets EXCEPT ![t].waiting = w]
SendSheet(t, w) ==
  /\ Open(t) /\ ~Busy(t)
  /\ Send(t, w, [NoCall EXCEPT !.rows = Payload(sheets[t].rows),
                               !.typed = Typed(sheets[t]), !.read = sheets[t].read])
  /\ UNCHANGED <<rows, enrolled>>

\* fault: the sheet says it is saved whatever the server answered.
AlwaysSaved(call, ok) == call.kind = "save"
Saved(call, ok) == call.kind = "save" /\ ok
Shown(sheet, call, ok, header) ==
  [sheet EXCEPT
     !.waiting = Null,
     !.header = IF ok THEN header ELSE @,
     !.says = IF Saved(call, ok) THEN "saved" ELSE @,
     !.read = IF Saved(call, ok)
              THEN [s \in DOMAIN @ |-> IF s \in DOMAIN call.rows THEN call.rows[s] ELSE @[s]]
              ELSE @]

\* The call ends, and its answer reaches whoever still waits for it.  (Between
\* the two, others may move; the sheet sees nothing of that.)
End(w, ok, header) ==
  /\ Drop(w)
  /\ sheets' = [t \in Teachers |-> IF Open(t) /\ sheets[t].waiting = w
                                   THEN Shown(sheets[t], calls[w], ok, header) ELSE sheets[t]]

\* The connection drops: "could not reach the server", the call goes on.
LoseAnswer(t) ==
  /\ Open(t) /\ Busy(t)
  /\ sheets' = [sheets EXCEPT ![t].waiting = Null]
  /\ UNCHANGED <<rows, enrolled, calls, sent>>

----------------------------------------------------------------------------
(* save_mark_sheet and save_register.                                      *)

\* The serializers: one row out of place refuses the sheet.
RowsInClass(call) == \A s \in DOMAIN call.rows : enrolled[s] # "CANCELLED"

\* Rows that exist now are locked, and read as they are when the lock is
\* granted.
Lock(w) ==
  /\ At(w, "save", "valid")
  /\ calls' = [calls EXCEPT ![w].step = "locked", ![w].had = Marked]
  /\ UNCHANGED <<rows, enrolled, sheets, sent>>

Created(call) == DOMAIN call.rows \ call.had
Changed(call) == {s \in DOMAIN call.rows \cap call.had : call.rows[s] # marks[s]}

\* The unique constraint refuses an insert.
Collides(call) == \E s \in Created(call) : marks[s] # Null

WriteRows(call) ==
  LET touched == Created(call) \cup Changed(call) IN
  /\ marks' = [s \in Students |-> IF s \in touched THEN call.rows[s] ELSE marks[s]]
  /\ edits' = [s \in Students |-> edits[s] + (IF s \in Changed(call) THEN 1 ELSE 0)]

\* What an audit row says of a mark, or of none.
Says(mark) == IF mark \in Marks THEN Audited[mark] ELSE mark
\* fault: the old value is the one the teacher had read.
AuditRowAsRead(s, call) ==
  [old |-> Says(call.read[s]), new |-> Says(call.rows[s]), by |-> call.by]
AuditRow(s, call) == [old |-> Says(marks[s]), new |-> Says(call.rows[s]), by |-> call.by]

\* record: the audit rows of these students, with one more each for what call
\* writes; or the lines logged where the insert fails in its savepoint, which
\* the save does not notice.
Recorded(log, students, call) ==
  [s \in Students |-> IF s \in students THEN Append(log[s], AuditRow(s, call)) ELSE log[s]]
Alarmed(students, call) ==
  [s \in Students |-> IF s \in students THEN Append(alarms[s], call.by) ELSE alarms[s]]
MayFail(students) == \A s \in students : Len(alarms[s]) < MaxAlarms

\* A worker dies in a transaction, or the request never arrived.
Fail(w) ==
  /\ calls[w].step # "idle" /\ calls[w].by # Null
  /\ UNCHANGED <<rows, enrolled, sent>>
  /\ End(w, FALSE, FALSE)

\* The enrolment's own set_status, by staff.
ChangeEnrolment(s, status) ==
  /\ enrolled[s] # status /\ sent < MaxCalls
  /\ sent' = sent + 1
  /\ enrolled' = [enrolled EXCEPT ![s] = status]
  /\ UNCHANGED <<rows, sheets, calls>>

ClassNext ==
  \/ \E t \in Teachers : LoseAnswer(t)
  \/ \E t \in Teachers, s \in Students, m \in Marks \cup {Null} : Type(t, s, m)
  \/ \E w \in Workers : Lock(w) \/ Fail(w)
  \/ \E change \in Leaving : ChangeEnrolment(change[1], change[2])

ClassTypeOK ==
  /\ marks \in [Students -> Marks \cup {Null}]
  /\ edits \in [Students -> 0 .. MaxCalls]
  /\ alarms \in [Students -> Seq(Teachers)]
  /\ \A s \in Students : Len(alarms[s]) <= MaxAlarms
  /\ enrolled \in [Students -> {"ACTIVE", "COMPLETED", "CANCELLED"}]
  /\ sheets \in [Teachers -> Sheet \cup {Null}]
  /\ calls \in [Workers -> Call]
  /\ sent \in 0 .. MaxCalls

\* The i-th audit row starts from what the one before it left.
Follows(h, i) == i > 1 /\ h[i].old = h[i - 1].new
================================================================================
