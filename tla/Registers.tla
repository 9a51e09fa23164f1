------------------------------- MODULE Registers -------------------------------
(***************************************************************************)
(* One class on one day: frontend attendance/new and attendance/[id] over  *)
(* backend/apps/attendance, on the drafts and calls of Classroom.          *)
(*                                                                         *)
(* Registers do not lock and are not deleted.  PATCH of a register (its    *)
(* date, its topic) is offered by no screen and comes through the API.     *)
(***************************************************************************)
EXTENDS Classroom, FiniteSetsExt

CONSTANTS Displayed, \* mark -> what the sheet makes of it: no minutes for zero
          Present    \* the mark setAll gives

\* The row, which Null is not.
Row == [flag : BOOLEAN, by : Teachers \cup {Null}]

ASSUME RegistersAssumption ==
  /\ IsFiniteSet(Students) /\ Null \notin Row
  /\ Displayed \in [Marks -> Marks]
  /\ \A m \in Marks : Audited[Displayed[m]] = Audited[m]
  /\ Present \in Marks

VARIABLES
  register,    \* Null, or whether it is SUBMITTED, and submitted_by
  corrections, \* student -> ATTENDANCE_CHANGED rows
  taken,       \* the ATTENDANCE_TAKEN rows: who, and how many were marked
  untaken      \* who the "AUDIT WRITE FAILED" lines of ATTENDANCE_TAKEN name

records == <<corrections, taken, untaken>>
registerVars == <<classVars, register, records>>

RegisterInit ==
  /\ ClassInit
  /\ register = Null
  /\ corrections = [s \in Students |-> <<>>]
  /\ taken = <<>>
  /\ untaken = <<>>

----------------------------------------------------------------------------
(* POST and PATCH /attendance/sessions/                                    *)

\* OpenRegisterForm: create looks for the register of that day, answers with
\* it if there is one ...
StartRegister(t, w) ==
  /\ ~Open(t) /\ register = Null
  /\ Take(w, [NoCall EXCEPT !.kind = "open", !.step = "valid", !.by = t])
  /\ UNCHANGED <<rows, enrolled, sheets, register, records>>

\* ... and inserts it if not; the loser of a race meets
\* uniq_attendance_session_per_day and is told of an error.
InsertRegister(w) ==
  /\ At(w, "open", "valid")
  /\ register' = IF register = Null THEN [flag |-> FALSE, by |-> Null] ELSE register
  /\ Drop(w)
  /\ UNCHANGED <<rows, enrolled, sheets, sent, records>>

\* serializer.save() writes every column of the row as it was read.
ReadForChange(w) ==
  /\ register # Null
  /\ Take(w, [NoCall EXCEPT !.kind = "edit", !.step = "valid", !.copy = register])
  /\ UNCHANGED <<rows, enrolled, sheets, register, records>>
SaveChange(w) ==
  /\ At(w, "edit", "valid")
  /\ register' = calls[w].copy
  /\ Drop(w)
  /\ UNCHANGED <<rows, enrolled, sheets, sent, records>>

----------------------------------------------------------------------------
(* GET /sheet/ and PUT /register/                                          *)

\* The roster is everybody not CANCELLED or DROPPED.  "row.minutes_late ? .. :"
\* takes zero minutes for none, and a sheet sent as it was read corrects them.
DisplayedOf(mark) == IF mark = Null THEN Null ELSE Displayed[mark]
OpenRegisterSheet(t) ==
  /\ register # Null
  /\ LET roster == {s \in Students : enrolled[s] # "CANCELLED"}
     IN  ReadSheet(t, [s \in roster |-> DisplayedOf(marks[s])], register.flag)
  /\ UNCHANGED <<rows, enrolled, calls, sent, register, records>>

\* setAll: every row at once, PRESENT or blank.
MarkAll(t, mark) ==
  /\ Open(t) /\ ~Busy(t) /\ mark \in {Present, Null}
  /\ sheets' = [sheets EXCEPT ![t].rows = [s \in DOMAIN @ |-> mark], ![t].says = "unsaved"]
  /\ UNCHANGED <<rows, enrolled, calls, sent, register, records>>

SaveRegisterSheet(t, w) ==
  /\ Open(t)
  /\ \E s \in DOMAIN sheets[t].rows : sheets[t].rows[s] # Null
  /\ SendSheet(t, w)
  /\ UNCHANGED <<register, records>>

\* get_object: the register is read here, before the transaction.
ValidateRegister(w) ==
  /\ At(w, "save", "sent")
  /\ IF RowsInClass(calls[w])
       THEN /\ calls' = [calls EXCEPT ![w].step = "valid", ![w].copy = register]
            /\ UNCHANGED sheets
       ELSE End(w, FALSE, FALSE)
  /\ UNCHANGED <<rows, enrolled, sent, register, records>>

\* fault: the register is submitted although nothing on it was new.
Always(call) == TRUE
WroteSomething(call) == Created(call) \cup Changed(call) # {}
\* save_register decides on the register as it was read.
Submitted(call) ==
  IF ~call.copy.flag /\ WroteSomething(call) THEN [flag |-> TRUE, by |-> call.by] ELSE register

\* fault: the whole sheet is counted as newly marked.
WholeSheet(call) == DOMAIN call.rows
NewlyMarked(call) == Created(call)
\* fault: a register is taken though nothing on it was new.
Taking(call) == TRUE
TookSome(call) == Created(call) # {}
\* The ATTENDANCE_TAKEN row, or the line logged where its insert fails.
Taken(call) ==
  \/ ~TookSome(call) /\ UNCHANGED <<taken, untaken>>
  \/ /\ TookSome(call)
     /\ taken' = Append(taken, [by |-> call.by, marked |-> Cardinality(NewlyMarked(call))])
     /\ UNCHANGED untaken
  \/ /\ TookSome(call) /\ Len(untaken) < MaxAlarms
     /\ untaken' = Append(untaken, call.by)
     /\ UNCHANGED taken

CommitRegister(w) ==
  LET call == calls[w] IN
  /\ At(w, "save", "locked")
  /\ IF Collides(call)
       THEN UNCHANGED <<rows, register, records>> /\ End(w, FALSE, FALSE)
       ELSE /\ WriteRows(call)
            /\ \E failed \in SUBSET Changed(call) :
                 /\ MayFail(failed)
                 /\ corrections' = Recorded(corrections, Changed(call) \ failed, call)
                 /\ alarms' = Alarmed(failed, call)
            /\ Taken(call)
            /\ register' = Submitted(call)
            /\ End(w, TRUE, TRUE)
  /\ UNCHANGED <<enrolled, sent>>

----------------------------------------------------------------------------
RegisterNext ==
  \/ ClassNext /\ UNCHANGED <<register, records>>
  \/ \E t \in Teachers :
       \/ OpenRegisterSheet(t)
       \/ \E m \in Marks \cup {Null} : MarkAll(t, m)
       \/ \E w \in Workers : StartRegister(t, w) \/ SaveRegisterSheet(t, w)
  \/ \E w \in Workers :
       \/ InsertRegister(w) \/ ReadForChange(w) \/ SaveChange(w)
       \/ ValidateRegister(w) \/ CommitRegister(w)

RegisterSpec == RegisterInit /\ [][RegisterNext]_registerVars

----------------------------------------------------------------------------
(* Properties.                                                             *)

\* Every variable keeps its type.
RegisterTypeOK ==
  /\ ClassTypeOK
  /\ register \in Row \cup {Null}
  /\ corrections \in [Students -> Seq(Entry)]
  /\ taken \in Seq([by : Teachers, marked : 1 .. Cardinality(Students)])
  /\ untaken \in Seq(Teachers) /\ Len(untaken) <= MaxAlarms

\* "The weight is on the trail" (attendance/models.py:33).  Whoever saves which
\* stale register, every correction counted on a row has an audit row or a
\* logged alarm, and where no insert failed the rows are a chain of statuses
\* that ends at the one there is.  The ATTENDANCE_TAKEN rows add up to the
\* marks made, or to fewer by one at least for each that was not written.
RegisterAddsUp ==
  register # Null =>
  /\ LET recorded == SumFunction([i \in DOMAIN taken |-> taken[i].marked]) IN
     /\ recorded + Len(untaken) <= Cardinality(Marked)
     /\ untaken = <<>> => recorded = Cardinality(Marked)
  /\ \A s \in Students :
       /\ edits[s] = Len(corrections[s]) + Len(alarms[s])
       /\ alarms[s] = <<>> =>
            /\ \A i \in 2 .. Len(corrections[s]) : Follows(corrections[s], i)
            /\ corrections[s] # <<>> => Last(corrections[s]).new = Says(marks[s])

\* A SUBMITTED register names a teacher who changed something on it, by an audit
\* row or by the line logged in its place, whatever was written back from an
\* older copy (save_register, and PATCH).
SubmitterIsOnTheTrail ==
  register # Null /\ register.flag =>
    \/ \E i \in DOMAIN taken : taken[i].by = register.by
    \/ \E i \in DOMAIN untaken : untaken[i] = register.by
    \/ \E s \in Students :
         \/ \E i \in DOMAIN corrections[s] : corrections[s][i].by = register.by
         \/ \E i \in DOMAIN alarms[s] : alarms[s][i] = register.by
================================================================================
