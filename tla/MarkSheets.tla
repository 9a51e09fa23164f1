------------------------------ MODULE MarkSheets -------------------------------
(***************************************************************************)
(* One assessment and its marks: frontend grades/[assessmentId] over       *)
(* backend/apps/assessments, on the drafts and calls of Classroom.         *)
(*                                                                         *)
(* PATCH and DELETE of an assessment are offered by no screen and come     *)
(* through the API.  PublishPanel and MarkSheet keep a busy flag each; one *)
(* teacher's two calls at once are, to the server, two teachers' calls.    *)
(***************************************************************************)
EXTENDS Classroom

VARIABLES
  assessment,  \* its row: exists, is_published
  trail,       \* student -> MARK_ENTERED and MARK_CHANGED rows
  told,        \* students sent MARKS_PUBLISHED
  written,     \* history: student -> every mark it has had
  before       \* history: student -> how often record was called before the
               \* mark there is, or the next one, was entered

above == <<assessment, trail, told, written, before>>
markVars == <<classVars, assessment, trail, told, written, before>>

MarkInit ==
  /\ ClassInit
  /\ assessment = [exists |-> TRUE, is_published |-> FALSE]
  /\ trail = [s \in Students |-> <<>>]
  /\ told = {}
  /\ written = [s \in Students |-> {}]
  /\ before = [s \in Students |-> 0]

----------------------------------------------------------------------------
(* GET and PUT /assessments/<id>/scores/                                   *)

\* page.tsx asks for the ACTIVE roster.
OpenMarkSheet(t) ==
  /\ assessment.exists
  /\ LET roster == {s \in Students : enrolled[s] = "ACTIVE"}
     IN  ReadSheet(t, [s \in roster |-> marks[s]], assessment.is_published)
  /\ UNCHANGED <<rows, enrolled, calls, sent, above>>

SaveMarkSheet(t, w) ==
  /\ Open(t) /\ sheets[t].says = "unsaved"
  /\ SendSheet(t, w)
  /\ UNCHANGED above

ValidateMarks(w) ==
  /\ At(w, "save", "sent")
  /\ IF assessment.exists /\ calls[w].rows # <<>> /\ RowsInClass(calls[w])
       THEN Goto(w, "valid") /\ UNCHANGED sheets
       ELSE End(w, FALSE, FALSE)
  /\ UNCHANGED <<rows, enrolled, sent, above>>

\* uniq_score_per_enrollment, or the foreign key, refuses an insert.
Refused(call) == Collides(call) \/ ~assessment.exists
CommitMarks(w) ==
  LET call == calls[w]
      touched == Created(call) \cup Changed(call) IN
  /\ At(w, "save", "locked")
  /\ IF Refused(call)
       THEN UNCHANGED <<rows, trail, written>> /\ End(w, FALSE, FALSE)
       ELSE /\ WriteRows(call)
            /\ \E failed \in SUBSET touched :
                 /\ MayFail(failed)
                 /\ trail' = Recorded(trail, touched \ failed, call)
                 /\ alarms' = Alarmed(failed, call)
            /\ written' = [s \in Students |-> written[s] \cup ({marks'[s]} \ {Null})]
            /\ End(w, TRUE, assessment.is_published)
  /\ UNCHANGED <<enrolled, sent, assessment, told, before>>

----------------------------------------------------------------------------
(* POST /assessments/<id>/publish/, PATCH and DELETE /assessments/<id>/    *)

\* PublishPanel offers the button on the assessment as last read.
Publish(t, w) ==
  /\ Open(t) /\ ~Busy(t) /\ ~sheets[t].header
  /\ Send(t, w, [NoCall EXCEPT !.kind = "publish"])
  /\ UNCHANGED <<rows, enrolled, above>>

SavePublished(w) ==
  /\ At(w, "publish", "sent")
  /\ IF assessment.exists
       THEN /\ assessment' = [assessment EXCEPT !.is_published = TRUE]
            /\ Goto(w, "telling") /\ UNCHANGED sheets
       ELSE UNCHANGED assessment /\ End(w, FALSE, FALSE)
  /\ UNCHANGED <<rows, enrolled, sent, trail, told, written, before>>

\* fault: the whole class is told.
WholeClass == Students
ToTell == Marked
TellStudents(w) ==
  /\ At(w, "publish", "telling")
  /\ told' = told \cup ToTell
  /\ End(w, TRUE, assessment.is_published)
  /\ UNCHANGED <<rows, enrolled, sent, assessment, trail, written, before>>

\* serializer.save() writes every column of the row as it was read.
ReadForEdit(w) ==
  /\ assessment.exists
  /\ Take(w, [NoCall EXCEPT !.kind = "edit", !.step = "valid",
                            !.copy.flag = assessment.is_published])
  /\ UNCHANGED <<rows, enrolled, sheets, above>>
\* An UPDATE that finds no row becomes an INSERT: an assessment deleted
\* meanwhile is there again, without its marks.
WrittenBack(copy) == copy.flag
SaveEdit(w) ==
  /\ At(w, "edit", "valid")
  /\ assessment' = [exists |-> TRUE, is_published |-> WrittenBack(calls[w].copy)]
  /\ Drop(w)
  /\ UNCHANGED <<rows, enrolled, sheets, sent, trail, told, written, before>>

\* fault: perform_destroy no longer asks whether there are marks.
Unasked == TRUE
NoMarksYet == Marked = {}
CheckDelete(w) ==
  /\ assessment.exists /\ NoMarksYet
  /\ Take(w, [NoCall EXCEPT !.kind = "delete", !.step = "valid", !.had = Marked])
  /\ UNCHANGED <<rows, enrolled, sheets, above>>
\* The deletion takes the marks with it, and their change_count.  A save that
\* waits for the lock on them will find none.
Delete(w) ==
  /\ At(w, "delete", "valid")
  /\ assessment' = [assessment EXCEPT !.exists = FALSE]
  /\ marks' = [s \in Students |-> Null]
  /\ edits' = [s \in Students |-> 0]
  /\ before' = [s \in Students |-> Len(trail[s]) + Len(alarms[s])]
  /\ calls' = [v \in Workers |-> IF v = w THEN NoCall
                                  ELSE IF At(v, "save", "locked") THEN [calls[v] EXCEPT !.had = {}]
                                  ELSE calls[v]]
  /\ UNCHANGED <<alarms, enrolled, sheets, sent, trail, told, written>>

----------------------------------------------------------------------------
MarkNext ==
  \/ ClassNext /\ UNCHANGED above
  \/ \E t \in Teachers : OpenMarkSheet(t) \/ \E w \in Workers : SaveMarkSheet(t, w) \/ Publish(t, w)
  \/ \E w \in Workers :
       \/ ValidateMarks(w) \/ CommitMarks(w) \/ SavePublished(w) \/ TellStudents(w)
       \/ ReadForEdit(w) \/ SaveEdit(w) \/ CheckDelete(w) \/ Delete(w)

MarkSpec == MarkInit /\ [][MarkNext]_markVars

----------------------------------------------------------------------------
(* Properties.                                                             *)

\* Every variable keeps its type.
MarksTypeOK ==
  /\ ClassTypeOK
  /\ assessment \in [exists : BOOLEAN, is_published : BOOLEAN]
  /\ trail \in [Students -> Seq(Entry)]
  /\ told \subseteq Students
  /\ written \in [Students -> SUBSET Marks]
  /\ before \in [Students -> Nat]

\* Marks never lock, so the trail carries the weight (services.py:116).  With
\* several teachers saving stale sheets, and an assessment that is deleted and
\* written back, a mark entered and changed change_count times since has left
\* one audit row, or one logged alarm, for each of these.  Of a student whose
\* audit inserts never failed the rows are a chain: each starts from the score
\* the one before it left, but for the first of a new mark, and the last one
\* is the score there is.
TrailIsTheHistory ==
  assessment.exists => \A s \in Students :
    /\ Len(trail[s]) + Len(alarms[s]) = before[s] + (IF marks[s] = Null THEN 0 ELSE edits[s] + 1)
    /\ alarms[s] = <<>> =>
         /\ \A i \in DOMAIN trail[s] :
              /\ trail[s][i].old = Null \/ Follows(trail[s], i)
              /\ i > before[s] => (trail[s][i].old = Null <=> i = before[s] + 1)
         /\ marks[s] # Null => Last(trail[s]).new = Says(marks[s])

\* A sheet that says it is saved (MarkSheet.tsx:145) shows only marks that were
\* written, and are still there, were corrected since or went with the
\* assessment.  Rows typed while the save was on its way are the exception: the
\* answer clears the "unsaved changes" of those too.
SavedMeansRecorded ==
  \A t \in Teachers :
    assessment.exists /\ Open(t) /\ sheets[t].says = "saved" =>
      \A s \in DOMAIN sheets[t].rows \ Typed(sheets[t]) :
        sheets[t].rows[s] # Null => sheets[t].rows[s] \in written[s]

\* A whole sheet is sent for one mark typed.  The marks it changes are those
\* its teacher typed, and those another changed after she had read them, which
\* go back to what she had read; a blank changes nothing.
OnlyTypedOrStaleMarksChange ==
  [][\A w \in Workers :
       At(w, "save", "locked") /\ calls'[w].step = "idle" =>
         \A s \in Students : marks'[s] # marks[s] =>
           \/ s \in calls[w].typed
           \/ marks[s] # calls[w].read[s] /\ marks'[s] = calls[w].read[s]]_markVars

\* "Marks are the record; they are not collateral" (views.py:91): a mark goes
\* only with its assessment, and only if it was entered between the check and
\* the deletion.
OnlyMarksEnteredMeanwhileAreLost ==
  [][\A s \in Students : marks[s] # Null /\ marks'[s] = Null =>
       \E w \in Workers : At(w, "delete", "valid") /\ s \notin calls[w].had]_markVars

\* "Telling someone their result is ready when no mark was entered for them is
\* worse than silence" (views.py:156), whoever publishes how often and whatever
\* is saved or deleted meanwhile.
ToldOnlyOfAMark == \A s \in told : written[s] # {}

\* "There is deliberately no unpublish" (PublishPanel.tsx:27): a published
\* assessment stays published.
NoUnpublish == [][assessment.is_published => assessment'.is_published]_markVars
================================================================================
