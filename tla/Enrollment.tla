------------------------------- MODULE Enrollment -------------------------------
(***************************************************************************)
(* backend/apps/enrollments, and what of backend/apps/courses it reads:    *)
(* students taking seats on courses while staff change both.               *)
(*                                                                         *)
(* No view of either app opens a transaction.  Enrolling somebody is a     *)
(* chain of autocommitted queries (read the course, look for a live        *)
(* enrolment, count the seats, insert, notify, audit), and PATCH writes    *)
(* back every column of the row it read.  What holds all the same is held  *)
(* by the partial unique index uniq_live_enrollment_per_course.            *)
(*                                                                         *)
(* set_status saves the status column only, and uses nothing else of the   *)
(* row it loaded but the old status for the audit text, so load and save   *)
(* are one action there.                                                   *)
(***************************************************************************)
EXTENDS Integers, Sequences, FiniteSets

CONSTANTS Students, Courses, Workers,
          Prices,           \* values of Course.price_minor
          Capacities,       \* values of Course.capacity
          NewStatuses,      \* statuses asked of an enrolment's set_status
          NewCourseStatuses,\* statuses asked of a course's set_status
          MaxEnrollments,   \* bound: rows of enrollments_enrollment
          MaxLost,          \* bound: changes whose audit row is lost
          Uncapped,         \* capacity is null
          Null

EnrollmentStatus == {"ACTIVE", "COMPLETED", "CANCELLED", "SUSPENDED", "DROPPED"}
CourseStatus == {"DRAFT", "ACTIVE", "COMPLETED", "CANCELLED", "ARCHIVED"}

Ids == 1 .. MaxEnrollments
Change == (Ids \X EnrollmentStatus) \cup (Courses \X CourseStatus)

ASSUME EnrollmentAssumption ==
  /\ MaxEnrollments \in Nat /\ MaxLost \in Nat
  /\ Prices \subseteq Nat
  /\ Capacities \subseteq Nat \cup {Uncapped}
  /\ NewStatuses \subseteq EnrollmentStatus
  /\ NewCourseStatuses \subseteq CourseStatus
  /\ Null \notin Students \cup Courses \cup Change

VARIABLES
  courses,      \* the courses_course table
  enrollments,  \* the enrollments_enrollment table, in order of insertion
  notices,      \* enrolments whose student was sent ENROLLED
  trail,        \* audit_log: <<object, status it was given>>
  unrecorded,   \* changes whose audit row was lost: logged, or the worker died
  requests      \* worker -> the request it is serving

vars == <<courses, enrollments, notices, trail, unrecorded, requests>>

CourseRow == [status : CourseStatus, archived_at : BOOLEAN,
              capacity : Capacities, price_minor : Prices]
Row == [student : Students, course : Courses, status : EnrollmentStatus, price : Prices]

CreateSteps == {"open", "free", "seated", "inserted"}
Steps == CreateSteps \cup {"idle", "recording", "editing", "editing course"}
\* row: the course or enrolment row the request read; change: what it has
\* saved and has still to record.
Request == [step : Steps, student : Students \cup {Null}, course : Courses \cup {Null},
            enrollment : Ids \cup {0}, row : CourseRow \cup Row \cup {Null},
            change : Change \cup {Null}]
Idle == [step |-> "idle", student |-> Null, course |-> Null, enrollment |-> 0,
         row |-> Null, change |-> Null]

Goto(w, r) == requests' = [requests EXCEPT ![w] = r]
Finish(w) == Goto(w, Idle)

----------------------------------------------------------------------------
(* What the rows say.                                                      *)

is_open_for_enrollment(row) == row.status \in {"DRAFT", "ACTIVE"}
is_live(row) == row.status \notin {"CANCELLED", "DROPPED"}
LiveOn(c) == {e \in DOMAIN enrollments : enrollments[e].course = c /\ is_live(enrollments[e])}
seats_taken(c) == Cardinality(LiveOn(c))
AlreadyEnrolled(s, c) == \E e \in LiveOn(c) : enrollments[e].student = s

\* fault: the index does not exist, the serializer alone keeps rows apart.
NoIndex(e, row) == FALSE
\* uniq_live_enrollment_per_course refuses row under the number e.
Clashes(e, row) ==
  /\ is_live(row)
  /\ \E other \in LiveOn(row.course) \ {e} : enrollments[other].student = row.student

Lose(change) ==
  /\ Cardinality(unrecorded \cup {change}) <= MaxLost
  /\ unrecorded' = unrecorded \cup {change}

\* audit.services.record: the row, or a logged alarm.
Record(change) ==
  \/ trail' = trail \cup {change} /\ UNCHANGED unrecorded
  \/ Lose(change) /\ UNCHANGED trail

----------------------------------------------------------------------------
(* POST /enrollments/                                                      *)

\* validate_course_public_id keeps the course row it read.
StartEnroll(w, s, c) ==
  /\ requests[w] = Idle
  /\ is_open_for_enrollment(courses[c])
  /\ Goto(w, [Idle EXCEPT !.step = "open", !.student = s, !.course = c, !.row = courses[c]])
  /\ UNCHANGED <<courses, enrollments, notices, trail, unrecorded>>

CheckLive(w) ==
  LET r == requests[w] IN
  /\ r.step = "open"
  /\ Goto(w, IF AlreadyEnrolled(r.student, r.course) THEN Idle ELSE [r EXCEPT !.step = "free"])
  /\ UNCHANGED <<courses, enrollments, notices, trail, unrecorded>>

HasSeat(r) == r.row.capacity = Uncapped \/ seats_taken(r.course) < r.row.capacity
CheckSeats(w) ==
  LET r == requests[w] IN
  /\ r.step = "free"
  /\ Goto(w, IF HasSeat(r) THEN [r EXCEPT !.step = "seated"] ELSE Idle)
  /\ UNCHANGED <<courses, enrollments, notices, trail, unrecorded>>

\* fault: the price is left out.
NoPrice(r) == Uncapped
AgreedPrice(r) == r.row.price_minor
\* Enrollment.objects.create; the index turns the loser of a race into a 500.
InsertEnrollment(w) ==
  LET r == requests[w]
      e == Len(enrollments) + 1
      row == [student |-> r.student, course |-> r.course, status |-> "ACTIVE",
              price |-> AgreedPrice(r)] IN
  /\ r.step = "seated"
  /\ IF Clashes(e, row)
       THEN Finish(w) /\ UNCHANGED enrollments
       ELSE /\ e \in Ids
            /\ enrollments' = Append(enrollments, row)
            /\ Goto(w, [Idle EXCEPT !.step = "inserted", !.enrollment = e])
  /\ UNCHANGED <<courses, notices, trail, unrecorded>>

\* perform_create: the student is told (or notify fails, quietly) ...
Announce(w) ==
  LET e == requests[w].enrollment IN
  /\ requests[w].step = "inserted"
  /\ notices' = notices \cup {e} \/ UNCHANGED notices
  /\ Goto(w, [Idle EXCEPT !.step = "recording", !.change = <<e, "ACTIVE">>])
  /\ UNCHANGED <<courses, enrollments, trail, unrecorded>>

\* ... and the change a request has saved is recorded.
RecordChange(w) ==
  /\ requests[w].step = "recording"
  /\ Record(requests[w].change)
  /\ Finish(w)
  /\ UNCHANGED <<courses, enrollments, notices>>

----------------------------------------------------------------------------
(* POST /enrollments/<id>/status/ and PATCH /enrollments/<id>/             *)

\* fault: the status recorded is read before it is set.
OldStatus(e, status) == <<e, enrollments[e].status>>
StatusChange(e, status) == <<e, status>>
set_status(w, e, status) ==
  LET row == [enrollments[e] EXCEPT !.status = status] IN
  /\ requests[w] = Idle
  /\ ~Clashes(e, row)
  /\ enrollments' = [enrollments EXCEPT ![e] = row]
  /\ Goto(w, [Idle EXCEPT !.step = "recording", !.change = StatusChange(e, status)])
  /\ UNCHANGED <<courses, notices, trail, unrecorded>>

\* get_object() of a PATCH.
LoadEnrollment(w, e) ==
  /\ requests[w] = Idle
  /\ Goto(w, [Idle EXCEPT !.step = "editing", !.enrollment = e, !.row = enrollments[e]])
  /\ UNCHANGED <<courses, enrollments, notices, trail, unrecorded>>

\* fault: the price follows the catalogue.
Repriced(r) == [r.row EXCEPT !.price = courses[r.row.course].price_minor]
RowSaved(r) == r.row
\* Every field of EnrollmentSerializer is read-only, so update() sets nothing
\* and save() writes all the columns back as they were read.
SaveEnrollment(w) ==
  LET r == requests[w] IN
  /\ r.step = "editing"
  /\ enrollments' = IF Clashes(r.enrollment, r.row) THEN enrollments
                    ELSE [enrollments EXCEPT ![r.enrollment] = RowSaved(r)]
  /\ Finish(w)
  /\ UNCHANGED <<courses, notices, trail, unrecorded>>

----------------------------------------------------------------------------
(* POST /courses/<id>/status/ and PATCH /courses/<id>/                     *)

\* fault: a course that leaves the archive keeps its date.
NeverReset(c, status) == courses[c].archived_at \/ status = "ARCHIVED"
ArchivedAt(c, status) == status = "ARCHIVED"
set_course_status(w, c, status) ==
  /\ requests[w] = Idle
  /\ courses' = [courses EXCEPT ![c] =
                    [@ EXCEPT !.status = status, !.archived_at = ArchivedAt(c, status)]]
  /\ Goto(w, [Idle EXCEPT !.step = "recording", !.change = <<c, status>>])
  /\ UNCHANGED <<enrollments, notices, trail, unrecorded>>

\* CourseWriteSerializer: capacity and price may change, the status may not;
\* save() writes the whole row all the same.
LoadCourse(w, c, capacity, price) ==
  /\ requests[w] = Idle
  /\ Goto(w, [Idle EXCEPT !.step = "editing course", !.course = c,
                !.row = [courses[c] EXCEPT !.capacity = capacity, !.price_minor = price]])
  /\ UNCHANGED <<courses, enrollments, notices, trail, unrecorded>>

SaveCourse(w) ==
  LET r == requests[w] IN
  /\ r.step = "editing course"
  /\ courses' = [courses EXCEPT ![r.course] = r.row]
  /\ Finish(w)
  /\ UNCHANGED <<enrollments, notices, trail, unrecorded>>

----------------------------------------------------------------------------

\* The worker dies: what it saved is committed, what it had to record is not.
Crash(w) ==
  LET r == requests[w] IN
  /\ r # Idle
  /\ \/ r.step = "recording" /\ Lose(r.change)
     \/ r.step = "inserted" /\ Lose(<<r.enrollment, "ACTIVE">>)
     \/ r.step \notin {"recording", "inserted"} /\ UNCHANGED unrecorded
  /\ Finish(w)
  /\ UNCHANGED <<courses, enrollments, notices, trail>>

Init ==
  /\ courses \in [Courses -> {row \in CourseRow : row.status = "ACTIVE" /\ ~row.archived_at}]
  /\ enrollments = <<>>
  /\ notices = {} /\ trail = {} /\ unrecorded = {}
  /\ requests = [w \in Workers |-> Idle]

Next ==
  \E w \in Workers :
     \/ \E s \in Students, c \in Courses : StartEnroll(w, s, c)
     \/ CheckLive(w) \/ CheckSeats(w) \/ InsertEnrollment(w) \/ Announce(w) \/ RecordChange(w)
     \/ \E e \in DOMAIN enrollments :
           LoadEnrollment(w, e) \/ \E status \in NewStatuses : set_status(w, e, status)
     \/ SaveEnrollment(w) \/ SaveCourse(w)
     \/ \E c \in Courses, status \in NewCourseStatuses : set_course_status(w, c, status)
     \/ \E c \in Courses, capacity \in Capacities, price \in Prices :
           LoadCourse(w, c, capacity, price)
     \/ Crash(w)

Spec == Init /\ [][Next]_vars

----------------------------------------------------------------------------
(* Properties.                                                             *)

\* Every variable stays in its range.
TypeOK ==
  /\ courses \in [Courses -> CourseRow]
  /\ enrollments \in Seq(Row) /\ DOMAIN enrollments \subseteq Ids
  /\ notices \subseteq DOMAIN enrollments
  /\ trail \subseteq Change /\ unrecorded \subseteq Change
  /\ requests \in [Workers -> Request]

\* "A student holds one live enrolment per course": under racing creates, a
\* withdrawn enrolment taken up again, and a PATCH that puts an old status back.
OneLiveEnrollment ==
  \A c \in Courses : \A e, f \in LiveOn(c) :
     enrollments[e].student = enrollments[f].student => e = f

\* "The catalogue price is a number that changes; this is a contract": no step
\* removes a row or changes whose it is, for what, and at what price.
PriceIsAContract ==
  [][\A e \in DOMAIN enrollments :
        /\ e \in DOMAIN enrollments'
        /\ enrollments'[e] = [enrollments[e] EXCEPT !.status = enrollments'[e].status]]_enrollments

\* A course is dated as archived exactly while it is archived, whichever of two
\* overlapping edits is saved last.
ArchivedWhileDated ==
  \A c \in Courses : courses[c].archived_at <=> courses[c].status = "ARCHIVED"

\* No enrolment and no course carries a status that nobody is on record for
\* giving it: a PATCH puts back only what an audited call, one that is still to
\* record, or one whose loss is known, had set.
StatusesAreOnRecord ==
  LET Pending == {requests[w].change : w \in Workers}
      Known(change) == change \in trail \cup unrecorded \cup Pending IN
  /\ \A e \in DOMAIN enrollments :
        \/ Known(<<e, enrollments[e].status>>)
        \/ enrollments[e].status = "ACTIVE" /\ \E w \in Workers :
              requests[w].step = "inserted" /\ requests[w].enrollment = e
  /\ \A c \in Courses : courses[c].status # "ACTIVE" => Known(<<c, courses[c].status>>)

\* What the register of places sees of the table.
RegisterView ==
  [e \in DOMAIN enrollments |->
     [student |-> enrollments[e].student, course |-> enrollments[e].course,
      price |-> enrollments[e].price, live |-> is_live(enrollments[e])]]

Register == INSTANCE PlaceRegister WITH contracts <- RegisterView

\* The whole component is a register of places: "A student holds one live
\* enrolment per course", "The catalogue price is a number that changes; this
\* is a contract".  Each enrolment is concluded once and stands at its price,
\* and none becomes live beside another, whichever stale row is written back.
IsPlaceRegister == Register!RegisterSpec

\* Course.capacity: "Maximum enrolments. Blank means uncapped."
SeatsWithinCapacity ==
  \A c \in Courses : courses[c].capacity = Uncapped \/ seats_taken(c) <= courses[c].capacity
================================================================================
