--------------------------- MODULE EnrollmentProofs ----------------------------
(***************************************************************************)
(* The enrolments component, for every set of students, courses, prices    *)
(* and requests: its types, one live enrolment, the dated archive, statuses*)
(* on record, and the price as a contract.                                 *)
(***************************************************************************)
EXTENDS Enrollment, TLAPS

Creating == {"open", "free", "seated"}

\* What a request holds of the rows it read.  A PATCH holds a copy whose
\* status may be out of date, and nothing else: the rest never changes.
RequestOK(w) ==
  LET r == requests[w] IN
  /\ r.step \in Creating =>
       r.student \in Students /\ r.course \in Courses /\ r.row \in CourseRow
  /\ r.step \in {"inserted", "editing"} => r.enrollment \in DOMAIN enrollments
  /\ r.step = "editing" =>
       /\ r.row \in Row
       /\ r.row.student = enrollments[r.enrollment].student
       /\ r.row.course = enrollments[r.enrollment].course
       /\ r.row.price = enrollments[r.enrollment].price
  /\ r.step = "editing course" =>
       /\ r.course \in Courses /\ r.row \in CourseRow
       /\ r.row.archived_at <=> r.row.status = "ARCHIVED"
  /\ r.step = "recording" => r.change \in Change
  /\ r.step # "recording" => r.change = Null

\* Changes that are recorded, known to be lost, or about to be recorded; and
\* what an enrolment, or a course, has been given besides.
Known == trail \cup unrecorded \cup {requests[w].change : w \in Workers}
Inserted == {w \in Workers : requests[w].step = "inserted"}
Given == Known \cup {<<requests[w].enrollment, "ACTIVE">> : w \in Inserted}
GivenCourses == Known \cup (Courses \X {"ACTIVE"})

\* Rows and the copies of them that requests still hold.
OnRecord ==
  /\ \A e \in DOMAIN enrollments : <<e, enrollments[e].status>> \in Given
  /\ \A c \in Courses : <<c, courses[c].status>> \in GivenCourses
  /\ \A w \in Workers :
       LET r == requests[w] IN
       /\ r.step = "editing" => <<r.enrollment, r.row.status>> \in Given
       /\ r.step = "editing course" => <<r.course, r.row.status>> \in GivenCourses

\* The inductive invariant: what is claimed of the rows holds only if the
\* copies in flight are as good as the rows.
IInv ==
  /\ TypeOK
  /\ \A w \in Workers : RequestOK(w)
  /\ OneLiveEnrollment
  /\ ArchivedWhileDated
  /\ OnRecord

LEMMA InitIInv == Init => IInv
<1> SUFFICES ASSUME Init PROVE IInv
  OBVIOUS
<1>1. Idle \in Request
  BY EnrollmentAssumption DEF Idle, Request, Steps, CreateSteps
<1>2. /\ requests \in [Workers -> Request]
      /\ \A w \in Workers : requests[w].step = "idle" /\ requests[w].change = Null
  BY <1>1 DEF Init, Idle
<1>3. TypeOK
  BY <1>2 DEF Init, TypeOK
<1>4. \A w \in Workers : RequestOK(w)
  BY <1>2 DEF RequestOK, Creating
<1>5. OneLiveEnrollment
  BY DEF Init, OneLiveEnrollment, LiveOn
<1>6. ArchivedWhileDated /\ \A c \in Courses : courses[c].status = "ACTIVE"
  BY DEF Init, ArchivedWhileDated
<1>7. OnRecord
  <2>1. DOMAIN enrollments = {}
    BY DEF Init
  <2> QED BY <2>1, <1>2, <1>6 DEF OnRecord, GivenCourses
<1> QED BY <1>3, <1>4, <1>5, <1>6, <1>7 DEF IInv

----------------------------------------------------------------------------
(* Facts used by every action.                                             *)

\* A request moves to r, and all the others stay.
LEMMA GotoOK ==
  ASSUME TypeOK, NEW w \in Workers, NEW r \in Request, Goto(w, r)
  PROVE  /\ requests' \in [Workers -> Request]
         /\ requests'[w] = r
         /\ \A v \in Workers \ {w} : requests'[v] = requests[v]
BY DEF TypeOK, Goto

LEMMA IdleType == Idle \in Request
BY EnrollmentAssumption DEF Idle, Request, Steps, CreateSteps

\* What a request in flight claims of itself, that of w apart, stays true when
\* the rows do or only gain statuses.
LEMMA OthersOK ==
  ASSUME IInv, NEW w \in Workers,
         \A v \in Workers \ {w} : requests'[v] = requests[v],
         DOMAIN enrollments \subseteq DOMAIN enrollments',
         \A e \in DOMAIN enrollments :
            /\ enrollments'[e].student = enrollments[e].student
            /\ enrollments'[e].course = enrollments[e].course
            /\ enrollments'[e].price = enrollments[e].price,
         RequestOK(w)'
  PROVE  \A v \in Workers : RequestOK(v)'
<1> SUFFICES ASSUME NEW v \in Workers \ {w} PROVE RequestOK(v)'
  OBVIOUS
<1>1. RequestOK(v) /\ requests'[v] = requests[v]
  BY DEF IInv
<1>2. PICK r : r = requests[v]
  OBVIOUS
<1>3. r.step \in {"inserted", "editing"} => r.enrollment \in DOMAIN enrollments
  BY <1>1, <1>2 DEF RequestOK
<1>4. r.step \in {"inserted", "editing"} => r.enrollment \in DOMAIN enrollments'
  BY <1>3
<1>5. r.step = "editing" =>
        /\ r.row \in Row
        /\ r.row.student = enrollments'[r.enrollment].student
        /\ r.row.course = enrollments'[r.enrollment].course
        /\ r.row.price = enrollments'[r.enrollment].price
  BY <1>1, <1>2, <1>3 DEF RequestOK
<1>6. /\ r.step \in Creating =>
           r.student \in Students /\ r.course \in Courses /\ r.row \in CourseRow
      /\ r.step = "editing course" =>
           /\ r.course \in Courses /\ r.row \in CourseRow
           /\ r.row.archived_at <=> r.row.status = "ARCHIVED"
      /\ r.step = "recording" => r.change \in Change
      /\ r.step # "recording" => r.change = Null
  BY <1>1, <1>2, Zenon DEF RequestOK
<1>7. r = requests'[v]
  BY <1>1, <1>2
<1> QED BY <1>4, <1>5, <1>6, <1>7, Zenon DEF RequestOK

\* A row has its type.
LEMMA RowType ==
  ASSUME TypeOK, NEW e \in DOMAIN enrollments
  PROVE  e \in Ids /\ enrollments[e] \in Row /\ enrollments[e].status \in EnrollmentStatus
<1>1. e \in Ids /\ enrollments[e] \in Row
  BY DEF TypeOK
<1> QED BY <1>1 DEF Row

\* A change that was known stays known, and a status that was given stays so,
\* unless the one request that carries it drops it.
LEMMA KnownStays ==
  ASSUME IInv, NEW w \in Workers,
         \A v \in Workers \ {w} : requests'[v] = requests[v],
         trail \subseteq trail', unrecorded \subseteq unrecorded',
         requests[w].step = "recording" => requests[w].change \in trail' \cup unrecorded',
         requests[w].step = "inserted" =>
           \/ requests'[w].change = <<requests[w].enrollment, "ACTIVE">>
           \/ <<requests[w].enrollment, "ACTIVE">> \in unrecorded'
  PROVE  /\ Given \cap Change \subseteq Given'
         /\ GivenCourses \cap Change \subseteq GivenCourses'
<1>1. Known \cap Change \subseteq Known'
  <2> SUFFICES ASSUME NEW change \in Known \cap Change PROVE change \in Known'
    OBVIOUS
  <2>1. CASE change \in trail \cup unrecorded
    BY <2>1 DEF Known
  <2>2. CASE change \notin trail \cup unrecorded
    <3>1. PICK v \in Workers : requests[v].change = change
      BY <2>2 DEF Known
    <3>2. requests[v].step = "recording"
      BY <3>1, EnrollmentAssumption DEF IInv, RequestOK
    <3>3. CASE v = w
      BY <3>1, <3>2, <3>3 DEF Known
    <3>4. CASE v # w
      BY <3>1, <3>4 DEF Known
    <3> QED BY <3>3, <3>4
  <2> QED BY <2>1, <2>2
<1>2. Given \cap Change \subseteq Given'
  <2> SUFFICES ASSUME NEW change \in Given \cap Change, change \notin Known PROVE change \in Given'
    BY <1>1 DEF Given
  <2>1. PICK v \in Inserted : change = <<requests[v].enrollment, "ACTIVE">>
    BY DEF Given
  <2>2. v \in Workers /\ requests[v].step = "inserted"
    BY <2>1 DEF Inserted
  <2>3. CASE v = w
    <3>1. change \in Known'
      BY <2>1, <2>2, <2>3 DEF Known
    <3> QED BY <3>1 DEF Given
  <2>4. CASE v # w
    <3>1. v \in Inserted' /\ requests'[v] = requests[v]
      BY <2>2, <2>4 DEF Inserted
    <3> QED BY <3>1, <2>1 DEF Given
  <2> QED BY <2>3, <2>4
<1> QED BY <1>1, <1>2 DEF GivenCourses

\* What is left to show of an action in which w moves to r: the types, what r
\* holds, and that the rows it touches are in order.
LEMMA StepOK ==
  ASSUME IInv, NEW w \in Workers, NEW r \in Request, Goto(w, r), TypeOK',
         trail \subseteq trail', unrecorded \subseteq unrecorded',
         requests[w].step = "recording" => requests[w].change \in trail' \cup unrecorded',
         requests[w].step = "inserted" =>
           \/ r.change = <<requests[w].enrollment, "ACTIVE">>
           \/ <<requests[w].enrollment, "ACTIVE">> \in unrecorded',
         DOMAIN enrollments \subseteq DOMAIN enrollments',
         \A e \in DOMAIN enrollments :
            /\ enrollments'[e].student = enrollments[e].student
            /\ enrollments'[e].course = enrollments[e].course
            /\ enrollments'[e].price = enrollments[e].price,
         \A e \in DOMAIN enrollments' :
            \/ e \in DOMAIN enrollments /\ enrollments'[e].status = enrollments[e].status
            \/ <<e, enrollments'[e].status>> \in (Given \cap Change) \cup Given',
         \A c \in Courses :
            \/ courses'[c].status = courses[c].status
            \/ <<c, courses'[c].status>> \in (GivenCourses \cap Change) \cup GivenCourses',
         RequestOK(w)',
         r.step = "editing" => <<r.enrollment, r.row.status>> \in Given,
         r.step = "editing course" => <<r.course, r.row.status>> \in GivenCourses,
         OneLiveEnrollment', ArchivedWhileDated'
  PROVE  IInv'
<1>1. /\ requests'[w] = r
      /\ \A v \in Workers \ {w} : requests'[v] = requests[v]
  BY GotoOK DEF IInv
<1>2. \A v \in Workers : RequestOK(v)'
  BY <1>1, OthersOK
<1>3. /\ Given \cap Change \subseteq Given'
      /\ GivenCourses \cap Change \subseteq GivenCourses'
  BY <1>1, KnownStays
<1>4. ASSUME NEW e \in DOMAIN enrollments' PROVE <<e, enrollments'[e].status>> \in Given'
  <2>1. CASE e \in DOMAIN enrollments /\ enrollments'[e].status = enrollments[e].status
    <3>1. <<e, enrollments[e].status>> \in Given
      BY <2>1 DEF IInv, OnRecord
    <3>2. <<e, enrollments[e].status>> \in Change
      BY <2>1, RowType DEF IInv, Change
    <3> QED BY <2>1, <3>1, <3>2, <1>3
  <2> QED BY <2>1, <1>3
<1>5. ASSUME NEW c \in Courses PROVE <<c, courses'[c].status>> \in GivenCourses'
  <2>1. CASE courses'[c].status = courses[c].status
    <3>1. <<c, courses[c].status>> \in GivenCourses
      BY DEF IInv, OnRecord
    <3>2. <<c, courses[c].status>> \in Change
      BY DEF IInv, TypeOK, CourseRow, Change
    <3> QED BY <2>1, <3>1, <3>2, <1>3
  <2> QED BY <2>1, <1>3
<1>6. ASSUME NEW v \in Workers
      PROVE  /\ requests'[v].step = "editing" =>
                  <<requests'[v].enrollment, requests'[v].row.status>> \in Given'
             /\ requests'[v].step = "editing course" =>
                  <<requests'[v].course, requests'[v].row.status>> \in GivenCourses'
  <2> DEFINE q == requests'[v]
  <2>1. RequestOK(v)'
    BY <1>2
  <2>2. /\ q.step = "editing" => <<q.enrollment, q.row.status>> \in Given
        /\ q.step = "editing course" => <<q.course, q.row.status>> \in GivenCourses
    <3>1. CASE v = w
      BY <3>1, <1>1
    <3>2. CASE v # w
      BY <3>2, <1>1 DEF IInv, OnRecord
    <3> QED BY <3>1, <3>2
  <2>3. q.step = "editing" => <<q.enrollment, q.row.status>> \in Change
    <3>1. q.step = "editing" => q.enrollment \in DOMAIN enrollments' /\ q.row \in Row
      BY <2>1 DEF RequestOK
    <3>2. DOMAIN enrollments' \subseteq Ids
      BY DEF TypeOK
    <3> QED BY <3>1, <3>2 DEF Row, Change
  <2>4. q.step = "editing course" => <<q.course, q.row.status>> \in Change
    BY <2>1 DEF RequestOK, CourseRow, Change
  <2> QED BY <2>2, <2>3, <2>4, <1>3
<1> QED BY <1>2, <1>4, <1>5, <1>6 DEF IInv, OnRecord

\* A row that does not clash with the index keeps one live enrolment.
LEMMA OneRow ==
  ASSUME OneLiveEnrollment, NEW e, NEW row, ~Clashes(e, row),
         DOMAIN enrollments' = DOMAIN enrollments \cup {e},
         enrollments'[e] = row,
         \A f \in DOMAIN enrollments \ {e} : enrollments'[f] = enrollments[f]
  PROVE  OneLiveEnrollment'
<1> SUFFICES ASSUME NEW c \in Courses, NEW f \in LiveOn(c)', NEW g \in LiveOn(c)',
                    enrollments'[f].student = enrollments'[g].student
             PROVE  f = g
  BY DEF OneLiveEnrollment
<1>1. ASSUME NEW x \in LiveOn(c)', x # e
      PROVE  x \in LiveOn(c) /\ enrollments'[x] = enrollments[x]
  BY <1>1 DEF LiveOn, is_live
<1>2. ASSUME e \in LiveOn(c)', NEW x \in LiveOn(c)', x # e, enrollments'[x].student = row.student
      PROVE  FALSE
  <2>1. is_live(row) /\ row.course = c
    BY <1>2 DEF LiveOn, is_live
  <2>2. x \in LiveOn(row.course) \ {e} /\ enrollments[x].student = row.student
    BY <1>1, <1>2, <2>1
  <2> QED BY <2>1, <2>2 DEF Clashes
<1>3. CASE f # e /\ g # e
  BY <1>1, <1>3 DEF OneLiveEnrollment
<1>4. CASE f = e /\ g # e
  BY <1>2, <1>4
<1>5. CASE g = e /\ f # e
  BY <1>2, <1>5
<1> QED BY <1>3, <1>4, <1>5

\* The rows are untouched.
LEMMA SameRows ==
  ASSUME IInv, UNCHANGED enrollments
  PROVE  OneLiveEnrollment'
BY DEF IInv, OneLiveEnrollment, LiveOn, is_live

LEMMA SameCourses ==
  ASSUME IInv, UNCHANGED courses
  PROVE  ArchivedWhileDated'
BY DEF IInv, ArchivedWhileDated

\* w only reads, or ends without having saved anything it has to record.
LEMMA Reading ==
  ASSUME IInv, NEW w \in Workers, NEW r \in Request, Goto(w, r),
         UNCHANGED <<courses, enrollments, notices, trail, unrecorded>>,
         requests[w].step \notin {"recording", "inserted"},
         RequestOK(w)',
         r.step = "editing" => <<r.enrollment, r.row.status>> \in Given,
         r.step = "editing course" => <<r.course, r.row.status>> \in GivenCourses
  PROVE  IInv'
<1>1. TypeOK'
  BY GotoOK DEF IInv, TypeOK
<1>2. OneLiveEnrollment' /\ ArchivedWhileDated'
  BY SameRows, SameCourses
<1> QED BY <1>1, <1>2, StepOK

\* An idle request holds nothing.
LEMMA IdleOK ==
  ASSUME NEW w \in Workers, requests'[w] = Idle
  PROVE  RequestOK(w)'
BY DEF RequestOK, Idle, Creating

----------------------------------------------------------------------------
(* The actions.                                                            *)

LEMMA StartEnrollIInv ==
  ASSUME IInv, NEW w \in Workers, NEW s \in Students, NEW c \in Courses, StartEnroll(w, s, c)
  PROVE  IInv'
<1> DEFINE r == [Idle EXCEPT !.step = "open", !.student = s, !.course = c, !.row = courses[c]]
<1>1. courses[c] \in CourseRow
  BY DEF IInv, TypeOK
<1>2. /\ r \in Request /\ r.step = "open" /\ r.student = s /\ r.course = c
      /\ r.row = courses[c] /\ r.change = Null
  BY <1>1 DEF Idle, Request, Steps, CreateSteps
<1>3. Goto(w, r) /\ requests[w].step = "idle"
  BY DEF StartEnroll, Idle
<1>4. requests'[w] = r
  BY <1>2, <1>3, GotoOK DEF IInv
<1>5. RequestOK(w)'
  BY <1>1, <1>2, <1>4 DEF RequestOK, Creating
<1> QED BY <1>2, <1>3, <1>5, Reading DEF StartEnroll

LEMMA CheckIInv ==
  ASSUME IInv, NEW w \in Workers, CheckLive(w) \/ CheckSeats(w)
  PROVE  IInv'
<1>1. PICK r \in {Idle, [requests[w] EXCEPT !.step = "free"], [requests[w] EXCEPT !.step = "seated"]} :
        Goto(w, r)
  BY DEF CheckLive, CheckSeats
<1>2. requests[w].step \in {"open", "free"} /\ RequestOK(w) /\ requests[w] \in Request
  BY DEF CheckLive, CheckSeats, IInv, TypeOK
<1>3. r \in Request
  <2>1. [requests[w] EXCEPT !.step = "free"] \in Request
    BY <1>2 DEF Request, Steps, CreateSteps
  <2>2. [requests[w] EXCEPT !.step = "seated"] \in Request
    BY <1>2 DEF Request, Steps, CreateSteps
  <2> QED BY <2>1, <2>2, IdleType
<1>4. requests'[w] = r
  BY <1>1, <1>3, GotoOK DEF IInv
<1>5. r.step \in {"idle", "free", "seated"} /\ RequestOK(w)'
  <2>1. CASE r = Idle
    BY <2>1, <1>4, IdleOK DEF Idle
  <2>2. CASE r # Idle
    <3>1. /\ r.step \in {"free", "seated"} /\ r.student = requests[w].student
          /\ r.course = requests[w].course /\ r.row = requests[w].row
          /\ r.change = requests[w].change
      BY <2>2, <1>2 DEF Request
    <3> QED BY <3>1, <1>2, <1>4 DEF RequestOK, Creating
  <2> QED BY <2>1, <2>2
<1> QED BY <1>1, <1>2, <1>3, <1>5, Reading DEF CheckLive, CheckSeats

LEMMA InsertEnrollmentIInv ==
  ASSUME IInv, NEW w \in Workers, InsertEnrollment(w)
  PROVE  IInv'
<1> DEFINE q == requests[w]
           e == Len(enrollments) + 1
           row == [student |-> q.student, course |-> q.course, status |-> "ACTIVE",
                   price |-> AgreedPrice(q)]
           r == [Idle EXCEPT !.step = "inserted", !.enrollment = e]
<1>1. q.step = "seated" /\ q.student \in Students /\ q.course \in Courses /\ q.row \in CourseRow
  BY DEF InsertEnrollment, IInv, RequestOK, Creating
<1>2. row \in Row /\ row.status = "ACTIVE"
  BY <1>1 DEF Row, CourseRow, AgreedPrice, EnrollmentStatus
<1>3. CASE Clashes(e, row)
  <2>1. Goto(w, Idle) /\ UNCHANGED <<courses, enrollments, notices, trail, unrecorded>>
    BY <1>3 DEF InsertEnrollment, Finish
  <2>2. requests'[w] = Idle /\ RequestOK(w)'
    BY <2>1, IdleType, GotoOK, IdleOK DEF IInv
  <2> QED BY <2>1, <2>2, <1>1, IdleType, Reading DEF Idle
<1>4. CASE ~Clashes(e, row)
  <2>1. /\ e \in Ids /\ enrollments' = Append(enrollments, row) /\ Goto(w, r)
        /\ UNCHANGED <<courses, notices, trail, unrecorded>>
    BY <1>4 DEF InsertEnrollment
  <2>2. r \in Request /\ r.step = "inserted" /\ r.enrollment = e /\ r.change = Null
    BY <2>1 DEF Idle, Request, Steps, CreateSteps
  <2>3. /\ enrollments \in Seq(Row) /\ DOMAIN enrollments = 1 .. Len(enrollments)
        /\ Len(enrollments) \in Nat /\ DOMAIN enrollments \subseteq Ids
    BY DEF IInv, TypeOK
  <2>4. /\ enrollments' \in Seq(Row)
        /\ DOMAIN enrollments' = DOMAIN enrollments \cup {e}
        /\ enrollments'[e] = row
        /\ \A f \in DOMAIN enrollments : enrollments'[f] = enrollments[f] /\ f # e
    BY <2>1, <2>3, <1>2
  <2>5. requests'[w] = r /\ requests' \in [Workers -> Request]
    BY <2>1, <2>2, GotoOK DEF IInv
  <2>6. TypeOK'
    BY <2>1, <2>3, <2>4, <2>5 DEF IInv, TypeOK
  <2>7. OneLiveEnrollment'
    BY <2>4, <1>4, OneRow DEF IInv
  <2>8. RequestOK(w)'
    BY <2>2, <2>4, <2>5 DEF RequestOK, Creating
  <2>9. <<e, "ACTIVE">> \in Given'
    BY <2>2, <2>5 DEF Given, Inserted
  <2> QED BY <2>1, <2>2, <2>4, <2>6, <2>7, <2>8, <2>9, <1>1, <1>2, SameCourses, StepOK
<1> QED BY <1>3, <1>4

LEMMA AnnounceIInv ==
  ASSUME IInv, NEW w \in Workers, Announce(w)
  PROVE  IInv'
<1> DEFINE e == requests[w].enrollment
           r == [Idle EXCEPT !.step = "recording", !.change = <<e, "ACTIVE">>]
<1>1. /\ requests[w].step = "inserted" /\ e \in DOMAIN enrollments /\ e \in Ids
      /\ Goto(w, r) /\ UNCHANGED <<courses, enrollments, trail, unrecorded>>
  BY DEF Announce, IInv, TypeOK, RequestOK
<1>2. <<e, "ACTIVE">> \in Change
  BY <1>1 DEF Change, EnrollmentStatus
<1>3. r \in Request /\ r.step = "recording" /\ r.change = <<e, "ACTIVE">>
  BY <1>2, IdleType DEF Idle, Request, Steps, CreateSteps
<1>4. requests'[w] = r /\ requests' \in [Workers -> Request]
  BY <1>1, <1>3, GotoOK DEF IInv
<1>5. RequestOK(w)'
  BY <1>2, <1>3, <1>4 DEF RequestOK, Creating
<1>6. TypeOK'
  BY <1>1, <1>4 DEF IInv, TypeOK, Announce
<1> QED BY <1>1, <1>3, <1>5, <1>6, SameRows, SameCourses, StepOK

\* A change whose audit row is lost is known to be.
LEMMA LoseOK ==
  ASSUME TypeOK, NEW change \in Change, Lose(change)
  PROVE  unrecorded' \subseteq Change /\ unrecorded \subseteq unrecorded' /\ change \in unrecorded'
BY DEF TypeOK, Lose

\* w ends, and what it had to record is recorded or lost.
LEMMA Ending ==
  ASSUME IInv, NEW w \in Workers, Finish(w), UNCHANGED <<courses, enrollments, notices>>,
         trail' \subseteq Change, unrecorded' \subseteq Change,
         trail \subseteq trail', unrecorded \subseteq unrecorded',
         requests[w].step = "recording" => requests[w].change \in trail' \cup unrecorded',
         requests[w].step = "inserted" => <<requests[w].enrollment, "ACTIVE">> \in unrecorded'
  PROVE  IInv'
<1>1. Goto(w, Idle) /\ Idle \in Request /\ Idle.step = "idle"
  BY IdleType DEF Finish, Idle
<1>2. requests'[w] = Idle /\ requests' \in [Workers -> Request]
  BY <1>1, GotoOK DEF IInv
<1>3. TypeOK' /\ RequestOK(w)'
  BY <1>2, IdleOK DEF IInv, TypeOK
<1> QED BY <1>1, <1>3, SameRows, SameCourses, StepOK

LEMMA RecordChangeIInv ==
  ASSUME IInv, NEW w \in Workers, RecordChange(w)
  PROVE  IInv'
<1> DEFINE change == requests[w].change
<1>1. change \in Change /\ requests[w].step = "recording"
  BY DEF RecordChange, IInv, RequestOK
<1>2. /\ trail' \subseteq Change /\ unrecorded' \subseteq Change
      /\ trail \subseteq trail' /\ unrecorded \subseteq unrecorded'
      /\ change \in trail' \cup unrecorded'
  <2>1. CASE trail' = trail \cup {change} /\ UNCHANGED unrecorded
    BY <1>1, <2>1 DEF IInv, TypeOK
  <2>2. CASE Lose(change) /\ UNCHANGED trail
    BY <1>1, <2>2, LoseOK DEF IInv, TypeOK
  <2> QED BY <2>1, <2>2 DEF RecordChange, Record
<1> QED BY <1>1, <1>2, Ending DEF RecordChange

LEMMA CrashIInv ==
  ASSUME IInv, NEW w \in Workers, Crash(w)
  PROVE  IInv'
<1> DEFINE r == requests[w]
<1>1. Finish(w) /\ UNCHANGED <<courses, enrollments, notices, trail>>
  BY DEF Crash
<1>2. CASE r.step = "recording" /\ Lose(r.change)
  <2>1. r.change \in Change
    BY <1>2 DEF IInv, RequestOK
  <2> QED BY <1>1, <1>2, <2>1, LoseOK, Ending DEF IInv, TypeOK
<1>3. CASE r.step = "inserted" /\ Lose(<<r.enrollment, "ACTIVE">>)
  <2>1. <<r.enrollment, "ACTIVE">> \in Change
    BY <1>3 DEF IInv, TypeOK, RequestOK, Change, EnrollmentStatus
  <2> QED BY <1>1, <1>3, <2>1, LoseOK, Ending DEF IInv, TypeOK
<1>4. CASE r.step \notin {"recording", "inserted"} /\ UNCHANGED unrecorded
  BY <1>1, <1>4, Ending DEF IInv, TypeOK
<1> QED BY <1>2, <1>3, <1>4 DEF Crash

\* One row gets another status, by a call or by a stale copy.
LEMMA RowReplaced ==
  ASSUME IInv, NEW e \in DOMAIN enrollments, NEW row \in Row,
         row.student = enrollments[e].student, row.course = enrollments[e].course,
         row.price = enrollments[e].price, ~Clashes(e, row),
         enrollments' = [enrollments EXCEPT ![e] = row]
  PROVE  /\ enrollments' \in Seq(Row) /\ DOMAIN enrollments' = DOMAIN enrollments
         /\ enrollments'[e] = row
         /\ \A f \in DOMAIN enrollments \ {e} : enrollments'[f] = enrollments[f]
         /\ \A f \in DOMAIN enrollments :
              /\ enrollments'[f].student = enrollments[f].student
              /\ enrollments'[f].course = enrollments[f].course
              /\ enrollments'[f].price = enrollments[f].price
         /\ OneLiveEnrollment'
<1>1. enrollments \in Seq(Row)
  BY DEF IInv, TypeOK
<1>2. /\ enrollments' \in Seq(Row) /\ DOMAIN enrollments' = DOMAIN enrollments
      /\ enrollments'[e] = row
      /\ \A f \in DOMAIN enrollments \ {e} : enrollments'[f] = enrollments[f]
  BY <1>1
<1> QED BY <1>2, OneRow DEF IInv

LEMMA SetStatusIInv ==
  ASSUME IInv, NEW w \in Workers, NEW e \in DOMAIN enrollments, NEW status \in NewStatuses,
         set_status(w, e, status)
  PROVE  IInv'
<1> DEFINE row == [enrollments[e] EXCEPT !.status = status]
           r == [Idle EXCEPT !.step = "recording", !.change = <<e, status>>]
<1>1. e \in Ids /\ enrollments[e] \in Row /\ status \in EnrollmentStatus
  BY RowType, EnrollmentAssumption DEF IInv
<1>2. /\ row \in Row /\ row.student = enrollments[e].student /\ row.status = status
      /\ row.course = enrollments[e].course /\ row.price = enrollments[e].price
  BY <1>1 DEF Row
<1>3. /\ ~Clashes(e, row) /\ enrollments' = [enrollments EXCEPT ![e] = row]
      /\ Goto(w, r) /\ requests[w].step = "idle"
      /\ UNCHANGED <<courses, notices, trail, unrecorded>>
  BY DEF set_status, StatusChange, Idle
<1>4. <<e, status>> \in Change
  BY <1>1 DEF Change
<1>5. r \in Request /\ r.step = "recording" /\ r.change = <<e, status>>
  BY <1>4, IdleType DEF Idle, Request, Steps
<1>6. requests'[w] = r /\ requests' \in [Workers -> Request]
  BY <1>3, <1>5, GotoOK DEF IInv
<1>7. RequestOK(w)'
  BY <1>4, <1>5, <1>6 DEF RequestOK, Creating
<1>8. /\ enrollments' \in Seq(Row) /\ DOMAIN enrollments' = DOMAIN enrollments
      /\ enrollments'[e] = row
      /\ \A f \in DOMAIN enrollments \ {e} : enrollments'[f] = enrollments[f]
      /\ \A f \in DOMAIN enrollments :
           /\ enrollments'[f].student = enrollments[f].student
           /\ enrollments'[f].course = enrollments[f].course
           /\ enrollments'[f].price = enrollments[f].price
      /\ OneLiveEnrollment'
  BY <1>2, <1>3, RowReplaced
<1>9. TypeOK'
  BY <1>3, <1>6, <1>8 DEF IInv, TypeOK
<1>10. <<e, status>> \in Given'
  BY <1>5, <1>6 DEF Given, Known
<1> QED BY <1>2, <1>3, <1>5, <1>7, <1>8, <1>9, <1>10, SameCourses, StepOK

LEMMA LoadEnrollmentIInv ==
  ASSUME IInv, NEW w \in Workers, NEW e \in DOMAIN enrollments, LoadEnrollment(w, e)
  PROVE  IInv'
<1> DEFINE r == [Idle EXCEPT !.step = "editing", !.enrollment = e, !.row = enrollments[e]]
<1>1. e \in Ids /\ enrollments[e] \in Row
  BY RowType DEF IInv
<1>2. /\ Goto(w, r) /\ requests[w].step = "idle"
      /\ UNCHANGED <<courses, enrollments, notices, trail, unrecorded>>
  BY DEF LoadEnrollment, Idle
<1>3. /\ r \in Request /\ r.step = "editing" /\ r.enrollment = e /\ r.row = enrollments[e]
      /\ r.change = Null
  BY <1>1, IdleType DEF Idle, Request, Steps
<1>4. requests'[w] = r
  BY <1>2, <1>3, GotoOK DEF IInv
<1>5. RequestOK(w)'
  BY <1>1, <1>2, <1>3, <1>4 DEF RequestOK, Creating
<1>6. <<r.enrollment, r.row.status>> \in Given
  BY <1>3 DEF IInv, OnRecord
<1> QED BY <1>2, <1>3, <1>5, <1>6, Reading

LEMMA SaveEnrollmentIInv ==
  ASSUME IInv, NEW w \in Workers, SaveEnrollment(w)
  PROVE  IInv'
<1> DEFINE q == requests[w]
           e == q.enrollment
<1>1. /\ q.step = "editing" /\ e \in DOMAIN enrollments /\ q.row \in Row
      /\ q.row.student = enrollments[e].student /\ q.row.course = enrollments[e].course
      /\ q.row.price = enrollments[e].price
  BY DEF SaveEnrollment, IInv, RequestOK
<1>2. Goto(w, Idle) /\ UNCHANGED <<courses, notices, trail, unrecorded>>
  BY DEF SaveEnrollment, Finish
<1>3. requests'[w] = Idle /\ requests' \in [Workers -> Request] /\ RequestOK(w)'
  BY <1>2, IdleType, GotoOK, IdleOK DEF IInv
<1>4. CASE Clashes(e, q.row)
  <2>1. UNCHANGED enrollments
    BY <1>4 DEF SaveEnrollment
  <2> QED BY <2>1, <1>1, <1>2, <1>3, IdleType, Reading DEF Idle
<1>5. CASE ~Clashes(e, q.row)
  <2>1. enrollments' = [enrollments EXCEPT ![e] = q.row]
    BY <1>5 DEF SaveEnrollment, RowSaved
  <2>2. /\ enrollments' \in Seq(Row) /\ DOMAIN enrollments' = DOMAIN enrollments
        /\ enrollments'[e] = q.row
        /\ \A f \in DOMAIN enrollments \ {e} : enrollments'[f] = enrollments[f]
        /\ \A f \in DOMAIN enrollments :
             /\ enrollments'[f].student = enrollments[f].student
             /\ enrollments'[f].course = enrollments[f].course
             /\ enrollments'[f].price = enrollments[f].price
        /\ OneLiveEnrollment'
    BY <1>1, <1>5, <2>1, RowReplaced
  <2>3. TypeOK'
    BY <1>2, <1>3, <2>2 DEF IInv, TypeOK
  <2>4. <<e, q.row.status>> \in Given \cap Change
    BY <1>1 DEF IInv, TypeOK, OnRecord, Row, Change
  <2>5. Idle.step = "idle"
    BY DEF Idle
  <2> QED BY <1>1, <1>2, <1>3, <2>2, <2>3, <2>4, <2>5, IdleType, SameCourses, StepOK
<1> QED BY <1>4, <1>5

LEMMA SetCourseStatusIInv ==
  ASSUME IInv, NEW w \in Workers, NEW c \in Courses, NEW status \in NewCourseStatuses,
         set_course_status(w, c, status)
  PROVE  IInv'
<1> DEFINE row == [courses[c] EXCEPT !.status = status, !.archived_at = ArchivedAt(c, status)]
           r == [Idle EXCEPT !.step = "recording", !.change = <<c, status>>]
<1>1. courses[c] \in CourseRow /\ status \in CourseStatus
  BY EnrollmentAssumption DEF IInv, TypeOK
<1>2. row \in CourseRow /\ row.status = status /\ (row.archived_at <=> status = "ARCHIVED")
  BY <1>1 DEF CourseRow, ArchivedAt
<1>3. /\ courses' = [courses EXCEPT ![c] = row] /\ Goto(w, r) /\ requests[w].step = "idle"
      /\ UNCHANGED <<enrollments, notices, trail, unrecorded>>
  BY DEF set_course_status, Idle
<1>4. <<c, status>> \in Change
  BY <1>1 DEF Change
<1>5. r \in Request /\ r.step = "recording" /\ r.change = <<c, status>>
  BY <1>4, IdleType DEF Idle, Request, Steps
<1>6. requests'[w] = r /\ requests' \in [Workers -> Request]
  BY <1>3, <1>5, GotoOK DEF IInv
<1>7. RequestOK(w)'
  BY <1>4, <1>5, <1>6 DEF RequestOK, Creating
<1>8. /\ courses' \in [Courses -> CourseRow] /\ courses'[c] = row
      /\ \A d \in Courses \ {c} : courses'[d] = courses[d]
  BY <1>2, <1>3 DEF IInv, TypeOK
<1>9. TypeOK'
  BY <1>3, <1>6, <1>8 DEF IInv, TypeOK
<1>10. ArchivedWhileDated'
  BY <1>2, <1>8 DEF IInv, ArchivedWhileDated
<1>11. <<c, status>> \in GivenCourses'
  <2>1. <<c, status>> \in Known'
    BY <1>5, <1>6 DEF Known
  <2> QED BY <2>1 DEF GivenCourses
<1> QED BY <1>2, <1>3, <1>5, <1>7, <1>8, <1>9, <1>10, <1>11, SameRows, StepOK

LEMMA LoadCourseIInv ==
  ASSUME IInv, NEW w \in Workers, NEW c \in Courses, NEW capacity \in Capacities,
         NEW price \in Prices, LoadCourse(w, c, capacity, price)
  PROVE  IInv'
<1> DEFINE row == [courses[c] EXCEPT !.capacity = capacity, !.price_minor = price]
           r == [Idle EXCEPT !.step = "editing course", !.course = c, !.row = row]
<1>1. courses[c] \in CourseRow
  BY DEF IInv, TypeOK
<1>2. /\ row \in CourseRow /\ row.status = courses[c].status
      /\ row.archived_at = courses[c].archived_at
  BY <1>1 DEF CourseRow
<1>3. /\ Goto(w, r) /\ requests[w].step = "idle"
      /\ UNCHANGED <<courses, enrollments, notices, trail, unrecorded>>
  BY DEF LoadCourse, Idle
<1>4. /\ r \in Request /\ r.step = "editing course" /\ r.course = c /\ r.row = row
      /\ r.change = Null
  BY <1>2, IdleType DEF Idle, Request, Steps
<1>5. requests'[w] = r
  BY <1>3, <1>4, GotoOK DEF IInv
<1>6. RequestOK(w)'
  <2>1. row.archived_at <=> row.status = "ARCHIVED"
    BY <1>2 DEF IInv, ArchivedWhileDated
  <2> HIDE DEF row, r
  <2> QED BY <2>1, <1>2, <1>4, <1>5 DEF RequestOK, Creating
<1>7. <<r.course, r.row.status>> \in GivenCourses
  <2>1. <<c, courses[c].status>> \in GivenCourses
    BY DEF IInv, OnRecord
  <2> QED BY <2>1, <1>2, <1>4
<1> QED BY <1>3, <1>4, <1>6, <1>7, Reading

LEMMA SaveCourseIInv ==
  ASSUME IInv, NEW w \in Workers, SaveCourse(w)
  PROVE  IInv'
<1> DEFINE q == requests[w]
           c == q.course
<1>1. /\ q.step = "editing course" /\ c \in Courses /\ q.row \in CourseRow
      /\ (q.row.archived_at <=> q.row.status = "ARCHIVED")
  BY DEF SaveCourse, IInv, RequestOK
<1>2. /\ Goto(w, Idle) /\ courses' = [courses EXCEPT ![c] = q.row]
      /\ UNCHANGED <<enrollments, notices, trail, unrecorded>>
  BY DEF SaveCourse, Finish
<1>3. requests'[w] = Idle /\ requests' \in [Workers -> Request] /\ RequestOK(w)'
  BY <1>2, IdleType, GotoOK, IdleOK DEF IInv
<1>4. /\ courses' \in [Courses -> CourseRow] /\ courses'[c] = q.row
      /\ \A d \in Courses \ {c} : courses'[d] = courses[d]
  BY <1>1, <1>2 DEF IInv, TypeOK
<1>5. TypeOK'
  BY <1>2, <1>3, <1>4 DEF IInv, TypeOK
<1>6. ArchivedWhileDated'
  BY <1>1, <1>4 DEF IInv, ArchivedWhileDated
<1>7. <<c, q.row.status>> \in GivenCourses \cap Change
  <2>1. <<c, q.row.status>> \in GivenCourses
    BY <1>1 DEF IInv, OnRecord
  <2>2. q.row.status \in CourseStatus
    BY <1>1 DEF CourseRow
  <2> QED BY <2>1, <2>2, <1>1 DEF Change
<1>8. Idle.step = "idle"
  BY DEF Idle
<1> QED BY <1>1, <1>2, <1>3, <1>4, <1>5, <1>6, <1>7, <1>8, IdleType, SameRows, StepOK

----------------------------------------------------------------------------
(* The theorems.                                                           *)

LEMMA NextIInv == IInv /\ [Next]_vars => IInv'
<1> SUFFICES ASSUME IInv, [Next]_vars PROVE IInv'
  OBVIOUS
<1>1. CASE UNCHANGED vars
  <2>1. Given' = Given /\ GivenCourses' = GivenCourses
    BY <1>1 DEF vars, Given, GivenCourses, Known, Inserted
  <2>2. OneLiveEnrollment' /\ ArchivedWhileDated'
    BY <1>1, SameRows, SameCourses DEF vars
  <2> QED BY <2>1, <2>2, <1>1 DEF vars, IInv, TypeOK, RequestOK, OnRecord
<1>2. CASE Next
  <2> PICK w \in Workers :
        \/ \E s \in Students, c \in Courses : StartEnroll(w, s, c)
        \/ CheckLive(w) \/ CheckSeats(w) \/ InsertEnrollment(w) \/ Announce(w) \/ RecordChange(w)
        \/ \E e \in DOMAIN enrollments :
              LoadEnrollment(w, e) \/ \E status \in NewStatuses : set_status(w, e, status)
        \/ SaveEnrollment(w) \/ SaveCourse(w)
        \/ \E c \in Courses, status \in NewCourseStatuses : set_course_status(w, c, status)
        \/ \E c \in Courses, capacity \in Capacities, price \in Prices :
              LoadCourse(w, c, capacity, price)
        \/ Crash(w)
    BY <1>2 DEF Next
  <2> QED
    BY StartEnrollIInv, CheckIInv, InsertEnrollmentIInv, AnnounceIInv, RecordChangeIInv,
       LoadEnrollmentIInv, SetStatusIInv, SaveEnrollmentIInv, SaveCourseIInv,
       SetCourseStatusIInv, LoadCourseIInv, CrashIInv
<1> QED BY <1>1, <1>2

LEMMA IInvHolds == Spec => []IInv
BY InitIInv, NextIInv, PTL DEF Spec

\* Every variable keeps its type.
THEOREM TypesHold == Spec => []TypeOK
<1>1. IInv => TypeOK
  BY DEF IInv
<1> QED BY <1>1, IInvHolds, PTL

\* However creates, withdrawals and PATCHes overlap, the index leaves one live
\* enrolment per student and course (enrollments/models.py).
THEOREM OneLiveEnrollmentHolds == Spec => []OneLiveEnrollment
<1>1. IInv => OneLiveEnrollment
  BY DEF IInv
<1> QED BY <1>1, IInvHolds, PTL

\* A course carries its archive date exactly while it is archived, though a
\* PATCH writes both back from an older copy.
THEOREM ArchivedWhileDatedHolds == Spec => []ArchivedWhileDated
<1>1. IInv => ArchivedWhileDated
  BY DEF IInv
<1> QED BY <1>1, IInvHolds, PTL

\* Whatever a PATCH puts back, no row carries a status nobody is on record for.
THEOREM StatusesAreOnRecordHolds == Spec => []StatusesAreOnRecord
<1>1. IInv => StatusesAreOnRecord
  <2> SUFFICES ASSUME IInv PROVE StatusesAreOnRecord
    OBVIOUS
  <2>1. ASSUME NEW e \in DOMAIN enrollments
        PROVE  \/ <<e, enrollments[e].status>> \in Known
               \/ enrollments[e].status = "ACTIVE" /\ \E w \in Workers :
                     requests[w].step = "inserted" /\ requests[w].enrollment = e
    <3>1. <<e, enrollments[e].status>> \in Given
      BY DEF IInv, OnRecord
    <3> QED BY <3>1 DEF Given, Inserted
  <2>2. ASSUME NEW c \in Courses, courses[c].status # "ACTIVE"
        PROVE  <<c, courses[c].status>> \in Known
    BY <2>2 DEF IInv, OnRecord, GivenCourses
  <2> QED BY <2>1, <2>2 DEF StatusesAreOnRecord, Known
<1> QED BY <1>1, IInvHolds, PTL

\* No step removes an enrolment or changes whose it is, for what, and at what
\* price, whatever happens to the catalogue.
THEOREM PriceIsAContractHolds == Spec => PriceIsAContract
<1>1. IInv /\ [Next]_vars =>
        [\A e \in DOMAIN enrollments :
           /\ e \in DOMAIN enrollments'
           /\ enrollments'[e] = [enrollments[e] EXCEPT !.status = enrollments'[e].status]]_enrollments
  <2> SUFFICES ASSUME IInv, IInv', Next, NEW e \in DOMAIN enrollments, enrollments' # enrollments
               PROVE  /\ e \in DOMAIN enrollments'
                      /\ enrollments'[e] = [enrollments[e] EXCEPT !.status = enrollments'[e].status]
    BY NextIInv DEF vars
  <2>1. enrollments \in Seq(Row) /\ enrollments[e] \in Row
    BY RowType DEF IInv, TypeOK
  <2>2. CASE \E w \in Workers : InsertEnrollment(w)
    <3>1. PICK row : enrollments' = Append(enrollments, row)
      BY <2>2 DEF InsertEnrollment
    <3>2. e \in DOMAIN enrollments' /\ enrollments'[e] = enrollments[e]
      BY <3>1, <2>1
    <3> QED BY <3>2, <2>1 DEF Row
  <2>3. CASE \E w \in Workers, f \in DOMAIN enrollments, status \in NewStatuses : set_status(w, f, status)
    <3>1. PICK f \in DOMAIN enrollments, status \in NewStatuses :
            enrollments' = [enrollments EXCEPT ![f] = [enrollments[f] EXCEPT !.status = status]]
      BY <2>3 DEF set_status
    <3> QED BY <3>1, <2>1 DEF Row
  <2>4. CASE \E w \in Workers : SaveEnrollment(w)
    <3>1. PICK w \in Workers : SaveEnrollment(w)
      BY <2>4
    <3> DEFINE q == requests[w]
    <3>2. /\ q.enrollment \in DOMAIN enrollments /\ q.row \in Row
          /\ q.row.student = enrollments[q.enrollment].student
          /\ q.row.course = enrollments[q.enrollment].course
          /\ q.row.price = enrollments[q.enrollment].price
      BY <3>1 DEF SaveEnrollment, IInv, RequestOK
    <3>3. enrollments' = [enrollments EXCEPT ![q.enrollment] = q.row]
      BY <3>1 DEF SaveEnrollment, RowSaved
    <3> QED BY <3>2, <3>3, <2>1 DEF Row
  <2> QED
    BY <2>2, <2>3, <2>4 DEF Next, StartEnroll, CheckLive, CheckSeats, Announce, RecordChange,
       LoadEnrollment, SaveCourse, set_course_status, LoadCourse, Crash
<1> QED BY <1>1, IInvHolds, PTL DEF Spec, PriceIsAContract
----------------------------------------------------------------------------
(* The register of places.                                                 *)

\* Two steps of the table the register tells apart.
PlaceStep == Register!RegisterNext \/ UNCHANGED RegisterView

LEMMA ViewOf ==
  ASSUME NEW e \in DOMAIN enrollments
  PROVE  /\ DOMAIN RegisterView = DOMAIN enrollments
         /\ RegisterView[e] = [student |-> enrollments[e].student, course |-> enrollments[e].course,
                               price |-> enrollments[e].price, live |-> is_live(enrollments[e])]
         /\ RegisterView[e].student = enrollments[e].student
         /\ RegisterView[e].course = enrollments[e].course
         /\ RegisterView[e].live <=> is_live(enrollments[e])
<1>1. PICK live : live = is_live(enrollments[e])
  OBVIOUS
<1>2. RegisterView[e] = [student |-> enrollments[e].student, course |-> enrollments[e].course,
                         price |-> enrollments[e].price, live |-> live]
  BY <1>1 DEF RegisterView
<1>3. DOMAIN RegisterView = DOMAIN enrollments
  BY DEF RegisterView
<1>4. /\ RegisterView[e].student = enrollments[e].student
      /\ RegisterView[e].course = enrollments[e].course
      /\ RegisterView[e].live = live
  BY <1>2
<1> QED BY <1>1, <1>2, <1>3, <1>4, Zenon

\* A place the register calls taken is a live row of the table.
LEMMA TakenIsLive ==
  ASSUME NEW s, NEW c, Register!HasPlace(s, c)
  PROVE  \E e \in LiveOn(c) : enrollments[e].student = s
<1>1. PICK e \in DOMAIN RegisterView :
        RegisterView[e].student = s /\ RegisterView[e].course = c /\ RegisterView[e].live
  BY DEF Register!HasPlace
<1>2. e \in DOMAIN enrollments
  BY <1>1 DEF RegisterView
<1>3. enrollments[e].student = s /\ enrollments[e].course = c /\ is_live(enrollments[e])
  BY <1>1, <1>2, ViewOf
<1> QED BY <1>2, <1>3 DEF LiveOn

\* A row written over itself, with the index behind it, is a withdrawal, a
\* place taken up again, or nothing the register sees.
LEMMA RewriteIsPlaceStep ==
  ASSUME IInv, NEW e \in DOMAIN enrollments, NEW row \in Row,
         row.student = enrollments[e].student, row.course = enrollments[e].course,
         row.price = enrollments[e].price, ~Clashes(e, row),
         enrollments' = [enrollments EXCEPT ![e] = row]
  PROVE  PlaceStep
<1>1. /\ DOMAIN enrollments' = DOMAIN enrollments /\ enrollments'[e] = row
      /\ \A f \in DOMAIN enrollments \ {e} : enrollments'[f] = enrollments[f]
  BY RowReplaced
<1> DEFINE written(live) == [RegisterView EXCEPT ![e].live = live]
<1>2. RegisterView' = written(is_live(row))
  <2>1. PICK k : k = [student |-> row.student, course |-> row.course,
                      price |-> row.price, live |-> is_live(row)]
    OBVIOUS
  <2>2. RegisterView'[e] = k
    BY <1>1, <2>1 DEF RegisterView, is_live
  <2>3. RegisterView[e] = [student |-> row.student, course |-> row.course,
                           price |-> row.price, live |-> is_live(enrollments[e])]
    BY ViewOf
  <2>4. written(is_live(row))[e] = k
    BY <2>1, <2>3 DEF RegisterView
  <2>5. ASSUME NEW f \in DOMAIN enrollments \ {e}
        PROVE  RegisterView'[f] = RegisterView[f] /\ written(is_live(row))[f] = RegisterView[f]
    BY <1>1 DEF RegisterView, is_live
  <2>6. /\ RegisterView' = [f \in DOMAIN enrollments |-> RegisterView'[f]]
        /\ written(is_live(row)) = [f \in DOMAIN enrollments |-> written(is_live(row))[f]]
    BY <1>1 DEF RegisterView
  <2>7. \A f \in DOMAIN enrollments : RegisterView'[f] = written(is_live(row))[f]
    BY <2>2, <2>4, <2>5
  <2> HIDE DEF written
  <2> QED BY <2>6, <2>7
<1>3. /\ RegisterView[e].live <=> is_live(enrollments[e])
      /\ RegisterView[e].student = row.student /\ RegisterView[e].course = row.course
      /\ e \in DOMAIN RegisterView
  BY ViewOf
<1>4. CASE is_live(row) = is_live(enrollments[e])
  <2>1. written(is_live(row)) = RegisterView
    BY <1>3, <1>4 DEF RegisterView
  <2> QED BY <1>2, <2>1 DEF PlaceStep
<1>5. CASE is_live(enrollments[e]) /\ ~is_live(row)
  <2>1. is_live(row) = FALSE
    BY <1>5 DEF is_live
  <2>2. Register!Withdraw(e)
    BY <1>2, <1>3, <1>5, <2>1 DEF Register!Withdraw
  <2> QED BY <1>3, <2>2 DEF PlaceStep, Register!RegisterNext
<1>6. CASE ~is_live(enrollments[e]) /\ is_live(row)
  <2>1. ~Register!HasPlace(row.student, row.course)
    <3>1. ASSUME NEW f \in LiveOn(row.course), enrollments[f].student = row.student PROVE FALSE
      <4>1. f # e
        BY <1>6 DEF LiveOn
      <4> QED BY <1>6, <3>1, <4>1 DEF Clashes
    <3> QED BY <3>1, TakenIsLive
  <2>2. is_live(row) = TRUE
    BY <1>6 DEF is_live
  <2>3. Register!TakeUp(e)
    BY <1>2, <1>3, <2>1, <2>2 DEF Register!TakeUp
  <2> QED BY <1>3, <2>3 DEF PlaceStep, Register!RegisterNext
<1>7. is_live(row) \in BOOLEAN /\ is_live(enrollments[e]) \in BOOLEAN
  BY DEF is_live
<1> QED BY <1>4, <1>5, <1>6, <1>7

\* A row inserted is a contract concluded.
LEMMA InsertIsPlaceStep ==
  ASSUME IInv, NEW w \in Workers, InsertEnrollment(w)
  PROVE  PlaceStep
<1> DEFINE q == requests[w]
           e == Len(enrollments) + 1
           row == [student |-> q.student, course |-> q.course, status |-> "ACTIVE",
                   price |-> AgreedPrice(q)]
<1>1. q.student \in Students /\ q.course \in Courses /\ AgreedPrice(q) \in Prices
  <2>1. q.student \in Students /\ q.course \in Courses /\ q.row \in CourseRow
    BY DEF InsertEnrollment, IInv, RequestOK, Creating
  <2> QED BY <2>1 DEF CourseRow, AgreedPrice
<1>2. CASE Clashes(e, row)
  BY <1>2 DEF InsertEnrollment, PlaceStep, RegisterView, is_live
<1>3. CASE ~Clashes(e, row)
  <2>1. enrollments' = Append(enrollments, row)
    BY <1>3 DEF InsertEnrollment
  <2>2. PICK n \in Nat : /\ n = Len(enrollments) /\ DOMAIN enrollments = 1 .. n
                         /\ enrollments \in Seq(Row)
    BY DEF IInv, TypeOK
  <2>3. /\ DOMAIN enrollments' = 1 .. n + 1 /\ enrollments'[n + 1] = row
        /\ \A f \in 1 .. n : enrollments'[f] = enrollments[f]
    BY <2>1, <2>2
  <2>4. PICK k : k = [student |-> q.student, course |-> q.course,
                      price |-> AgreedPrice(q), live |-> TRUE]
    OBVIOUS
  <2>5. RegisterView' = Append(RegisterView, k)
    <3>1. DOMAIN RegisterView = 1 .. n /\ DOMAIN RegisterView' = 1 .. n + 1
      BY <2>2, <2>3 DEF RegisterView
    <3>2. RegisterView'[n + 1] = k
      <4>1. PICK added : added = row
        OBVIOUS
      <4>2. /\ added.student = q.student /\ added.course = q.course
            /\ added.price = AgreedPrice(q) /\ added.status = "ACTIVE"
        BY <4>1
      <4>3. n + 1 \in DOMAIN enrollments' /\ enrollments'[n + 1] = added
        BY <2>3, <4>1
      <4>4. k = [student |-> added.student, course |-> added.course, price |-> added.price,
                 live |-> added.status \notin {"CANCELLED", "DROPPED"}]
        BY <2>4, <4>2
      <4> QED BY <4>3, <4>4 DEF RegisterView, is_live
    <3>3. \A f \in 1 .. n : RegisterView'[f] = RegisterView[f]
      BY <2>2, <2>3 DEF RegisterView, is_live
    <3>4. RegisterView \in Seq(Register!Contract) /\ k \in Register!Contract
      <4>1. ASSUME NEW f \in 1 .. n PROVE RegisterView[f] \in Register!Contract
        <5>1. enrollments[f] \in Row /\ f \in DOMAIN enrollments
          BY <2>2
        <5> QED BY <5>1 DEF RegisterView, is_live, Row, Register!Contract
      <4>2. RegisterView = [f \in 1 .. n |-> RegisterView[f]]
        BY <3>1 DEF RegisterView
      <4>3. k \in Register!Contract
        BY <1>1, <2>4 DEF Register!Contract
      <4> QED BY <4>1, <4>2, <4>3
    <3>5. PICK v, vv, C : v = RegisterView /\ vv = RegisterView' /\ C = Register!Contract
      OBVIOUS
    <3>6. v \in Seq(C) /\ k \in C /\ Len(v) = n
      BY <3>1, <3>4, <3>5
    <3>7. /\ DOMAIN Append(v, k) = 1 .. n + 1 /\ Append(v, k)[n + 1] = k
          /\ \A f \in 1 .. n : Append(v, k)[f] = v[f]
      BY <3>6
    <3>8. \A f \in 1 .. n + 1 : vv[f] = Append(v, k)[f]
      BY <3>2, <3>3, <3>5, <3>7
    <3>9. vv = Append(v, k)
      <4>1. vv = [f \in 1 .. n + 1 |-> vv[f]]
        BY <3>1, <3>5 DEF RegisterView
      <4>2. Append(v, k) = [f \in 1 .. n + 1 |-> Append(v, k)[f]]
        <5>1. PICK x : x = Append(v, k)
          OBVIOUS
        <5>2. x \in Seq(C) /\ DOMAIN x = 1 .. n + 1
          BY <3>6, <3>7, <5>1
        <5>3. x = [f \in 1 .. n + 1 |-> x[f]]
          BY <5>2
        <5> QED BY <5>1, <5>3
      <4> QED BY <3>8, <4>1, <4>2
    <3> QED BY <3>5, <3>9
  <2>6. ~Register!HasPlace(q.student, q.course)
    <3>1. ASSUME NEW f \in LiveOn(q.course), enrollments[f].student = q.student PROVE FALSE
      <4>1. f # e /\ is_live(row)
        BY <2>2 DEF LiveOn, is_live
      <4> QED BY <1>3, <3>1, <4>1 DEF Clashes
    <3> QED BY <3>1, TakenIsLive
  <2>7. Register!Conclude(q.student, q.course, AgreedPrice(q))
    BY <2>4, <2>5, <2>6 DEF Register!Conclude
  <2> QED BY <1>1, <2>7 DEF PlaceStep, Register!RegisterNext
<1> QED BY <1>2, <1>3

LEMMA NextIsPlaceStep == IInv /\ [Next]_vars => PlaceStep
<1> SUFFICES ASSUME IInv, [Next]_vars PROVE PlaceStep
  OBVIOUS
<1>1. CASE UNCHANGED enrollments
  BY <1>1 DEF PlaceStep, RegisterView, is_live
<1>2. CASE \E w \in Workers : InsertEnrollment(w)
  BY <1>2, InsertIsPlaceStep
<1>3. CASE \E w \in Workers, e \in DOMAIN enrollments, status \in NewStatuses : set_status(w, e, status)
  <2>1. PICK w \in Workers, e \in DOMAIN enrollments, status \in NewStatuses : set_status(w, e, status)
    BY <1>3
  <2>2. PICK row : row = [enrollments[e] EXCEPT !.status = status]
    OBVIOUS
  <2>3. enrollments[e] \in Row /\ status \in EnrollmentStatus
    BY RowType, EnrollmentAssumption DEF IInv
  <2>4. /\ row \in Row /\ row.student = enrollments[e].student
        /\ row.course = enrollments[e].course /\ row.price = enrollments[e].price
    BY <2>2, <2>3 DEF Row
  <2>5. ~Clashes(e, row) /\ enrollments' = [enrollments EXCEPT ![e] = row]
    BY <2>1, <2>2 DEF set_status
  <2> QED BY <2>4, <2>5, RewriteIsPlaceStep
<1>4. CASE \E w \in Workers : SaveEnrollment(w)
  <2>1. PICK w \in Workers : SaveEnrollment(w)
    BY <1>4
  <2>2. PICK e, row : e = requests[w].enrollment /\ row = requests[w].row
    OBVIOUS
  <2>3. /\ e \in DOMAIN enrollments /\ row \in Row /\ row.student = enrollments[e].student
        /\ row.course = enrollments[e].course /\ row.price = enrollments[e].price
    BY <2>1, <2>2 DEF SaveEnrollment, IInv, RequestOK
  <2>4. CASE Clashes(e, row)
    BY <2>1, <2>2, <2>4, <1>1 DEF SaveEnrollment
  <2>5. CASE ~Clashes(e, row)
    <3>1. enrollments' = [enrollments EXCEPT ![e] = row]
      BY <2>1, <2>2, <2>5 DEF SaveEnrollment, RowSaved
    <3> QED BY <2>3, <2>5, <3>1, RewriteIsPlaceStep
  <2> QED BY <2>4, <2>5
<1> QED
  BY <1>1, <1>2, <1>3, <1>4 DEF vars, Next, StartEnroll, CheckLive, CheckSeats, Announce,
     RecordChange, LoadEnrollment, SaveCourse, set_course_status, LoadCourse, Crash

\* The enrolments component is a register of places: checks that come too
\* early and stale rows written back included, a student never has two live
\* places on a course, and each is had at the price it was concluded at.
THEOREM EnrollmentIsPlaceRegister == Spec => IsPlaceRegister
<1>1. Init => Register!RegisterInit
  BY DEF Init, RegisterView, Register!RegisterInit
<1>2. IInv /\ [Next]_vars => [Register!RegisterNext]_RegisterView
  BY NextIsPlaceStep DEF PlaceStep
<1> QED BY <1>1, <1>2, IInvHolds, PTL DEF Spec, IsPlaceRegister, Register!RegisterSpec
================================================================================
