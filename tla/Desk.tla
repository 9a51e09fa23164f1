--------------------------------- MODULE Desk ----------------------------------
(***************************************************************************)
(* The screens of the front desk and of the classroom: money, enrolments,  *)
(* courses, timetable, marks, attendance and reviews.  See Screens for     *)
(* what the elements mean.                                                 *)
(***************************************************************************)
EXTENDS Screens

(* Payments. *)

PaymentColumns == {Link("/payments/[publicId]", "listed")}
PaymentsPage(me) ==
  {Gate("payment.view", "no access"), Main("payments.list", "none", "error")}
    \cup PrintButton("/print/payments", "none")
    \cup IfMay(me, "payment.create", Lists({"/payments/new"})) \cup PaymentColumns

\* The row is the enrolment chosen; only ACTIVE ones are asked for.
PaymentForm(row) == When(row # NoRow, {Offer("payments.create")})
NewPaymentPage(row) ==
  {Gate("payment.create", "/payments"), Read("enrollments.list", "none")}
    \cup Lists({"/payments"}) \cup PaymentForm(row)

recordedByAnother(row) == FALSE  \* faulty: the panel that does not compare
recordedByMe(row) == "recorded" \in row.ties
\* Nothing once it is decided; the approve button is disabled for one's own.
ApprovalPanel(me, row) ==
  When(row.status = "PENDING",
    When(Can(me, "payment.approve") /\ ~recordedByMe(row), {Offer("payments.approve")})
      \cup IfMay(me, "payment.reject", {Offer("payments.reject")})
      \cup When(Can(me, "payment.cancel") /\ (Can(me, "payment.approve") \/ recordedByMe(row)),
                {Offer("payments.cancel")}))
\* A proof opens once it has been scanned, whoever looks at the payment.
ProofList(me, row) ==
  When("scanned" \in row.ties, {Offer("proofs.open")})
    \cup IfMay(me, "proof.upload", {Offer("proofs.upload")})

PaymentPage(me, row) ==
  {Main("payments.retrieve", "this", "not found"), Link("/courses/[publicId]", "course")}
    \cup Lists({"/payments"}) \cup PrintButton("/print/receipt/[publicId]", "this")
    \cup ApprovalPanel(me, row) \cup ProofList(me, row)

----------------------------------------------------------------------------
(* Enrolments. *)

enrollmentColumns == {Link("/courses/[publicId]", "course of listed"), Link("/enrollments/[id]", "listed")}
EnrollmentsPage(me) ==
  {Main("enrollments.list", "none", "error")} \cup PrintButton("/print/enrollments", "none")
    \cup IfMay(me, "enrollment.create", Lists({"/enrollments/new"})) \cup enrollmentColumns

\* The row is the place asked for, of the student and the course chosen; the
\* button is disabled while the course is full, and for an enrolment the form
\* knows of.  (It takes a withdrawn one for live, and only offers less for it.)
EnrolForm(row) ==
  When(row # NoRow /\ row.status # "FULL" /\ "known" \notin row.ties,
       {Offer("enrollments.create")})
NewEnrolmentPage(row) ==
  {Gate("enrollment.create", "/enrollments"), Read("users.list", "none"),
   Read("courses.list", "none"), Read("enrollments.list", "none")}
    \cup Lists({"/enrollments"}) \cup EnrolForm(row)

EnrollmentPayments(me) ==
  {Link("/payments/[publicId]", "listed")} \cup IfMay(me, "payment.create", Lists({"/payments/new"}))
BalanceCard == {Read("balance", "none")}
EnrollmentPage(me) ==
  {Main("enrollments.retrieve", "this", "not found"), Link("/courses/[publicId]", "course")}
    \cup Lists({"/enrollments"})
    \cup IfMay(me, "user.view", {Link("/users/[publicId]", "student")})
    \cup IfMay(me, "payment.view",
               {Read("payments.list", "none")} \cup BalanceCard \cup EnrollmentPayments(me))

----------------------------------------------------------------------------
(* Courses and the timetable. *)

CourseColumns == {Link("/courses/[publicId]", "listed")}
CoursesPage ==
  {Main("courses.list", "none", "error")} \cup PrintButton("/print/courses", "none")
    \cup CourseColumns
CoursePage(me) ==
  {Main("courses.retrieve", "this", "not found")} \cup Lists({"/courses"})
    \cup IfMay(me, "enrollment.view", Lists({"/enrollments"}))
    \cup IfMay(me, "score.view", Lists({"/grades"}))
    \cup IfMay(me, "payment.view", Lists({"/payments"}))
    \cup IfMay(me, "schedule.view", {Read("schedules.list", "none")} \cup Lists({"/schedules"}))
    \cup IfMay(me, "assessment.view",
               {Read("assessments.list", "none"), Link("/grades/[assessmentId]", "listed")})

WeekGrid == {Link("/courses/[publicId]", "course of listed")}
WeekList == WeekGrid
SchedulesPage ==
  {Main("schedules.list", "none", "error")} \cup PrintButton("/print/schedule", "none")
    \cup WeekGrid \cup WeekList

----------------------------------------------------------------------------
(* Marks. *)

GradebookTable == {Link("/enrollments/[id]", "listed")}
MyMarks == {Main("my-marks", "none", "error")}
\* Two pages in one: a class's gradebook for whoever enters marks, one's own
\* marks for whoever does not.
GradesPage(me) ==
  {Gate("score.view", "no access")}
    \cup IF ~Can(me, "score.enter") THEN MyMarks
         ELSE {Read("courses.list", "none"), Read("gradebook", "none"),
               Read("assessments.list", "none"), Link("/grades/[assessmentId]", "listed")}
                \cup Lists({"/grades"}) \cup GradebookTable

MarkSheet(me) == IfMay(me, "score.enter", {Offer("scores.save")})
\* Once published the panel is a notice.
PublishPanel(me, row) ==
  When(row.status = "DRAFT" /\ Can(me, "score.publish"), {Offer("assessments.publish")})
AssessmentPage(me, row) ==
  {Main("assessments.retrieve", "this", "not found"), Read("enrollments.list", "none"),
   Read("scores.list", "this")}
    \cup Lists({"/grades"}) \cup PublishPanel(me, row) \cup MarkSheet(me)

----------------------------------------------------------------------------
(* Attendance. *)

RegisterTable == {Link("/attendance/[id]", "listed")}
AttendancePage(me) ==
  {Gate("attendance.view", "no access"), Main("sessions.list", "none", "error"),
   Read("sessions.summary", "none"), Read("courses.list", "none")}
    \cup PrintButton("/print/attendance", "none")
    \cup IfMay(me, "attendance.record", Lists({"/attendance/new"})) \cup RegisterTable

\* The row is the course chosen, one of the ACTIVE ones she is listed.
OpenRegisterForm(row) == When(row # NoRow, {Offer("sessions.create")})
NewRegisterPage(row) ==
  {Gate("attendance.record", "/attendance"), Read("courses.list", "none")}
    \cup Lists({"/attendance"}) \cup OpenRegisterForm(row)

RegisterSheet(me) == IfMay(me, "attendance.record", {Offer("sessions.register")})
RegisterPage(me) ==
  {Gate("attendance.view", "no access"), Main("sessions.sheet", "this", "not found")}
    \cup Lists({"/attendance"}) \cup PrintButton("/print/register/[id]", "this")
    \cup RegisterSheet(me)

----------------------------------------------------------------------------
(* Reviews.  The row is one of the cards, or an enrolment the form offers. *)

WriteReview(row) == When(row.kind = "enrollment", {Offer("reviews.create")})
ReviewCard(me, row) ==
  When(row.kind = "review" /\ Can(me, "review.moderate"), {Offer("reviews.moderate")})
ReviewsPage(me, row) ==
  {Gate("review.view", "no access"), Main("reviews.list", "none", "error"),
   Read("reviews.summary", "none")}
    \cup IfMay(me, "review.create", {Read("enrollments.list", "none")} \cup WriteReview(row))
    \cup ReviewCard(me, row)
================================================================================
