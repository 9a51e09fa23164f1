---------------------------------- MODULE Api ----------------------------------
(***************************************************************************)
(* What the backend answers to one call, as the screens of the frontend    *)
(* depend on it: the permission matrix of rbac/catalog.py, the permission  *)
(* each endpoint declares, the rows each account may reach (the scope_*    *)
(* functions), the guards the services add, and what an accepted call does *)
(* to the row it is about.                                                 *)
(*                                                                         *)
(* A row is [kind, status, ties, role].  ties says how the signed-in       *)
(* account is connected to it: "mine" (its own), "enrolled" (she has a     *)
(* live enrolment in its course), "taught" (she teaches its course),       *)
(* "recorded" (she entered it), "reviewed" (she has reviewed it), and      *)
(* "scanned" (of a payment: one of its proofs has been scanned clean).     *)
(* A "place" is what the enrolment form asks for: a course, with what      *)
(* holds of the student chosen: "inactive" (the account is), "barred" (has *)
(* a live enrolment in it already, or has lost the student role), "known"  *)
(* (and that enrolment is among those the form has read).                  *)
(* role is the primary role of a user row and "none" for any other.        *)
(* Numbers, names and texts are left out, and so is what a form's own      *)
(* fields can be refused for.                                              *)
(***************************************************************************)
EXTENDS Integers, TLC

Roles == {"OWNER", "ADMIN", "RECEPTION", "PROFESSOR", "STUDENT"}

\* Someone: a primary role, which no operation changes, and the roles held.
Everyone == [primary : Roles, roles : SUBSET Roles]

----------------------------------------------------------------------------
(* Permissions: codename by codename, as the matrix grants them. *)

AdminMay ==
  {"user.view", "user.create", "user.update", "user.deactivate", "user.reset_password",
   "course.view", "course.create", "course.update", "course.archive",
   "course.assign_professor", "schedule.view", "schedule.manage", "enrollment.view",
   "enrollment.create", "enrollment.update", "enrollment.cancel", "assessment.view",
   "assessment.manage", "score.view", "score.enter", "score.publish", "attendance.view",
   "attendance.record", "payment.view", "payment.create", "payment.approve",
   "payment.reject", "payment.cancel", "proof.upload", "proof.view", "review.view",
   "review.moderate", "notification.send", "report.view_operational",
   "report.view_financial", "report.export", "logistics.view", "logistics.manage",
   "expense.view", "expense.manage"}
OwnerMay == AdminMay \cup {"user.assign_role", "role.manage", "audit.view", "settings.manage"}
ReceptionMay ==
  {"user.view", "user.create", "user.update", "course.view", "schedule.view",
   "enrollment.view", "enrollment.create", "enrollment.update", "payment.view",
   "payment.create", "payment.cancel", "proof.upload", "proof.view",
   "report.view_operational", "attendance.view", "logistics.view", "expense.view"}
ProfessorMay ==
  {"user.view", "user.update", "course.view", "schedule.view", "enrollment.view",
   "assessment.view", "assessment.manage", "score.view", "score.enter", "score.publish",
   "attendance.view", "attendance.record", "review.view", "report.view_operational"}
StudentMay ==
  {"user.view", "user.update", "course.view", "schedule.view", "enrollment.view",
   "assessment.view", "score.view", "attendance.view", "payment.view", "proof.upload",
   "proof.view", "review.create", "review.view"}

RoleMatrix == [OWNER |-> OwnerMay, ADMIN |-> AdminMay, RECEPTION |-> ReceptionMay,
               PROFESSOR |-> ProfessorMay, STUDENT |-> StudentMay]

\* get_permissions: the union over the roles held.  "signed in" stands for
\* the endpoints that ask for nothing more.
Permissions == [R \in SUBSET Roles |-> {"signed in"} \cup UNION {RoleMatrix[r] : r \in R}]
Can(me, codename) == codename \in Permissions[me.roles]

\* required_permissions of the viewsets: endpoint -> codename.
UserNeeds ==
  "users.list" :> "user.view" @@ "users.retrieve" :> "user.view"
  @@ "users.create" :> "user.create" @@ "users.status" :> "user.deactivate"
  @@ "users.grant" :> "user.assign_role" @@ "users.revoke" :> "user.assign_role"
PasswordNeeds == "users.reset" :> "user.reset_password" @@ "password.change" :> "signed in"
CourseNeeds == "courses.list" :> "course.view" @@ "courses.retrieve" :> "course.view"
ScheduleNeeds == "schedules.list" :> "schedule.view"
EnrollmentNeeds ==
  "enrollments.list" :> "enrollment.view" @@ "enrollments.retrieve" :> "enrollment.view"
  @@ "enrollments.create" :> "enrollment.create"
\* Saving a sheet is the endpoint that reads it: can_mark_course is its guard.
AssessmentNeeds ==
  "assessments.list" :> "assessment.view" @@ "assessments.retrieve" :> "assessment.view"
  @@ "scores.list" :> "score.view" @@ "scores.save" :> "score.view"
  @@ "assessments.publish" :> "score.publish" @@ "gradebook" :> "score.view"
  @@ "my-marks" :> "score.view"
SessionNeeds ==
  "sessions.list" :> "attendance.view" @@ "sessions.retrieve" :> "attendance.view"
  @@ "sessions.sheet" :> "attendance.view" @@ "sessions.summary" :> "attendance.view"
  @@ "sessions.create" :> "attendance.record" @@ "sessions.register" :> "attendance.record"
PaymentNeeds ==
  "payments.list" :> "payment.view" @@ "payments.retrieve" :> "payment.view"
  @@ "balance" :> "payment.view" @@ "payments.create" :> "payment.create"
  @@ "payments.approve" :> "payment.approve" @@ "payments.reject" :> "payment.reject"
  @@ "payments.cancel" :> "payment.cancel"
  @@ "proofs.upload" :> "proof.upload" @@ "proofs.open" :> "proof.view"
ReviewNeeds ==
  "reviews.list" :> "review.view" @@ "reviews.summary" :> "review.view"
  @@ "reviews.create" :> "review.create" @@ "reviews.moderate" :> "review.moderate"
ItemNeeds ==
  "items.list" :> "logistics.view" @@ "items.retrieve" :> "logistics.view"
  @@ "logistics.overview" :> "logistics.view" @@ "items.create" :> "logistics.manage"
  @@ "items.update" :> "logistics.manage" @@ "items.delete" :> "logistics.manage"
LabelNeeds ==
  "categories.list" :> "logistics.view" @@ "locations.list" :> "logistics.view"
  @@ "labels.create" :> "logistics.manage" @@ "labels.update" :> "logistics.manage"
ExpenseNeeds ==
  "expenses.list" :> "expense.view" @@ "expenses.retrieve" :> "expense.view"
  @@ "expenses.summary" :> "expense.view" @@ "expenses.history" :> "expense.view"
  @@ "expenses.create" :> "expense.manage" @@ "expenses.update" :> "expense.manage"
  @@ "expenses.delete" :> "expense.manage"
ReportNeeds ==
  "reports.enrollments" :> "report.view_operational"
  @@ "reports.revenue" :> "report.view_financial"
  @@ "reports.outstanding" :> "report.view_financial"
  @@ "reports.management" :> "report.view_financial" @@ "reports.export" :> "report.export"
  @@ "exports.retrieve" :> "report.export" @@ "dashboard" :> "signed in"
OwnNeeds ==
  "audit.list" :> "audit.view" @@ "organisation.update" :> "settings.manage"
  @@ "organisation" :> "signed in" @@ "notifications.list" :> "signed in"
  @@ "notifications.read" :> "signed in"
Needs ==
  UserNeeds @@ PasswordNeeds @@ CourseNeeds @@ ScheduleNeeds @@ EnrollmentNeeds
  @@ AssessmentNeeds @@ SessionNeeds @@ PaymentNeeds @@ ReviewNeeds @@ ItemNeeds
  @@ LabelNeeds @@ ExpenseNeeds @@ ReportNeeds @@ OwnNeeds

----------------------------------------------------------------------------
(* Rows: what they are, and which of them an account reaches. *)

NoRow == [kind |-> "none", status |-> "none", ties |-> {}, role |-> "none"]
RowOf(kind, status, ties) == [kind |-> kind, status |-> status, ties |-> ties, role |-> "none"]

\* A course is FULL when it is ACTIVE with its last seat taken, ENDED when it
\* is completed, cancelled or archived; a place is in a course.  CANCELLED
\* stands for DROPPED too.
Statuses ==
  [user |-> {"ACTIVE", "INACTIVE", "SUSPENDED"},
   course |-> {"DRAFT", "ACTIVE", "FULL", "ENDED"},
   place |-> {"DRAFT", "ACTIVE", "FULL", "ENDED"},
   enrollment |-> {"ACTIVE", "COMPLETED", "SUSPENDED", "CANCELLED"},
   assessment |-> {"DRAFT", "PUBLISHED"},
   session |-> {"OPEN", "SUBMITTED"},
   payment |-> {"PENDING", "APPROVED", "REJECTED", "CANCELLED"},
   review |-> {"PENDING", "APPROVED", "HIDDEN", "REJECTED"},
   item |-> {"HELD", "DELETED"}, label |-> {"IN USE", "RETIRED"},
   expense |-> {"HELD", "DELETED"}]

\* Ties a row of each kind can have; she is a student or a professor of it, or
\* neither, and only what a desk enters is recorded by her.
TiesOf(kind) ==
  CASE kind = "user" -> {{}, {"mine"}}
    [] kind \in {"course", "assessment", "session"} -> {{}, {"enrolled"}, {"taught"}}
    [] kind = "enrollment" -> {{}, {"mine"}, {"mine", "reviewed"}, {"taught"}}
    [] kind = "payment" -> SUBSET {"mine", "recorded", "scanned"}
    [] kind = "place" -> {{}, {"inactive"}, {"barred"}, {"barred", "known"}}
    [] kind = "review" -> {{}, {"mine"}, {"enrolled"}, {"taught"}}
    [] OTHER -> {{}}

\* A student is enrolled, a professor teaches, and the others record.
TiedAs(primary) ==
  {"mine", "scanned", "inactive", "barred", "known"}
    \cup CASE primary = "STUDENT" -> {"enrolled", "reviewed"}
           [] primary = "PROFESSOR" -> {"taught"}
           [] OTHER -> {"recorded"}
Sensible(me, row) ==
  /\ row.ties \subseteq TiedAs(me.primary)
  /\ row.kind = "user" /\ "mine" \in row.ties => row.role = me.primary /\ row.status = "ACTIVE"
  /\ "mine" \in row.ties /\ row.kind # "user" => me.primary = "STUDENT"

Rows(me, kind) ==
  {row \in [kind : {kind}, status : Statuses[kind], ties : TiesOf(kind),
            role : IF kind = "user" THEN Roles ELSE {"none"}] : Sensible(me, row)}

scope_users(me, row) ==
  \/ Can(me, "user.deactivate")
  \/ (Can(me, "user.create") /\ row.role \in {"STUDENT", "PROFESSOR"})
  \/ "mine" \in row.ties
scope_courses(me, row) ==
  \/ Can(me, "course.create")
  \/ /\ row.status # "DRAFT"
     /\ Can(me, "enrollment.create") \/ row.ties \cap {"taught", "enrolled"} # {}
scope_enrollments(me, row) ==
  IF Can(me, "enrollment.create") THEN TRUE
  ELSE (IF Can(me, "score.enter") THEN "taught" ELSE "mine") \in row.ties
scope_payments(me, row) ==
  Can(me, "payment.create") \/ (Can(me, "payment.view") /\ "mine" \in row.ties)
scope_proofs(me, row) ==
  Can(me, "payment.create") \/ (Can(me, "proof.view") /\ "mine" \in row.ties)
scope_assessments(me, row) ==
  CASE Can(me, "course.create") -> TRUE
    [] ~Can(me, "course.create") /\ Can(me, "score.enter") -> "taught" \in row.ties
    [] OTHER -> /\ Can(me, "assessment.view") /\ "enrolled" \in row.ties
                /\ row.status = "PUBLISHED"
scope_sessions(me, row) ==
  IF Can(me, "course.create") \/ Can(me, "enrollment.create") THEN TRUE
  ELSE IF Can(me, "attendance.record") THEN "taught" \in row.ties
  ELSE Can(me, "attendance.view") /\ "enrolled" \in row.ties
scope_reviews(me, row) ==
  IF Can(me, "review.moderate") THEN TRUE
  ELSE IF Can(me, "score.enter") THEN "taught" \in row.ties /\ row.status = "APPROVED"
  ELSE "mine" \in row.ties \/ ("enrolled" \in row.ties /\ row.status = "APPROVED")

\* get_queryset of the row's viewset: what is outside of it answers 404.
Sees(me, row) ==
  CASE row.kind = "user" -> scope_users(me, row)
    [] row.kind = "course" -> scope_courses(me, row)
    [] row.kind = "enrollment" -> scope_enrollments(me, row)
    [] row.kind = "payment" -> scope_payments(me, row)
    [] row.kind = "assessment" -> scope_assessments(me, row)
    [] row.kind = "session" -> scope_sessions(me, row)
    [] row.kind = "review" -> scope_reviews(me, row)
    [] OTHER -> row.status # "DELETED"

----------------------------------------------------------------------------
(* Calls: the guards beyond permission and scope, and the effects. *)

can_manage_role(me, role) ==
  \/ Can(me, "user.assign_role")
  \/ (Can(me, "user.deactivate") /\ role \in {"STUDENT", "PROFESSOR", "RECEPTION"})
  \/ (Can(me, "user.create") /\ role \in {"STUDENT", "PROFESSOR"})
can_mark_course(me, row) ==
  Can(me, "course.create") \/ (Can(me, "score.enter") /\ "taught" \in row.ties)
can_record_for_course(me, row) ==
  Can(me, "course.create") \/ (Can(me, "attendance.record") /\ "taught" \in row.ties)

\* EnrollmentCreateSerializer: the student, the course, no live enrolment, a seat.
may_enrol(row) ==
  row.ties \cap {"inactive", "barred"} = {} /\ row.status \in {"DRAFT", "ACTIVE"}

\* Calls that name their row in the body: no queryset narrows it.
Posted == {"users.create", "enrollments.create", "sessions.create", "payments.create",
           "reviews.create"}

Guard(me, op, row) ==
  CASE op = "users.create" -> can_manage_role(me, row.role)
    [] op = "users.status" -> "mine" \notin row.ties /\ can_manage_role(me, row.role)
    \* validate_role asks can_manage_role of the role granted, and only an
    \* owner, who manages every role, gets this far.
    [] op \in {"users.grant", "users.revoke"} -> "mine" \notin row.ties
    [] op = "enrollments.create" -> may_enrol(row)
    [] op \in {"scores.save", "assessments.publish"} -> can_mark_course(me, row)
    [] op \in {"sessions.create", "sessions.register"} -> can_record_for_course(me, row)
    [] op = "payments.create" -> row.status # "CANCELLED"
    [] op = "payments.approve" -> row.status = "PENDING" /\ "recorded" \notin row.ties
    [] op = "payments.reject" -> row.status = "PENDING"
    [] op = "payments.cancel" ->
         row.status = "PENDING" /\ (Can(me, "payment.approve") \/ "recorded" \in row.ties)
    [] op = "proofs.open" -> "scanned" \in row.ties
    [] op = "reviews.create" -> row.status = "COMPLETED" /\ row.ties = {"mine"}
    [] OTHER -> TRUE

Accepts(me, op, row) ==
  /\ Can(me, Needs[op])
  /\ \/ op \in Posted \/ row = NoRow
     \/ IF op = "proofs.open" THEN scope_proofs(me, row) ELSE Sees(me, row)
  /\ Guard(me, op, row)

Becomes(row, statuses) == {[row EXCEPT !.status = s] : s \in statuses}

\* The states an accepted call may leave its row in.
After(op, row) ==
  CASE op = "users.status" -> Becomes(row, Statuses.user)
    [] op = "assessments.publish" -> Becomes(row, {"PUBLISHED"})
    [] op = "sessions.register" -> Becomes(row, {row.status, "SUBMITTED"})
    [] op = "payments.approve" -> Becomes(row, {"APPROVED"})
    [] op = "payments.reject" -> Becomes(row, {"REJECTED"})
    [] op = "payments.cancel" -> Becomes(row, {"CANCELLED"})
    [] op = "enrollments.create" ->
         {[place EXCEPT !.ties = @ \cup {"barred"}] : place \in Becomes(row, {row.status, "FULL"})}
    [] op = "reviews.create" -> {[row EXCEPT !.ties = @ \cup {"reviewed"}]}
    [] op = "reviews.moderate" -> Becomes(row, {"APPROVED", "HIDDEN", "REJECTED"})
    [] op \in {"items.delete", "expenses.delete"} -> Becomes(row, {"DELETED"})
    [] op = "labels.update" -> Becomes(row, {"IN USE", "RETIRED"} \ {row.status})
    [] OTHER -> {row}
================================================================================
