------------------------------- MODULE Browsing --------------------------------
(***************************************************************************)
(* One person at the frontend while the institute goes on around her: she  *)
(* signs in, follows links and presses what the page offers; others decide *)
(* her rows meanwhile, change her roles or end her session; an answer is   *)
(* lost on its way back.                                                   *)
(*                                                                         *)
(* A page is rendered on the server from what is true then, and is not     *)
(* told of anything afterwards: it keeps the roles and the row it was      *)
(* rendered with (page.me, page.row) next to the ones that hold (me, row). *)
(* She stays on a page while a call of hers is out.                        *)
(***************************************************************************)
EXTENDS Desk, Stores

CONSTANTS Accounts,   \* the roles an account may hold: those of its primary role, and more
          Idle        \* no call is out

VARIABLES
  me,        \* the account, with the roles it holds now
  session,   \* "none": no cookie; "live"; "ended": a cookie the backend no longer knows
  row,       \* the row the page is about, as it is now
  page,      \* [asked, at, me, row]: the screen asked for, the one shown, what it was shown with
  call,      \* the call that is out, or Idle
  answer     \* how the last call was answered

browseVars == <<me, session, row, page, call, answer>>

----------------------------------------------------------------------------
(* The routes. *)

Plain ==  \* outside the dashboard's frame
  {"/print/payments", "/print/receipt/[publicId]", "/print/enrollments", "/print/courses",
   "/print/schedule", "/print/attendance", "/print/register/[id]", "/print/students",
   "/print/student/[publicId]", "/print/logistics", "/print/expenses", "/print/financial",
   "/print/management", "/login"}

Contents(s, who, r) ==
  CASE s = "/dashboard" -> DashboardPage(who)
    [] s = "/account" -> AccountPage
    [] s = "/settings" -> SettingsPage(who)
    [] s = "/notifications" -> NotificationsPage(who)
    [] s = "/users" -> UsersPage(who)
    [] s = "/users/new" -> NewPersonPage(who, r)
    [] s = "/users/[publicId]" -> UserPage(who, r)
    [] s = "/payments" -> PaymentsPage(who)
    [] s = "/payments/new" -> NewPaymentPage(r)
    [] s = "/payments/[publicId]" -> PaymentPage(who, r)
    [] s = "/enrollments" -> EnrollmentsPage(who)
    [] s = "/enrollments/new" -> NewEnrolmentPage(r)
    [] s = "/enrollments/[id]" -> EnrollmentPage(who)
    [] s = "/courses" -> CoursesPage
    [] s = "/courses/[publicId]" -> CoursePage(who)
    [] s = "/schedules" -> SchedulesPage
    [] s = "/grades" -> GradesPage(who)
    [] s = "/grades/[assessmentId]" -> AssessmentPage(who, r)
    [] s = "/attendance" -> AttendancePage(who)
    [] s = "/attendance/new" -> NewRegisterPage(r)
    [] s = "/attendance/[id]" -> RegisterPage(who)
    [] s = "/reviews" -> ReviewsPage(who, r)
    [] s = "/logistics" -> LogisticsPage(who)
    [] s = "/logistics/new" -> NewItemPage
    [] s = "/logistics/[publicId]" -> ItemPage(who)
    [] s = "/logistics/[publicId]/edit" -> EditItemPage(r)
    [] s = "/logistics/setup" -> SetupPage(who, r)
    [] s = "/logistics/expenses" -> ExpensesPage(who)
    [] s = "/logistics/expenses/new" -> NewExpensePage
    [] s = "/logistics/expenses/[publicId]/edit" -> EditExpensePage(r)
    [] s = "/logistics/expenses/history" -> HistoryPage(who)
    [] s = "/reports" -> ReportsPage(who)
    [] s = "/audit" -> AuditPage
    [] s = "/print/payments" -> PrintPayments
    [] s = "/print/receipt/[publicId]" -> PrintReceipt
    [] s = "/print/enrollments" -> PrintEnrollments
    [] s = "/print/courses" -> PrintCourses
    [] s = "/print/schedule" -> PrintSchedule
    [] s = "/print/attendance" -> PrintAttendance
    [] s = "/print/register/[id]" -> PrintRegister
    [] s = "/print/students" -> PrintStudents
    [] s = "/print/student/[publicId]" -> PrintStudent(who)
    [] s = "/print/logistics" -> PrintLogistics
    [] s = "/print/expenses" -> PrintExpenses
    [] s = "/print/financial" -> PrintFinancial
    [] s = "/print/management" -> PrintManagement
    [] OTHER -> {Gate("no such route", "not found")}

Elements(s, who, r) ==
  Contents(s, who, r) \cup (IF s \in Plain THEN {} ELSE DashboardLayout(who))
Of(is, elements) == {e \in elements : e.is = is}
On(e, r) == IF e.on = "this" THEN r ELSE NoRow

\* Ends a screen's render may come to that are not screens.
Ends == {"no access", "error", "not found"}

\* Where one comes out who asks for s: the gates first, then the reads without
\* which there is nothing to show.
Sent(s, who, r) ==
  LET all == Elements(s, who, r)
      gates == {e \in Of("gate", all) : ~Can(who, e.name)}
      mains == {e \in Of("main", all) : ~Accepts(who, e.name, On(e, r))}
  IN  IF gates # {} THEN (CHOOSE e \in gates : TRUE).to
      ELSE IF mains # {} THEN (CHOOSE e \in mains : TRUE).to
      ELSE s
\* A redirect is a request of its own.
Lands(s, who, r, signedIn) ==
  CASE ~signedIn -> "/login"
    [] signedIn /\ s = "/login" -> "/dashboard"
    [] OTHER -> LET first == Sent(s, who, r)
                IN  IF first \in Ends \cup {s} THEN first ELSE Sent(first, who, r)

Shown == IF page.at \in Ends \cup {"/login"} THEN {} ELSE Elements(page.at, page.me, page.row)

----------------------------------------------------------------------------
(* Which row a link leads to. *)

KindOf ==
  "/users/[publicId]" :> "user" @@ "/courses/[publicId]" :> "course"
  @@ "/enrollments/[id]" :> "enrollment" @@ "/payments/[publicId]" :> "payment"
  @@ "/grades/[assessmentId]" :> "assessment" @@ "/attendance/[id]" :> "session"
  @@ "/logistics/[publicId]" :> "item" @@ "/logistics/expenses/[publicId]/edit" :> "expense"

Listed(who, kind) == {r \in Rows(who, kind) : Sees(who, r)}

\* A withdrawn enrolment no longer ties its student to the course.
CoursesOf(who, r) ==
  {c \in Rows(who, "course") :
     CASE who.primary = "STUDENT" ->
            c.ties = (IF r.status = "CANCELLED" /\ r.kind = "enrollment" THEN {} ELSE {"enrolled"})
       [] who.primary = "PROFESSOR" -> c.ties = {"taught"}
       [] OTHER -> TRUE}

\* The row a form or a list with buttons is used for, one of those it shows.
Options(who, s) ==
  CASE s = "/payments/new" -> {r \in Listed(who, "enrollment") : r.status = "ACTIVE"}
    [] s = "/enrollments/new" ->
         {r \in Rows(who, "place") :
            scope_courses(who, r) /\ r.status # "ENDED" /\ "inactive" \notin r.ties}
    [] s = "/users/new" -> {r \in Rows(who, "user") : r.ties = {} /\ r.status = "ACTIVE"}
    [] s = "/attendance/new" -> {r \in Listed(who, "course") : r.status \in {"ACTIVE", "FULL"}}
    [] s = "/reviews" ->
         \* a reviewed enrolment drops out only if its review is on the page shown
         Listed(who, "review") \cup {r \in Listed(who, "enrollment") : r.status = "COMPLETED"}
    [] s = "/logistics/setup" -> Rows(who, "label")
    [] OTHER -> {}
Forms == {"/payments/new", "/enrollments/new", "/users/new", "/attendance/new", "/reviews",
          "/logistics/setup"}
\* A form's choice stands when it is rendered again as long as it is offered.
Chosen(who, s, r) ==
  CASE s \notin Forms -> {r}
    [] s \in Forms /\ r \in Options(who, s) -> {r}
    [] OTHER -> IF Options(who, s) = {} THEN {NoRow} ELSE Options(who, s)

Targets(who, e, r) ==
  CASE e.on = "this" -> {r}
    [] e.on = "self" -> {u \in Rows(who, "user") : isSelf(u)}
    [] e.on = "student" ->
         {u \in Rows(who, "user") : u.role = "STUDENT" /\ (isSelf(u) <=> "mine" \in r.ties)}
    [] e.on = "course" -> CoursesOf(who, r)
    [] e.on = "course of listed" -> Rows(who, "course")
    [] e.on = "listed" -> Listed(who, KindOf[e.name])
    [] OTHER -> {NoRow}

Render(s, r, signedIn) ==
  \E x \in Chosen(me, s, r) :
    /\ page' = [asked |-> s, at |-> Lands(s, me, x, signedIn), me |-> me, row |-> x]
    /\ row' = x

----------------------------------------------------------------------------
(* What she does. *)

\* The proxy knows a visitor without a cookie and keeps where she was going.
Login ==
  /\ page.at = "/login" /\ session # "live"
  /\ session' = "live"
  /\ IF session = "none" /\ page.asked # "/login" THEN Render(page.asked, row, TRUE)
     ELSE Render("/dashboard", NoRow, TRUE)
  /\ UNCHANGED <<me, call, answer>>

Follow(e) ==
  /\ call = Idle
  /\ \E r \in Targets(page.me, e, row) : Render(e.name, r, session = "live")
  /\ answer' = "none"
  /\ UNCHANGED <<me, session, call>>

\* signOut: to the login page whether or not the call arrived.
Logout ==
  /\ call = Idle /\ Offer("logout") \in Shown
  /\ session' \in {session, "none"}
  /\ Render("/login", NoRow, session' = "live")
  /\ answer' = "none"
  /\ UNCHANGED <<me, call>>

Press(op) ==
  /\ call = Idle
  /\ call' = op /\ answer' = "none"
  /\ UNCHANGED <<me, session, row, page>>

Reload ==
  /\ call = Idle
  /\ Render(page.asked, row, session = "live")
  /\ UNCHANGED <<me, session, call, answer>>

----------------------------------------------------------------------------
(* What comes back. *)

\* router.push of the form, for what was created, edited or deleted.
Pushes ==
  "payments.create" :> "/payments/[publicId]" @@ "enrollments.create" :> "/enrollments/[id]"
  @@ "users.create" :> "/users/[publicId]" @@ "sessions.create" :> "/attendance/[id]"
  @@ "items.create" :> "/logistics/[publicId]" @@ "items.update" :> "/logistics/[publicId]"
  @@ "items.delete" :> "/logistics" @@ "expenses.create" :> "/logistics/expenses"
  @@ "expenses.update" :> "/logistics/expenses" @@ "expenses.delete" :> "/logistics/expenses"

\* The row the page pushed to is about.
Created(op, r) ==
  CASE op = "payments.create" -> RowOf("payment", "PENDING", {"recorded"})
    [] op = "enrollments.create" -> RowOf("enrollment", "ACTIVE", {})
    [] op = "sessions.create" -> RowOf("session", "OPEN", r.ties)
    [] op = "items.create" -> RowOf("item", "HELD", {})
    [] op \in {"users.create", "items.update"} -> r
    [] OTHER -> NoRow

Accepted == session = "live" /\ Accepts(me, call, row)

\* Accepted, a form goes on to its row and any other control refreshes.
Answered ==
  /\ call # Idle /\ Accepted
  /\ \E r \in After(call, row) :
       IF call \in DOMAIN Pushes THEN Render(Pushes[call], Created(call, r), TRUE)
       ELSE Render(page.asked, r, TRUE)
  /\ call' = Idle /\ answer' = "accepted"
  /\ UNCHANGED <<me, session>>

\* Refused, the page stays and says so.
Refused ==
  /\ call # Idle /\ ~Accepted
  /\ call' = Idle /\ answer' = "refused"
  /\ UNCHANGED <<me, session, row, page>>

\* Lost, the page stays and says it could not reach the server, whether or not
\* the call was carried out.
LoseAnswer ==
  /\ call # Idle
  /\ \/ UNCHANGED row
     \/ Accepted /\ row' \in After(call, row)
  /\ call' = Idle /\ answer' = "lost"
  /\ UNCHANGED <<me, session, page>>

----------------------------------------------------------------------------
(* What others do. *)

\* Final states stay final, and a proof is scanned; of a place the course may
\* change, and the student's standing in it.
Others(r) ==
  CASE r.kind = "payment" ->
         (IF r.status = "PENDING" THEN Becomes(r, Statuses.payment) ELSE {})
           \cup {[r EXCEPT !.ties = @ \cup {"scanned"}]}
    [] r.kind = "assessment" -> Becomes(r, {"PUBLISHED"})
    [] r.kind = "session" -> Becomes(r, {"SUBMITTED"})
    [] r.kind \in {"item", "expense"} -> Becomes(r, {"DELETED"})
    [] r.kind = "place" ->
         Becomes(r, Statuses.place) \cup {[r EXCEPT !.ties = t] : t \in TiesOf("place")}
    [] r.kind \in {"user", "course", "enrollment", "review", "label"} ->
         {x \in Becomes(r, Statuses[r.kind]) : Sensible(me, x)}
    [] OTHER -> {}

RowChanges == row' \in Others(row) \ {row} /\ UNCHANGED <<me, session, page, call, answer>>
\* The accounts panel revokes no primary role.
RolesChange ==
  /\ \E R \in Accounts : me.primary \in R /\ R # me.roles /\ me' = [me EXCEPT !.roles = R]
  /\ UNCHANGED <<session, row, page, call, answer>>
SessionEnds ==
  /\ session = "live" /\ session' = "ended"
  /\ UNCHANGED <<me, row, page, call, answer>>

----------------------------------------------------------------------------

BrowseInit ==
  /\ me \in {a \in Everyone : a.roles \in Accounts /\ a.roles = {a.primary}}
  /\ session = "none" /\ row = NoRow
  /\ page = [asked |-> "/dashboard", at |-> "/login", me |-> me, row |-> NoRow]
  /\ call = Idle /\ answer = "none"

BrowseNext ==
  \/ Login \/ Logout \/ Reload
  \/ \E e \in Of("link", Shown) : Follow(e)
  \/ \E e \in Of("offer", Shown) \ {Offer("logout")} : Press(e.name)
  \/ Answered \/ Refused \/ LoseAnswer
  \/ RowChanges \/ RolesChange \/ SessionEnds

BrowseSpec == BrowseInit /\ [][BrowseNext]_browseVars

----------------------------------------------------------------------------
(* Properties. *)

Fresh == session = "live" /\ page.me = me /\ page.row = row

\* Links and controls the code does offer and the backend does refuse (README).
\* A course is named with an enrolment, a payment or a slot of the timetable,
\* though the catalogue leaves it out for her: a draft, or no tie left to it.
UnlistedCourse(p) ==
  /\ p.asked = "/courses/[publicId]" /\ ~Can(p.me, "course.create")
  /\ p.row.status = "DRAFT" \/ (p.row.ties = {} /\ ~Can(p.me, "enrollment.create"))
\* A professor's roster names students whose profile is not hers to see.
StudentOfHers(p) == p.asked = "/users/[publicId]" /\ p.me.roles = {"PROFESSOR"}
\* Notice of published marks points at a route that does not exist.
NoSuchRoute(p) == p.asked = "/marks"
DeadEnd(p) == UnlistedCourse(p) \/ StudentOfHers(p) \/ NoSuchRoute(p)
\* The status card asks for user.deactivate and not whom it may manage.
AboveHer(p) == call = "users.status" /\ p.row.role \notin manageableRoles(p.me)
\* The reviews page knows the reviews of the page and filter it shows, so it
\* offers an enrolment reviewed on another.
ReviewedElsewhere(p) == call = "reviews.create" /\ "reviewed" \in p.row.ties
\* The enrolment form knows the newest hundred enrolments, and a student by her
\* primary role.
EnrolledElsewhere(p) ==
  call = "enrollments.create" /\ "barred" \in p.row.ties /\ "known" \notin p.row.ties
Unseen(p) == AboveHer(p) \/ ReviewedElsewhere(p) \/ EnrolledElsewhere(p)

\* A link the page shows leads to a page that opens: whoever follows one while
\* what she was shown still holds comes out where she asked to go, past every
\* gate and every read without which there is nothing to show; and of what a
\* page reads besides, nothing is refused her (roles and rows of the page are
\* gated alike by the frontend's permission checks and the backend's).
PagesOpenWhole ==
  [][page' # page =>
       /\ Fresh /\ page'.asked # "/login" => page'.at = page'.asked \/ DeadEnd(page')
       /\ \A e \in Of("read", Shown') : Accepts(page'.me, e.name, On(e, page'.row))]_browseVars

\* What a page offers is refused only for news: a control pressed while the
\* session, the roles and the row are still those the page was rendered with is
\* accepted, so every condition under which the backend refuses is one under
\* which the page does not offer, but for the three cases named above.
RefusedOnlyForNews ==
  [][Fresh /\ call # Idle /\ answer' = "refused" => Unseen(page)]_browseVars
================================================================================
