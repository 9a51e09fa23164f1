-------------------------------- MODULE Screens --------------------------------
(***************************************************************************)
(* The screens of the frontend, as data: what each reads before it shows   *)
(* anything, what it reads besides, where it leads and which calls it      *)
(* offers, for the account `me' the server rendered it for and the row     *)
(* `row' it is about (NoRow for a list).  Nothing here consults the        *)
(* backend's rules of Api except through the session, as the pages do:     *)
(* Can is `can(session, ...)', the permissions /auth/me listed.            *)
(*                                                                         *)
(* A screen is a set of elements:                                          *)
(*   Gate(p, to)        without permission p the page sends one to `to'    *)
(*   Main(op, on, to)   when this read is refused it sends one to `to'     *)
(*   Read(op, on)       when this one is, a panel is silently missing      *)
(*   Link(s, on)        leads to screen s for the row `on'                 *)
(*   Offer(op)          a control that makes the call op on the row        *)
(* where `on' is "none" (no row), "this" (the page's row), "course" or     *)
(* "student" (the row's, shown by name) or "listed" (one of a list).       *)
(* Query strings, which only choose among rows, are left out of the        *)
(* screen names, and so is every text.                                     *)
(***************************************************************************)
EXTENDS Api, Sequences

Element(is, name, on, to) == [is |-> is, name |-> name, on |-> on, to |-> to]
Gate(codename, to) == Element("gate", codename, "none", to)
Main(op, on, to) == Element("main", op, on, to)
Read(op, on) == Element("read", op, on, "none")
Link(screen, on) == Element("link", screen, on, "none")
Offer(op) == Element("offer", op, "this", "none")
Lists(screens) == {Link(s, "none") : s \in screens}

When(condition, elements) == IF condition THEN elements ELSE {}
IfMay(me, codename, elements) == When(Can(me, codename), elements)

----------------------------------------------------------------------------
(* The frame around every dashboard page. *)

\* NAV_ITEMS: the entries of the rail, and the permission each needs.
NavItems ==
  "/dashboard" :> "signed in" @@ "/courses" :> "course.view"
  @@ "/enrollments" :> "enrollment.view" @@ "/schedules" :> "schedule.view"
  @@ "/grades" :> "score.view" @@ "/attendance" :> "attendance.view"
  @@ "/payments" :> "payment.view" @@ "/logistics" :> "logistics.view"
  @@ "/users" :> "user.view" @@ "/reviews" :> "review.view"
  @@ "/notifications" :> "signed in" @@ "/reports" :> "report.view_operational"
  @@ "/audit" :> "audit.view" @@ "/settings" :> "settings.manage"
everyItem(me) == DOMAIN NavItems  \* faulty: the rail before it asked for permissions
visibleItems(me) == {s \in DOMAIN NavItems : Can(me, NavItems[s])}

Sidebar(me) == Lists(visibleItems(me) \cup {"/dashboard", "/account"})
MobileNav(me) == Sidebar(me)
TopBar == Lists({"/dashboard", "/notifications"})
UserMenu == Lists({"/account", "/notifications"}) \cup {Offer("logout")}

\* DashboardLayout: no session sends one to /login; the unread count is read
\* for the bell.
DashboardLayout(me) ==
  {Gate("signed in", "/login"), Read("notifications.list", "none")}
    \cup Sidebar(me) \cup MobileNav(me) \cup TopBar \cup UserMenu

PrintButton(paper, on) == {Link(paper, on)}

----------------------------------------------------------------------------
(* Dashboard: the tiles dashboards.py sends decide most of the links. *)

\* build_dashboard: which tiles an account is sent.
Tiles(me) ==
  When(Can(me, "user.view") /\ Can(me, "user.create"), {"people"})
    \cup IfMay(me, "course.create", {"courses"})
    \cup IfMay(me, "report.view_financial", {"money"})
    \cup When(Can(me, "payment.create") /\ ~Can(me, "report.view_financial"), {"desk"})
    \cup IfMay(me, "review.moderate", {"reviews"})
    \cup IfMay(me, "score.enter", {"teaching"})
    \cup When(me.primary = "STUDENT", {"learning"})

Tile(tile) ==
  Lists(CASE tile = "people" -> {"/users"}
          [] tile = "courses" -> {"/courses", "/enrollments"}
          [] tile = "money" -> {"/reports"}
          [] tile = "desk" -> {"/enrollments", "/payments"}
          [] tile = "teaching" -> {"/courses", "/enrollments"}
          [] tile = "learning" -> {"/courses"}
          [] OTHER -> {})
NextSession(me) == When("teaching" \in Tiles(me), {Link("/courses/[publicId]", "course")})
Attention(me) ==
  When(Tiles(me) \cap {"money", "desk"} # {}, Lists({"/payments"}))
    \cup When("teaching" \in Tiles(me), Lists({"/grades"}))
    \cup When("reviews" \in Tiles(me), Lists({"/reviews"}))

\* Of the shortcuts she may use, in this order, the first five.
QuickActions(me) ==
  LET shortcut(needs, to) == IF Can(me, needs) THEN <<to>> ELSE <<>>
      ofStudent == IF me.primary = "STUDENT" THEN <<"/schedules", "/grades">> ELSE <<>>
      all == shortcut("payment.create", "/payments/new")
               \o shortcut("enrollment.create", "/enrollments/new")
               \o shortcut("user.create", "/users/new")
               \o shortcut("payment.approve", "/payments")
               \o shortcut("score.enter", "/grades")
               \o shortcut("report.view_operational", "/reports") \o ofStudent
  IN  Lists({all[i] : i \in {j \in DOMAIN all : j <= 5}})

DashboardPage(me) ==
  {Main("dashboard", "none", "error")} \cup UNION {Tile(t) : t \in Tiles(me)}
    \cup NextSession(me) \cup Attention(me) \cup QuickActions(me)

----------------------------------------------------------------------------
(* One's own account, the institute's details, notifications. *)

ChangePassword == {Offer("password.change")}
AccountPage == {Gate("signed in", "/login"), Link("/users/[publicId]", "self")} \cup ChangePassword

OrganisationForm(me) == IfMay(me, "settings.manage", {Offer("organisation.update")})
SettingsPage(me) ==
  {Gate("signed in", "no access"), Main("organisation", "none", "error")} \cup OrganisationForm(me)

\* link_path as the backend's notify calls write it, by who is notified.
LinkPaths(me) ==
  {"/dashboard"} \cup When(me.primary = "STUDENT", {"/courses", "/payments", "/marks"})
NotificationList(me) == {Offer("notifications.read")} \cup Lists(LinkPaths(me))
NotificationsPage(me) == {Main("notifications.list", "none", "error")} \cup NotificationList(me)

----------------------------------------------------------------------------
(* People. *)

\* manageableRoles, "a mirror of can_manage_role".
manageableRoles(me) ==
  CASE Can(me, "user.assign_role") -> Roles
    [] ~Can(me, "user.assign_role") /\ Can(me, "user.deactivate") ->
         {"RECEPTION", "PROFESSOR", "STUDENT"}
    [] ~Can(me, "user.assign_role") /\ ~Can(me, "user.deactivate")
         /\ Can(me, "user.create") -> {"PROFESSOR", "STUDENT"}
    [] OTHER -> {}

UsersColumns == {Link("/users/[publicId]", "listed")}
UsersPage(me) ==
  {Main("users.list", "none", "error")} \cup PrintButton("/print/students", "none")
    \cup IfMay(me, "user.create", Lists({"/users/new"})) \cup UsersColumns

\* The row of the form is the person to be: the role chosen is one offered.
NewPersonForm(me, row) == When(row.role \in manageableRoles(me), {Offer("users.create")})
NewPersonPage(me, row) == {Gate("user.create", "/users")} \cup Lists({"/users"}) \cup NewPersonForm(me, row)

isSelf(row) == "mine" \in row.ties
StatusCard(me, row) ==
  When(Can(me, "user.deactivate") /\ ~isSelf(row), {Offer("users.status")})
RolesCard(me, row) ==
  When(~isSelf(row) /\ Can(me, "user.assign_role"), {Offer("users.grant"), Offer("users.revoke")})
PasswordCard(me, row) ==
  When(Can(me, "user.reset_password") /\ ~isSelf(row), {Offer("users.reset")})
AccountPanel(me, row) == RolesCard(me, row) \cup StatusCard(me, row) \cup PasswordCard(me, row)

UserPage(me, row) ==
  {Main("users.retrieve", "this", "not found")} \cup Lists({"/users"})
    \cup When(row.role = "STUDENT" /\ Can(me, "enrollment.view"),
              {Read("enrollments.list", "none"), Link("/enrollments/[id]", "listed")})
    \cup PrintButton("/print/student/[publicId]", "this") \cup AccountPanel(me, row)
================================================================================
