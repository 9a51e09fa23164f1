-------------------------------- MODULE Stores ---------------------------------
(***************************************************************************)
(* The screens of the back office: inventory, expenses, reports, the audit *)
(* log, and the print routes.  See Screens for what the elements mean.     *)
(***************************************************************************)
EXTENDS Screens

(* Inventory. *)

Overview == Lists({"/logistics"})
ItemColumns == {Link("/logistics/[publicId]", "listed")}
\* The tabs of the section.  They stand on its every page.
SectionTabs(me) ==
  Lists({"/logistics", "/logistics/expenses", "/logistics/expenses/history"})
    \cup IfMay(me, "logistics.manage", Lists({"/logistics/setup"}))
LogisticsPage(me) ==
  {Gate("logistics.view", "no access"), Main("items.list", "none", "error"),
   Read("logistics.overview", "none"), Read("categories.list", "none"),
   Read("locations.list", "none")}
    \cup PrintButton("/print/logistics", "none")
    \cup IfMay(me, "logistics.manage", Lists({"/logistics/new"}))
    \cup SectionTabs(me) \cup Overview \cup ItemColumns

ItemForm(row) == {Offer(IF row = NoRow THEN "items.create" ELSE "items.update")}
NewItemPage ==
  {Gate("logistics.manage", "/logistics"), Read("categories.list", "none"),
   Read("locations.list", "none")}
    \cup Lists({"/logistics"}) \cup ItemForm(NoRow)

DeleteItem == {Offer("items.delete")}
ItemPage(me) ==
  {Main("items.retrieve", "this", "not found")} \cup Lists({"/logistics"})
    \cup IfMay(me, "logistics.manage", {Link("/logistics/[publicId]/edit", "this")} \cup DeleteItem)
EditItemPage(row) ==
  {Gate("logistics.manage", "/logistics/[publicId]"), Main("items.retrieve", "this", "not found"),
   Read("categories.list", "none"), Read("locations.list", "none"),
   Link("/logistics/[publicId]", "this")}
    \cup ItemForm(row)

\* A label is a category or a room: added, retired and taken up again.
LabelPanel(row) == {Offer("labels.create")} \cup When(row # NoRow, {Offer("labels.update")})
SetupPage(me, row) ==
  {Gate("logistics.manage", "/logistics"), Main("categories.list", "none", "error"),
   Main("locations.list", "none", "error")}
    \cup SectionTabs(me) \cup LabelPanel(row)

----------------------------------------------------------------------------
(* Expenses. *)

MonthSummary == Lists({"/logistics/expenses"})
ExpenseColumns(me) == IfMay(me, "expense.manage", {Link("/logistics/expenses/[publicId]/edit", "listed")})
ExpensesPage(me) ==
  {Gate("expense.view", "no access"), Main("expenses.list", "none", "error"),
   Read("expenses.summary", "none"), Read("categories.list", "none")}
    \cup PrintButton("/print/expenses", "none")
    \cup IfMay(me, "expense.manage", Lists({"/logistics/expenses/new"}))
    \cup SectionTabs(me) \cup MonthSummary \cup ExpenseColumns(me)

ExpenseForm(row) == {Offer(IF row = NoRow THEN "expenses.create" ELSE "expenses.update")}
NewExpensePage ==
  {Gate("expense.manage", "/logistics/expenses"), Read("categories.list", "none")}
    \cup Lists({"/logistics/expenses"}) \cup ExpenseForm(NoRow)
DeleteExpense == {Offer("expenses.delete")}
EditExpensePage(row) ==
  {Gate("expense.manage", "/logistics/expenses"), Main("expenses.retrieve", "this", "not found"),
   Read("categories.list", "none")}
    \cup Lists({"/logistics/expenses"}) \cup ExpenseForm(row) \cup DeleteExpense

HistoryTable == Lists({"/logistics/expenses"})
HistoryPage(me) ==
  {Gate("expense.view", "no access"), Main("expenses.history", "none", "error")}
    \cup SectionTabs(me) \cup HistoryTable

----------------------------------------------------------------------------
(* Reports and the log. *)

\* reportList: the reports and the permission each needs.
reportList ==
  [enrollments |-> "report.view_operational", revenue |-> "report.view_financial",
   outstanding |-> "report.view_financial"]
available(me) == {report \in DOMAIN reportList : Can(me, reportList[report])}

\* Asking for the file and, while it is made, asking how it goes.
ExportPanel == {Read("exports.retrieve", "none"), Offer("reports.export")}
\* Any of the available reports may be the one shown.
ReportsPage(me) ==
  When(available(me) = {}, {Gate("nothing to report", "no access")})
    \cup {Read("reports." \o report, "none") : report \in available(me)} \cup Lists({"/reports"})
    \cup IfMay(me, "report.view_financial", Lists({"/print/financial", "/print/management"}))
    \cup IfMay(me, "report.export", ExportPanel)

AuditFeed == {Read("audit.list", "none")}
AuditPage == {Gate("audit.view", "/dashboard")} \cup AuditFeed

----------------------------------------------------------------------------
(* Print routes: the guard of each, then the read the paper is made of. *)

printGuard(codename) == {Gate("signed in", "/login"), Gate(codename, "/dashboard")}

PrintPayments == printGuard("payment.view") \cup {Main("payments.list", "none", "/payments")}
PrintReceipt ==
  printGuard("payment.view")
    \cup {Main("payments.retrieve", "this", "not found"), Read("balance", "none")}
PrintEnrollments == printGuard("enrollment.view") \cup {Main("enrollments.list", "none", "/enrollments")}
PrintCourses == printGuard("course.view") \cup {Main("courses.list", "none", "/courses")}
PrintSchedule == printGuard("schedule.view") \cup {Main("schedules.list", "none", "/schedules")}
PrintAttendance == printGuard("attendance.view") \cup {Main("sessions.summary", "none", "/attendance")}
PrintRegister == printGuard("attendance.view") \cup {Main("sessions.sheet", "this", "not found")}
PrintStudents ==
  printGuard("user.view") \cup {Main("users.list", "none", "/users"), Read("courses.list", "none")}
PrintStudent(me) ==
  printGuard("user.view") \cup {Main("users.retrieve", "this", "not found")}
    \cup IfMay(me, "enrollment.view", {Read("enrollments.list", "none")})
    \cup IfMay(me, "payment.view", {Read("payments.list", "none")})
    \cup IfMay(me, "attendance.view", {Read("sessions.summary", "none")})
PrintLogistics ==
  printGuard("logistics.view")
    \cup {Main("items.list", "none", "/logistics"), Read("categories.list", "none"),
          Read("locations.list", "none")}
PrintExpenses == printGuard("expense.view") \cup {Main("expenses.list", "none", "/logistics/expenses")}
PrintFinancial ==
  printGuard("report.view_financial") \cup {Main("reports.management", "none", "/reports")}
PrintManagement ==
  printGuard("report.view_financial") \cup {Main("reports.management", "none", "/reports")}
================================================================================
