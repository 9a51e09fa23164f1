# Academy Manager: TLA+ models, checks and proofs

Academy Manager runs the office of a teaching institute: who may do what, which
student is on which course at what price, who has paid, what marks were given.
A Django REST backend (`src/backend`) owns every rule; a Next.js frontend
(`src/frontend`) shows what is so and offers what may be done, to five kinds of
people. This directory models what depends on *order* in the backend (two requests
at once, a worker that dies between two commits, a cache filled late, a message
delivered twice) and what depends on *agreement* between the two halves: pages
rendered from what was true a moment ago, and conditions written once in TypeScript
and once in Python.

Three facts of the configuration shape every model:

- `ATOMIC_REQUESTS` is `False` (`config/settings/base.py:128`). Unless a service
  opens a transaction, **each query of a view commits by itself**. An action here is
  one such query, or one whole transaction that holds the row lock it needs.
- PostgreSQL runs at READ COMMITTED. A check followed by a write protects nothing
  unless a lock or a constraint stands behind it. A violated constraint becomes an
  error answer and changes nothing.
- PostgreSQL, Redis, the Celery broker and the object store share no transaction.

## 1. Inventory

| Part | State | Operations | Talks to | What is hard | What makes it correct |
|---|---|---|---|---|---|
| payments | `Payment` rows, number counter | create, approve, reject, cancel, balance | enrollments (read), audit, notifications | two deciders; checks made before the lock; crash between row and audit | decisions final, two-person, told and recorded once; paid money never falls |
| payment proofs | `PaymentProof` rows, uploaded objects | upload-url, confirm, scan callback, download | object store, audit | confirmed twice; object removed between check and insert | a proof names an object of its own payment; unscanned is not shown |
| rbac | `UserRole`, `RolePermission`; version stamp and cached sets in Redis | get_permissions, assign, revoke, grant, remove, seed | every view | cache filled late, skipped or early invalidation, lost key | after a change has returned nobody is served the set from before it |
| report exports | `ReportExport` row, message, file | submit, run, download | rbac, accounts, broker, object store | lost worker, redelivery, time limit, access lost while queued | a READY export has its file and audit row; one file; it finishes |
| enrollments | `Enrollment` rows | create, set_status, PATCH | courses (read), notifications, audit | check-then-insert races; whole-row saves of stale rows | one live enrolment; seats; frozen price; no unrecorded status |
| courses | `Course`, `CourseProfessor` | create, set_status, PATCH, assign, unassign | enrollments, notifications | stale PATCH under set_status; double assignment | archived exactly while dated; one active assignment |
| assessments | `Assessment`, `AssessmentScore`; a draft sheet per browser | save_mark_sheet, publish, PATCH, delete | enrollments, audit, notifications | rows not there yet cannot be locked; drafts never refreshed; check-then-cascade; lost answers | the trail is the history of each mark, or an alarm says where not; "saved" means recorded; nobody told of a result they have not |
| attendance | `AttendanceSession`, `AttendanceRecord`; a draft register per browser | open, PATCH, save_register | courses, audit | two open at once; stale `session.status` | the trail adds up to the register; who submitted it changed it |
| reviews | `Review` rows | create, edit, moderate | enrollments, audit | edit or second moderation from a stale row | frozen once moderated (D-10) |
| accounts | `User` rows, sessions | login, password change/reset, status, edit, roles | rbac, audit | whole-row saves, two-step suspension | closed or reset accounts stay so until someone reopens them |
| beat jobs | `Notification` rows | session reminders, roster digests | schedules, notifications | job started twice | "Both are idempotent" |
| schedules | `Schedule` rows | create, edit, next session | courses | clash check without lock | advisory only (D-5) |
| logistics, expenses | items, categories, expenses | create, edit, soft delete, month totals | audit | period follows the date (D-13), month arithmetic | totals over the accounting month |
| audit | append-only `AuditLog` | record | called by all | the insert fails in its savepoint | the row or an alarm; never an abort of the caller |
| notifications | `Notification` | notify, mark read | called by all | closed account, failed insert | never an abort of the caller |
| identifiers | `IdentifierSequence` | next_identifier | all numbered rows | first row created twice; number committed before its row | never the same number twice |
| screens (frontend) | the page as rendered: roles and row of that moment; the session cookie | sign in and out, follow, press, reload | every endpoint | roles, rows and sessions change under an open page; answers are lost | a shown link opens, a shown control is refused only for news |
| payment form (frontend) | choice, balance held, requests out, busy flag | choose, submit | balance and payment endpoints | answers in any order or none | the balance is that of the last choice; one payment recorded per form |
| printed documents (frontend) | measured rows, pages under construction | distribute | - | boundaries: rows higher than a page, totals that just do not fit | every row once and in order; no page overfull; totals whole |
| organisation, storage, dashboards, queries, seed data, configuration | - | reads, single edits, data | - | - | who may see and change them is in `Api` |

`PROJECT.json` has the same list with sources, and the hazards at the lines where
they bite.

## 2. Modules

| Module | Models | Refers to |
|---|---|---|
| `TwoPersonLedger` | the promise of payments, without requests or locks | - |
| `Payments` | `apps/payments` with `core/identifiers`, `audit.record`, `notify` | implements `TwoPersonLedger` |
| `PaymentsProofs` | theorems about `Payments` | extends `Payments`, `SumTheorems` |
| `SumTheorems` | the laws of sums over finite sets | - |
| `RbacCache` | `apps/rbac` and the cache it uses | - |
| `PermissionAnswers` | what get_permissions may answer with: history beside `RbacCache` | extends `RbacCache` |
| `RbacCacheProofs` | theorems about both | extends `PermissionAnswers` |
| `ReportExport` | `apps/reports` export path, Celery delivery, storage | - |
| `PlaceRegister` | the promise of enrolments, without requests or stale rows | - |
| `Enrollment` | `apps/enrollments`, the course row of `apps/courses` | implements `PlaceRegister` |
| `Classroom` | what the mark sheet and the register share: drafts in browsers, whole-sheet saves, lost answers | - |
| `MarkSheets` | `apps/assessments` under `grades/[assessmentId]` | extends `Classroom` |
| `Registers` | `apps/attendance` under `attendance/new`, `attendance/[id]` | extends `Classroom` |
| `Api` | the permission matrix, and what every endpoint the frontend calls asks of account and row | - |
| `Screens`, `Desk`, `Stores` | every page as a set of gates, reads, links and controls: frame, people and dashboard; teaching and payments; logistics, reports, prints | extend `Api` |
| `Browsing` | one person walking through those pages while the institute goes on | extends `Desk`, `Stores` |
| `PaymentEntry` | `PaymentForm.tsx` | - |
| `PrintPages` | `lib/print.ts`, distribute | - |
| `ReportExportProofs`, `EnrollmentProofs`, `MarkSheetsProofs` | theorems about each | extend them |
| `RegistersProofs` | theorems about `Registers`, and the type of both sheets | extends `MCSheets`, `MarkSheetsProofs`, `SumTheorems` |
| `ScreensProofs` | theorems about `PaymentEntry` and `PrintPages` | extends both |
| `MCPayments`, `MCRbacCache`, `MCPermissionAnswers`, `MCReportExport`, `MCEnrollment`, `MCSheets`, `MCScreens` | small instances | extend the above |

Operators called "fault" or "faulty" in their comment are plausible mistakes, each beside the
definition it would replace. They are used by no action: replacing the correct
definition by one of them must break the property named in `PROJECT.json`.

### Payments

`payments` is the table, `lastNumber` the PAY sequence, `trail` the audit rows of each
number, `alarms` the audit inserts that failed and were logged, `notices` what the
student was sent, `requests` what each worker thread is in the middle of.

Recording is `StartCreate` (validation), `AllocateNumber` (a transaction of its own),
`InsertPayment`, `AuditCreate`. A decision is `Load` (permission gate, scope, and the
view's own test for cancel) and then one of `Approve`, `Reject`, `Cancel`, or `Refused`.
Each of those is one action because `SELECT ... FOR UPDATE` is held from the re-read to
the commit and the audit row and notice are in the same transaction. `Crash` ends any
request between two actions. An alarm is logged before its transaction commits, and an
aborted commit after that is not modelled apart. `withdrawn` moves freely; `Enrollment`
has that handler.

### RbacCache

`held` and `matrix` are the tables; `version` is the Redis key (0: absent); `sets` the
cached sets by user and version. A reader is `ReadVersion`, (`SeedVersion`), `Lookup`,
`Resolve`, `StoreSet`. A writer commits its change and then owes a number of bumps:
two after `assign_role` (signal and service), one after `revoke_role` (a queryset
update, no signal) and one after saving a grant. `RemovePermission` differs: Django
sends `post_delete` inside the collector's transaction, so the bump comes *before*
`CommitRemoval`. `BulkGrant` (seed migrations) owes none. `faults` is a history
variable: which invalidations were skipped, early or lost. Properties say under
which faults they hold.

`PermissionAnswers` is the service as its callers see it. It adds two history variables
and constrains nothing: `standing`, what the tables have said since the last change that
has returned, and `since`, what they have said during each call. A call of
`get_permissions` may be answered with anything the tables said during it, and with what
stood when it began; `AnswersAreCurrent` says it is answered with nothing else. A change
has returned when its last bump is done, which is a little earlier than in the code (the
audit row of a role follows), so the property asks a little more. While a change is
between its commit and its bump, the old set is still a good answer: two requests may
disagree then, as they may in the code.

### ReportExport

`exports` (row), `queue` (messages), `bucket` (objects) are the three stores; `runs` is
what each Celery worker is in the middle of, with the snapshot of the row and of the
requester it read first. `LoseWorker` kills a process and requeues the message;
`Abandon` is the hard time limit or an exception outside the `try`, after which the
message is acknowledged; `Repeat` redelivers while the run goes on. `LoseAccess` and
`RegainAccess` are the account handlers as the requester feels them. `barred`, `cut`,
`lost`, `repeated` are history variables used by properties and bounds.

### Enrollment

A create is `StartEnroll` (keeps the course row it read), `CheckLive`, `CheckSeats`,
`InsertEnrollment` (refused by the partial unique index if it clashes), `Announce`,
`RecordChange`. `set_status` saves one column. PATCH is `LoadEnrollment` and
`SaveEnrollment`, where every field is read-only and `save()` still writes all columns
as they were read. The course has the same pair. So a status can come back without
anyone asking for it; what still holds is stated below.

### Classroom, MarkSheets, Registers

The class of one assessment, or of one day, is `marks` and `edits` (score and
`change_count`, or status and `change_count`) in the database, and a draft `sheets[t]`
in the browser of each teacher. A draft is taken once, by `OpenMarkSheet` or
`OpenRegisterSheet`. `router.refresh()` after a save brings new props that `useState`
ignores, so two drafts drift apart until the page is opened again, and that is where
the interesting behaviours come from. `Type` and `MarkAll` change the draft; a save
sends every row that is not blank (`Payload`), not only what was typed.

A call passes through `calls[w]`: sent, valid (the serializers), locked
(`select_for_update` on the rows that exist; one that is waited for is read when the
lock comes), committed. Locking and committing are separate because the rows that do
*not* exist lock nothing: two first saves both insert, and the unique constraint
rolls one whole sheet back (`Collides`). `End` is the answer and what the sheet does
with it; `LoseAnswer` is the dropped connection, after which the call goes on and the
button may be pressed again; `Fail` is a worker that dies, or a call that never came.

`MarkSheets` adds publication (`SavePublished`, and `TellStudents` from the rows of a
later query), PATCH (`ReadForEdit`, `SaveEdit`) and deletion, which checks and
cascades in separate queries (`CheckDelete`, `Delete`). `Registers` adds opening
(`StartRegister`, `InsertRegister`), PATCH, and the submission, which `save_register`
decides on the session as read before the transaction (`ValidateRegister`).
An assessment deleted between the two halves of a PATCH is inserted again by
`SaveEdit`, without its marks, since `save()` turns an UPDATE of no row into an INSERT.

A mark stands for a score with its comment, or a status with its minutes and note. An
audit row says the score or the status alone (`Says`), so a corrected comment leaves a
row whose old and new values are the same. What a register's sheet makes of a mark is
`Displayed`: zero minutes late are shown as none, and a sheet sent as it was read
corrects them. The audit insert of a mark, a correction or a register may fail in its
savepoint, which the save does not notice: `CommitMarks` and `CommitRegister` choose the
students whose row is missing, and `alarms` and `untaken` keep what was logged instead.
(The log line names the actor and the assessment or register, not the student; that
`alarms` knows the student is an abstraction.) `written` and `before` of `MarkSheets` are
history: the marks a student has had, and the audit calls made before the present ones.

### Api, Screens, Desk, Stores, Browsing

`Api` is the backend as one call sees it: `RoleMatrix` from `rbac/catalog.py`,
`Accepts(me, op, row)` (the permission the endpoint declares, the scope of its
queryset, and the guards of serializer and service) and `After(op, row)`, the row when
it was accepted. A row carries what these ask about: kind, status, how it is tied to
the account, and the role of a user.

The screens are data, written from the pages and not from `Api`: `Gate` (without a
permission, elsewhere), `Main` (a read without which there is nothing to show), `Read`
(a panel that silently stays away), `Link`, `Offer`. They consult the backend only
the way the pages do, through the permissions `/auth/me` listed. So the two
translations are of different files, and what is checked is that they agree.

`Browsing` is a person at these pages. A page keeps the roles and the row it was
rendered with (`page.me`, `page.row`); what holds now is `me` and `row`. Others decide
the row, her roles change, her session ends, answers are lost. `Fresh` says that what
the page was rendered with still holds, and both properties are about that: a link
followed leads to a page that opens with all its panels (`PagesOpenWhole`), and a
control pressed is refused only for something that happened since
(`RefusedOnlyForNews`).

What the code offers and the backend refuses all the same is named in `DeadEnd` and
`Unseen`, so that the properties hold for everything else (the run fails when any part of
`Unseen` is taken out):

- A course is linked from enrolments, payments and the timetable by name, also where
  the catalogue leaves it out for that reader (a draft, or no tie left to it).
- A professor's enrolment page links to the student's profile, which her scope refuses.
- The notice of published marks leads to `/marks` (`assessments/views.py:171`), and
  there is no such route.
- The status card of a person asks for `user.deactivate` and not whom its reader may
  manage (`AccountPanel.tsx:22-36`): an administrator may press it on an owner, and is
  refused (`AboveHer`).
- The review form leaves out the enrolments whose review is on the page of the list shown,
  under the filter set (`reviews/page.tsx:68-73`). One reviewed on another page is offered
  and refused (`ReviewedElsewhere`), where `WriteReview.tsx:24-26` says that enrolments
  already reviewed drop out of the list.
- The enrolment form compares with the newest hundred enrolments
  (`enrollments/new/page.tsx`) and takes a student by the primary role, though the role
  itself may have been revoked through the API: "this is a courtesy, not the check"
  (`EnrolForm.tsx`). What it cannot know is refused (`EnrolledElsewhere`). The row of that
  form is a "place": a course, with what holds of the student chosen.

Other things met on the way, that no property is about: after a logout whose call
failed, the login page finds the cookie alive and sends one to the dashboard; the
enrolment form takes a student with a withdrawn enrolment for enrolled; the payment
form lists ACTIVE enrolments only, though the backend takes payments for any that is
live; the export panel forgets a running job on reload, and after its last poll
"Export again" stays disabled; a review card says it may still be changed and no screen changes one.

### PaymentEntry

Each choice of an enrolment starts a balance request and marks the ones before as
not to be heeded; answers arrive in any order or fail. Submitting is independent of
it. `Fail` after `PaymentRecorded` is the answer that was lost: the button comes back,
and a second press records a second payment. The property says that nothing else does.

### PrintPages

`distribute` deals measured rows into pages one row a step (`DealRow`), closes the
last page (`LastPage`) and finds room for the totals (`AddTotals`). Heights are kept
as the foot of each row in the measured column. The comment in `print.ts` speaks of a
totals line "alone on page four": where it does not fit the code gives it a page of its own,
which is what the module does too.

## 3. Runs

| Run | Instance | Shows |
|---|---|---|
| `payments` | two payments on one enrolment, a desk and an administrator, two requests | types, separation of duty, cancel right, truthful trail, accounted decisions, notices, fresh numbers, final decisions, paid money never falls, implements `TwoPersonLedger` |
| `payments_audit_window` | same | **violated**: `CommittedPaymentIsAudited` |
| `rbac` | one user, role, permission; two calls; three versions | coherence, that every answer is current, version order, and that every stale set falls out in the end |
| `rbac_reseed` | same | **violated**: `StartingFromOneIsSafe` |
| `rbac_removal` | same | **violated**: `RemovalTakesEffect` |
| `exports` | one export, two workers, two losses, one repeat | file, single file, audit row, nothing once barred, forward only, finishes |
| `exports_lost_worker` | one loss | **violated**: `JobOfALostWorkerFinishes` |
| `enrollment` | one student, one course, two requests, two rows, two prices | one live enrolment, archive date, recorded statuses, implements `PlaceRegister` (the price is a contract) |
| `enrollment_seats` | two students, one seat | **violated**: `SeatsWithinCapacity` |
| `sheets` | two teachers who disagree on one mark, two students, two workers, three calls, one failed audit insert of each kind; an assessment or a register | the trail and its alarms are the history of each mark, saved means recorded, told only of a mark, only typed or stale marks change, only marks entered meanwhile are lost; a register adds up and names who changed it |
| `sheets_unpublish` | same | **violated**: `NoUnpublish` |
| `screens` | every role, alone, and a receptionist and a professor made administrators; the payment form with two enrolments; documents of up to four rows | pages open whole, refusals are news, newest balance stands, twice only after a lost answer, pages hold |

The six violated properties each say what a comment, docstring or test of the
repository says; `findings` in `PROJECT.json` quotes the line and tells the behaviour.

### Bounds, and why they are enough

- *Two concurrent requests*: the races described above are between two calls. The
  theorems of payments and rbac hold for any number.
- `MaxId = 2`: a second payment lets numbers collide and sums differ. One enrolment:
  payments of different enrolments share only the counter. The desk is also the
  student of the enrolment; it holds `payment.create`, so scope gives it everything, and
  an account that may only view its own payments can take no step that changes a row.
- `MaxAlarms = 1`, `MaxLost = 1`: one failed audit insert (in `sheets` one for each
  student, and one for the register as a whole), so states with and without one are both
  reached.
- `MaxVersion = 3`: a reader two versions behind exists. A bump at the bound waits;
  no property of the run needs it to happen.
- `MaxLosses = 2`, `MaxRepeats = 1`, `MaxRowsPerExport = 2`: a job lost twice, an
  overlap of two runs, and the second file that would be an orphan. `Store` at the
  bound of files still has `Fail` beside it, so no run is stuck by it; an audit at the
  bound can still raise the alarm.
- `Capacities = {1}`, two prices, `ACTIVE`/`CANCELLED`, `ACTIVE`/`ARCHIVED`: a withdrawn
  enrolment returning beside a new one is the case the index is for. COMPLETED and
  SUSPENDED are live like ACTIVE, DROPPED is withdrawn like CANCELLED; a course is
  dated only when ARCHIVED and open only when DRAFT or ACTIVE.

- `sheets`: `MaxCalls = 3` is a save of each teacher and a third call that meets both
  (a correction, a publication, a deletion, a PATCH), and bounds withdrawals too.
  Nadia types and blanks Sam's mark; Omar has another for Sam and one for Zoe, who may
  leave: every pair of (new, existing, blank, out of class) rows meets in some sheet. The
  mark `noted` differs from `good` only in what no audit row says and no register displays.
  DROPPED is CANCELLED here and SUSPENDED is COMPLETED. The run has no third teacher;
  the theorems about marks and registers hold for any number. An assessment written back
  after its deletion is reached, with marks entered meanwhile and lost; marks entered anew
  on it would need a fourth call and a third worker, and are the theorem's alone.
- `screens`: a page depends on one row at a time, so one row is followed; statuses that
  no guard tells apart are one. `Accounts` are those `users.roles` and the seed data
  produce. `MaxAsks = 4` answers out of order on two enrolments, `MaxPresses = 3`. Rows of
  height 1, 3, 5 and 7 against rooms of 4 and 6: fits several, fits one, fits only a later
  page, fits none; totals of 0 and 2.

Workers are interchangeable, so runs without liveness declare symmetry; `rbac` and
`exports` check liveness and do not. Deadlock checking is off in all runs: each bound
ends behaviours, and a system with nothing to do may stop.

### Fairness

- `PermissionAnswers!FairAnswersSpec`: weak fairness of `Expire`. Redis removes a key when its
  timeout is over, and every set is stored with one. No request is assumed to be made
  and no call to finish.
- `ReportExport!FairSpec`: weak fairness of delivery (an idle worker takes a waiting
  message) and of each worker's next step (a run that is not cut short goes on). Losses
  are never required to happen; they are bounded, as a run cut short for ever could
  finish under no design.
- Other specifications have none: a client may stop at any point, and nothing in the
  frontend promises that somebody goes on.

## 4. Proofs

All proofs are checked by TLAPS, with the assumptions of the component modules
(`PaymentsAssumption`, `RbacAssumption`, `ReportExportAssumption`,
`EnrollmentAssumption`, `ClassroomAssumption`, `RegistersAssumption`, `EntryAssumption`,
`PrintAssumption`) and nothing else. TLC evaluates those assumptions in each run. Each module follows one
layout: the invariant, lemmas about operators, a lemma per action that it keeps the
invariant, and the theorems at the end.

**Payments** (`PaymentsProofs`). For any users, grants, enrolments, amounts and
requests: `TypeOK`, `SeparationOfDuty`, `CancelledByItsRecorderOrAnApprover`,
`NumbersAreFresh`, `DecisionsAreFinal`, `IsTwoPersonLedger`. The inductive invariant
`IInv` adds what the rows alone do not say: a number in flight was handed out and is
carried by one request only, and a request in flight carries what its checks before the
lock established (`RequestOK`), which stays true because who recorded a payment never
changes. One lemma per action; the refinement maps `InsertPayment` to `RecordLine`, the
three verdicts to `DecideLine`, and everything else to a stutter.

`TrailTellsTheTruth`, `DecisionsAreAccountedFor` and `NoticeMatchesVerdict` follow. On
top of `IInv`: each audit row is true of its payment (`EntryTrue`), each kind of entry is
there once (`ToldOnce`), each decision has its entry or its alarm (`AccountedFor`), each
notice its verdict (`NoticeOK`). A request between `InsertPayment` and `AuditCreate` owes a
`PAYMENT_CREATED` row: `OwedOK` says that nobody has written it yet, that it is right about
who recorded the payment, and that no other request owes the same one.

`PaidNeverFalls` is about sums over the table. A step writes one row (`WhoWrites`), and
every other row of the enrolment keeps its amount and status, so the confirmed sum either
stays what it was or takes in one row that was pending before; `SumTheorems` does the rest.

**Sums** (`SumTheorems`). The library's sum takes out whichever member `CHOOSE` names,
and what the proofs need is that *any* member may be taken out (`SumTakesOut`) or put in
(`SumPutsIn`), and that equal summands give equal sums (`SumOfTheSame`). The induction
theorems of the library cannot be used with these provers, so the induction is
done in place: the subsets of a finite set are well founded under strict inclusion, and a
smallest set for which a law fails is one member away from a set for which it holds.

**RbacCache** (`RbacCacheProofs`). For any users, roles, permissions and calls:
`TypeOK`, `CacheIsCoherent`, `LateStoresAreCurrent`, `VersionNeverGoesBack` and, for the
same specification with its history, `AnswersAreCurrent`. Coherence is
not inductive: a bump must leave *every* set behind. `NothingAhead` says that no stored
set and no reader is ahead of the version, so right after a bump nothing at all is
stored under the new one; `Shape` ties what a call has still to do to its step. While a
change waits for its bump nothing is claimed; the bump re-establishes `Fresh`.
Answers need more, as they are given while changes are pending. `AnswersInv` adds
`Stands` and `Holds` (what is stored or held under the *current* version stood since the
last return), `Meets` (whatever a request may still find under the version it took, in
the cache or in the hands of another reader, is a good answer to *it*) and `Watching`
(the histories contain what the tables say now). The step that matters is the last bump
of a change: it drops the old answers from `standing`, and `NothingAhead` makes the first
two facts empty under the new version, while `Meets` survives because a request's own
history only grows.

**ReportExport** (`ReportExportProofs`). `TypeOK`, `ReadyExportsHaveTheirFile`,
`ReadyExportsAreAudited`, `OneFileWhenRunsDoNotOverlap`, `NoFileOnceBarred`,
`ExportsMoveForward`. The type invariant is not free: that the queue holds at most as
many messages as the bounds allow needs `MessagesOK`, which counts messages and runs of
an export against its request, losses and repeats. `RunOK` ties a run's snapshot to the
row; `OneRun` and `RunTold` say, while no message was repeated, that there is one run
at most and that the row stands where that run put it. From these, one stored object
and a status that never goes back.

**Enrollment** (`EnrollmentProofs`). `TypeOK`, `OneLiveEnrollment`,
`ArchivedWhileDated`, `StatusesAreOnRecord`, `PriceIsAContract`, `IsPlaceRegister`. Rows in flight are the
difficulty: a PATCH carries a copy that may be arbitrarily old. `RequestOK` keeps of it
what never changes (student, course, price) and what is true of any copy ever read (a
course copy is dated exactly if archived). That every status *in flight* is on record
too (`Given`, `GivenCourses`) is what makes `StatusesAreOnRecord` inductive.
`PlaceRegister` is the promise without mechanism: contracts concluded once, withdrawn
and taken up again, at most one live for a student on a course. An insert maps to
`Conclude`; `set_status` and a PATCH that writes an old row back both map to `Withdraw`,
to `TakeUp` or to a stutter, which is where the unique index and `RequestOK` are used
(`RewriteIsPlaceStep`). It implies `PriceIsAContract`, which is proved beside it and
needs no run of its own.

**MarkSheets** (`MarkSheetsProofs`). `TrailIsTheHistory`, `SavedMeansRecorded`,
`ToldOnlyOfAMark`, `OnlyTypedOrStaleMarksChange`, `OnlyMarksEnteredMeanwhileAreLost`,
for any number of teachers, students and calls, any marks and whatever part of them an
audit row says. `HistoryOK` ties mark, change count, trail and alarms of a student: so many
rows and alarms as the mark had lives and corrections (`before` counts those of earlier
lives), and, where there is no alarm, a chain of scores whose last is the one there is. A
commit gives each student touched either a row (`ToldByRow`) or an alarm (`ToldByAlarm`),
and `OneMark` shows that both keep `HistoryOK`. `SheetOK` says that every row a sheet shows
*as read* was written, which survives every answer because a save that succeeded wrote
each of its rows (`Ends`); `CallOK` says that a locked call found marks where it
believes it did. A mark somebody locked cannot vanish under it but by the deletion of
the assessment, after which it is taken for missing, and refused while there is none.

**Registers** (`RegistersProofs`). `RegisterAddsUp`, `SubmitterIsOnTheTrail`,
`SheetsTypeOK`, for any number of teachers, students and calls. `RecordOK` ties a
student's mark and change count to the corrections and alarms (`CorrectionsOK`), and
`TakenOK` is the sum: the counts of the `ATTENDANCE_TAKEN` rows add up to the students who have a
mark, or fall short by one at least for each such row that failed. `SaveOK` says
that the marks a locked save found are still there (a register is never cleared), so
what it corrects exists; that a student whom two first saves mark is not counted twice is the unique
constraint's doing, which rolls the second back. A PATCH writes a copy of the register
back that may be old: whoever a *copy in flight* names (`Signed`) has a row or an alarm, and
as neither is ever taken off, the copy stays true. The bound on change counts in
`SheetsTypeOK` is not inductive by itself; `CountOK` says that the corrections of a mark
and the calls under way are together at most the calls sent. `SheetsInv` joins the invariants of
both machines, because `MCSheets` runs either one and leaves the other's variables alone.

**PaymentEntry** (`ScreensProofs`). `NewestBalanceStands`,
`TwiceOnlyAfterALostAnswer`: `LastIsLive` (only the last request is heeded), `EachIsLost`
(a press after a recorded payment needs a lost answer).

**PrintPages** (`ScreensProofs`). `PagesHold`, for any document and any rooms.
`PagesHold` says nothing of the page being filled; `UnderWay` keeps its first row, last
row and height while rows are dealt, `RowsOut` what remains when they are out, and `FullPage`
what was established when a page was closed.

**Only model-checked.** Liveness (`StaleSetsFallOut`, `QueuedExportsFinish`): TLAPS does
not prove properties under fairness. `PagesOpenWhole` and `RefusedOnlyForNews` are about
fixed tables of pages and permissions with no parameter to generalise over but the
accounts: the run is exhaustive for every account named, one page and one row.

## 5. Not modelled

- SQL aggregation, CSV, serialisation, layout and visual components, texts and
  translations, field validation: they read and format.
- Amount arithmetic beyond sums, dates, names, notes and payment methods: no decision
  of the modelled code depends on them.
- Following a link while a call is out: the page goes away and its answer with it. In
  `Browsing` she waits; `LoseAnswer` leaves the same state behind.
- Accounts that mix STUDENT with a staff role, PROFESSOR with RECEPTION, or that no
  longer hold their primary role. The scope functions look at permissions and at the
  primary role in turn, and pages offer such an account controls that are refused:
  neither the tests nor the seed data contain one.
- Payment proofs (upload, confirm, scan, download): one insert behind a unique key; the
  screens see of a proof only whether it was scanned.
- Reminders and digests: one pass each over rows nobody else writes.
- Assigning professors, profiles, editing one's review: single writes behind a unique
  constraint, and mostly offered by no screen.
- In printing, the "continued" line and rows with children; heights are what the
  browser measured, whatever they contain.
- Login throttling, cookies and TLS: Django and nginx. Backup and restore: shell
  scripts around the database.
- The loser of the race to open a register is answered with an error, where the docstring
  (`attendance/views.py:202-205`) promises the existing register: `InsertRegister` has
  it, and no property is about the answer.

## 6. What could follow

1. Payment proofs and the scan callback; professor assignment; both small.
2. The accounts' own handlers (two-step suspension, password reset against an open session).
3. A theorem that a control is refused only for news, page by page, for any account
   that holds its roles as section 5 supposes.

## 7. Running

    tlc -workers 2 -config MCPayments.cfg MCPayments
    tlapm PaymentsProofs.tla

Each `.cfg` is named after the module it configures. Passing runs take between a few
seconds (`exports`) and three minutes (`screens`); the violated ones stop
within seconds. Each proof module takes at most a minute or two.
