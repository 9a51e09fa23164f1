------------------------------- MODULE Payments --------------------------------
(***************************************************************************)
(* backend/apps/payments: the life of a payment row, under the requests    *)
(* that may reach it at the same time.                                     *)
(*                                                                         *)
(* ATOMIC_REQUESTS is off, so a request is a sequence of autocommitted     *)
(* steps unless a service opens a transaction.  Recording a payment is     *)
(* four such steps (read the enrolment, take a number, insert, audit);     *)
(* approve, reject and cancel load the row in one step and then run one    *)
(* transaction that re-reads it under SELECT ... FOR UPDATE.  Nothing else *)
(* writes the row while the lock is held, so that transaction is one       *)
(* action here; the load before it is not part of it.                      *)
(*                                                                         *)
(* A refusal (400, 403, 404, 409) changes no row: before the load it is no *)
(* step at all, after it it is Refused.                                    *)
(***************************************************************************)
EXTENDS Integers, FiniteSets, Sequences, FiniteSetsExt

CONSTANTS Users, Enrollments, Workers,
          Amounts,      \* amount_minor of the payments recorded
          Grants,       \* Grants[u]: the codenames get_permissions(u) returns
          StudentOf,    \* StudentOf[e]: the student of enrolment e
          Price,        \* Price[e]: price_at_enrollment_minor, frozen
          MaxId,        \* bound: payment numbers handed out
          MaxAlarms,    \* bound: audit inserts that fail
          Null          \* the null foreign key

Ids == 1 .. MaxId

ASSUME PaymentsAssumption ==
  /\ MaxId \in Nat
  /\ MaxAlarms \in Nat
  /\ Amounts \subseteq Nat \ {0}      \* PaymentCreateSerializer: min_value=1
  /\ StudentOf \in [Enrollments -> Users]
  /\ Price \in [Enrollments -> Nat]
  /\ Null \notin Users
  /\ Null \notin Enrollments

VARIABLES
  payments,     \* the payments_payment table: number -> row
  lastNumber,   \* IdentifierSequence "PAY": current_value
  withdrawn,    \* enrolments whose status is CANCELLED or DROPPED
  trail,        \* number -> its audit_log rows, in commit order
  alarms,       \* "AUDIT WRITE FAILED" lines logged: <<number, audit action>>
  notices,      \* number -> the notifications its student was sent
  requests      \* worker -> the request it is serving

vars == <<payments, lastNumber, withdrawn, trail, alarms, notices, requests>>

PaymentStatus == {"PENDING", "APPROVED", "REJECTED", "CANCELLED"}
TERMINAL_STATUSES == {"APPROVED", "REJECTED", "CANCELLED"}

Row == [status : PaymentStatus, enrollment : Enrollments, amount_minor : Amounts,
        created_by : Users, approved_by : Users \cup {Null},
        rejected_by : Users \cup {Null}, cancelled_by : Users \cup {Null}]

NewRow(e, amount, actor) ==
  [status |-> "PENDING", enrollment |-> e, amount_minor |-> amount, created_by |-> actor,
   approved_by |-> Null, rejected_by |-> Null, cancelled_by |-> Null]

\* The audit actions and the notification kind share the names of the code.
DecisionActions == {"PAYMENT_APPROVED", "PAYMENT_REJECTED", "PAYMENT_CANCELLED"}
AuditActions == DecisionActions \cup {"PAYMENT_CREATED"}
NotificationKinds == {"PAYMENT_APPROVED", "PAYMENT_REJECTED"}
Entry == [action : AuditActions, actor : Users]

Decisions == {"approve", "reject", "cancel"}
Steps == {"idle", "validated", "numbered", "saved"} \cup Decisions
Request == [step : Steps, actor : Users \cup {Null}, payment : Ids \cup {0},
            enrollment : Enrollments \cup {Null}, amount_minor : Amounts \cup {0}]
Idle == [step |-> "idle", actor |-> Null, payment |-> 0, enrollment |-> Null,
         amount_minor |-> 0]

Recorded == DOMAIN payments

----------------------------------------------------------------------------
(* Permissions and scope.                                                  *)

Holds(u, codename) == codename \in Grants[u]

required_permissions == [create |-> "payment.create", approve |-> "payment.approve",
                         reject |-> "payment.reject", cancel |-> "payment.cancel"]

\* scope_payments: the whole ledger, one's own payments, or nothing.
InScope(u, p) ==
  \/ Holds(u, "payment.create")
  \/ Holds(u, "payment.view") /\ StudentOf[payments[p].enrollment] = u

\* The view's own check: reception may withdraw its own mistaken entry only.
\* fault: the view does not check whose entry it is.
CancelByAnyone(u, p) == TRUE
MayCancel(u, p) == Holds(u, "payment.approve") \/ payments[p].created_by = u

----------------------------------------------------------------------------
(* The side rows.                                                          *)

\* audit.services.record: a row, or - the insert failed in its savepoint -
\* a logged alarm and no row.  Either way the caller goes on.
\* fault: a failed insert is swallowed without an alarm.
RecordQuietly(p, action, actor) ==
  /\ \/ trail' = [trail EXCEPT ![p] = Append(@, [action |-> action, actor |-> actor])]
     \/ trail' = trail
  /\ UNCHANGED alarms
Record(p, action, actor) ==
  \/ /\ trail' = [trail EXCEPT ![p] = Append(@, [action |-> action, actor |-> actor])]
     /\ UNCHANGED alarms
  \/ /\ Cardinality(alarms) < MaxAlarms
     /\ alarms' = alarms \cup {<<p, action>>}
     /\ UNCHANGED trail

\* notifications.services.notify: a row, or nothing when the student's
\* account is closed or the insert failed.
Notify(p, kind) ==
  \/ notices' = [notices EXCEPT ![p] = Append(@, kind)]
  \/ UNCHANGED notices

Finish(w) == requests' = [requests EXCEPT ![w] = Idle]

----------------------------------------------------------------------------
(* POST /payments/                                                         *)

\* PaymentCreateSerializer.validate: the enrolment is read, and not locked.
StartCreate(w, u, e, amount) ==
  /\ requests[w] = Idle
  /\ Holds(u, required_permissions["create"])
  /\ e \notin withdrawn
  /\ requests' = [requests EXCEPT ![w] =
                    [step |-> "validated", actor |-> u, payment |-> 0,
                     enrollment |-> e, amount_minor |-> amount]]
  /\ UNCHANGED <<payments, lastNumber, withdrawn, trail, alarms, notices>>

\* Payment.save: next_identifier commits the number before the row exists.
\* fault: numbers are counted, not allocated.
NumberByCount == Cardinality(Recorded) + 1
NextNumber == lastNumber + 1
AllocateNumber(w) ==
  /\ requests[w].step = "validated"
  /\ NextNumber \in Ids
  /\ lastNumber' = NextNumber
  /\ requests' = [requests EXCEPT ![w].step = "numbered", ![w].payment = NextNumber]
  /\ UNCHANGED <<payments, withdrawn, trail, alarms, notices>>

InsertPayment(w) ==
  LET r == requests[w] IN
  /\ r.step = "numbered"
  /\ r.payment \notin Recorded          \* public_id is unique
  /\ payments' = [p \in Recorded \cup {r.payment} |->
                    IF p = r.payment THEN NewRow(r.enrollment, r.amount_minor, r.actor)
                                     ELSE payments[p]]
  /\ requests' = [requests EXCEPT ![w].step = "saved"]
  /\ UNCHANGED <<lastNumber, withdrawn, trail, alarms, notices>>

\* perform_create after serializer.save().
AuditCreate(w) ==
  /\ requests[w].step = "saved"
  /\ Record(requests[w].payment, "PAYMENT_CREATED", requests[w].actor)
  /\ Finish(w)
  /\ UNCHANGED <<payments, lastNumber, withdrawn, notices>>

----------------------------------------------------------------------------
(* POST /payments/<id>/approve/, reject/, cancel/                          *)

\* The permission gate, get_object() and, for cancel, the view's check.
Load(w, u, p, decision) ==
  /\ requests[w] = Idle
  /\ p \in Recorded
  /\ Holds(u, required_permissions[decision])
  /\ InScope(u, p)
  /\ decision = "cancel" => MayCancel(u, p)
  /\ requests' = [requests EXCEPT ![w] = [step |-> decision, actor |-> u, payment |-> p,
                                          enrollment |-> Null, amount_minor |-> 0]]
  /\ UNCHANGED <<payments, lastNumber, withdrawn, trail, alarms, notices>>

\* fault: only an approved payment is final.
IsApproved(p) == payments[p].status = "APPROVED"
IsTerminal(p) == payments[p].status \in TERMINAL_STATUSES

\* ApprovalNotice is also what a rejection could wrongly announce, and
\* CancellationNotice is a kind NotificationKind does not have.
ApprovalNotice == "PAYMENT_APPROVED"
CancellationNotice == "PAYMENT_CANCELLED"
RejectionNotice == "PAYMENT_REJECTED"

\* fault: the recorder may approve as well.
RecorderMayApprove(p, actor) == ~IsTerminal(p)
MayApprove(p, actor) == ~IsTerminal(p) /\ payments[p].created_by # actor

Approve(w) ==
  LET p == requests[w].payment
      actor == requests[w].actor IN
  /\ requests[w].step = "approve"
  /\ MayApprove(p, actor)
  /\ payments' = [payments EXCEPT ![p].status = "APPROVED", ![p].approved_by = actor]
  /\ Record(p, "PAYMENT_APPROVED", actor)
  /\ Notify(p, ApprovalNotice)
  /\ Finish(w)
  /\ UNCHANGED <<lastNumber, withdrawn>>

Reject(w) ==
  LET p == requests[w].payment
      actor == requests[w].actor IN
  /\ requests[w].step = "reject"
  /\ ~IsTerminal(p)
  /\ payments' = [payments EXCEPT ![p].status = "REJECTED", ![p].rejected_by = actor]
  /\ Record(p, "PAYMENT_REJECTED", actor)
  /\ Notify(p, RejectionNotice)
  /\ Finish(w)
  /\ UNCHANGED <<lastNumber, withdrawn>>

\* No notification: the entry was a mistake the payer never heard of.
Cancel(w) ==
  LET p == requests[w].payment
      actor == requests[w].actor IN
  /\ requests[w].step = "cancel"
  /\ ~IsTerminal(p)
  /\ payments' = [payments EXCEPT ![p].status = "CANCELLED", ![p].cancelled_by = actor]
  /\ Record(p, "PAYMENT_CANCELLED", actor)
  /\ Finish(w)
  /\ UNCHANGED <<lastNumber, withdrawn, notices>>

\* TransitionError: the transaction rolls back and the view answers 409.
Refused(w) ==
  LET r == requests[w] IN
  /\ r.step \in Decisions
  /\ \/ IsTerminal(r.payment)
     \/ r.step = "approve" /\ ~MayApprove(r.payment, r.actor)
  /\ Finish(w)
  /\ UNCHANGED <<payments, lastNumber, withdrawn, trail, alarms, notices>>

----------------------------------------------------------------------------
(* Around the requests.                                                    *)

\* The worker is killed, or a step raises: what was committed stays.
Crash(w) ==
  /\ requests[w] # Idle
  /\ Finish(w)
  /\ UNCHANGED <<payments, lastNumber, withdrawn, trail, alarms, notices>>

\* enrollments set_status: a live enrolment is withdrawn, or a withdrawn one is
\* live again, at any time (Enrollment.tla has that handler in full).
SetEnrollmentStatus(e) ==
  /\ withdrawn' = IF e \in withdrawn THEN withdrawn \ {e} ELSE withdrawn \cup {e}
  /\ UNCHANGED <<payments, lastNumber, trail, alarms, notices, requests>>

Init ==
  /\ payments = [p \in {} |-> Null]
  /\ lastNumber = 0
  /\ withdrawn = {}
  /\ trail = [p \in Ids |-> <<>>]
  /\ alarms = {}
  /\ notices = [p \in Ids |-> <<>>]
  /\ requests = [w \in Workers |-> Idle]

Next ==
  \/ \E w \in Workers :
        \/ \E u \in Users, e \in Enrollments, a \in Amounts : StartCreate(w, u, e, a)
        \/ AllocateNumber(w) \/ InsertPayment(w) \/ AuditCreate(w)
        \/ \E u \in Users, p \in Recorded, d \in Decisions : Load(w, u, p, d)
        \/ Approve(w) \/ Reject(w) \/ Cancel(w) \/ Refused(w)
        \/ Crash(w)
  \/ \E e \in Enrollments : SetEnrollmentStatus(e)

Spec == Init /\ [][Next]_vars

----------------------------------------------------------------------------
(* enrollment_balance: computed from the rows, never stored.               *)

\* fault: money counts as paid once it is claimed.
CountsOnceClaimed(p) == payments[p].status \in {"PENDING", "APPROVED"}
counts_toward_balance(p) == payments[p].status = "APPROVED"

SumOf(S) == SumFunctionOnSet([p \in S |-> payments[p].amount_minor], S)

enrollment_balance(e) ==
  LET against == {p \in Recorded : payments[p].enrollment = e}
      paid == SumOf({p \in against : counts_toward_balance(p)})
  IN [total_minor |-> Price[e], paid_minor |-> paid,
      pending_minor |-> SumOf({p \in against : payments[p].status = "PENDING"}),
      remaining_minor |-> Price[e] - paid, is_settled |-> paid >= Price[e]]

----------------------------------------------------------------------------
(* Properties.                                                             *)

\* Every variable stays in its range, whatever the requests do.
TypeOK ==
  /\ Recorded \subseteq Ids
  /\ payments \in [Recorded -> Row]
  /\ lastNumber \in 0 .. MaxId
  /\ withdrawn \subseteq Enrollments
  /\ trail \in [Ids -> Seq(Entry)]
  /\ alarms \subseteq Ids \X AuditActions
  /\ notices \in [Ids -> Seq(NotificationKinds)]
  /\ requests \in [Workers -> Request]

\* Whoever took the money is never the one who confirmed it, and whoever
\* confirmed it held payment.approve (services.approve: "it holds for admins
\* and the owner too, not only reception").
SeparationOfDuty ==
  \A p \in Recorded : payments[p].status = "APPROVED" =>
     /\ payments[p].approved_by # payments[p].created_by
     /\ payments[p].approved_by \in Users
     /\ Holds(payments[p].approved_by, "payment.approve")

\* A cancelled entry was withdrawn by an approver or by its own recorder, even
\* though the view checks that on a row it read before the lock.
CancelledByItsRecorderOrAnApprover ==
  \A p \in Recorded : payments[p].status = "CANCELLED" =>
     \/ payments[p].cancelled_by = payments[p].created_by
     \/ payments[p].cancelled_by \in Users /\ Holds(payments[p].cancelled_by, "payment.approve")

Decider(p) == IF payments[p].status = "APPROVED" THEN payments[p].approved_by
              ELSE IF payments[p].status = "REJECTED" THEN payments[p].rejected_by
              ELSE IF payments[p].status = "CANCELLED" THEN payments[p].cancelled_by
              ELSE Null
Verdict == [APPROVED |-> "PAYMENT_APPROVED", REJECTED |-> "PAYMENT_REJECTED",
            CANCELLED |-> "PAYMENT_CANCELLED"]

Entries(p, actions) == {i \in 1 .. Len(trail[p]) : trail[p][i].action \in actions}

\* Read back, the audit trail of a payment tells what happened to it: at most
\* one decision, and it is the one the row carries, by the person the row
\* names; at most one creation, by the recorder; nothing about a number that
\* has no row.  Two deciders racing for one row do not leave two decisions.
TrailTellsTheTruth ==
  \A p \in Ids :
     /\ Cardinality(Entries(p, DecisionActions)) <= 1
     /\ Cardinality(Entries(p, {"PAYMENT_CREATED"})) <= 1
     /\ trail[p] # <<>> => p \in Recorded
     /\ \A i \in Entries(p, DecisionActions) :
           /\ IsTerminal(p)
           /\ trail[p][i] = [action |-> Verdict[payments[p].status], actor |-> Decider(p)]
     /\ \A i \in Entries(p, {"PAYMENT_CREATED"}) : trail[p][i].actor = payments[p].created_by

\* A decided payment has its audit row, or the failure to write one was
\* logged: no crash separates a decision from the record of it.
DecisionsAreAccountedFor ==
  \A p \in Recorded : IsTerminal(p) =>
     \/ Entries(p, {Verdict[payments[p].status]}) # {}
     \/ <<p, Verdict[payments[p].status]>> \in alarms

\* The student hears of a payment at most once, and what the student is told
\* is what was decided; a cancelled or pending entry is never announced.
NoticeMatchesVerdict ==
  \A p \in Ids : notices[p] # <<>> =>
     /\ p \in Recorded
     /\ payments[p].status \in {"APPROVED", "REJECTED"}
     /\ notices[p] = <<Verdict[payments[p].status]>>

\* A number in the hands of a request that has not inserted its row yet is its
\* own: no row and no other request carries it (two receptionists recording at
\* the same moment never collide on public_id).
NumbersAreFresh ==
  \A w \in Workers : requests[w].step = "numbered" =>
     /\ requests[w].payment \notin Recorded
     /\ \A v \in Workers \ {w} :
           requests[v].step \in {"numbered", "saved"} =>
              requests[v].payment # requests[w].payment

\* "All three end states are terminal.  There is no un-approve": a decided row
\* never changes again, and no row ever disappears or changes hands.
DecisionsAreFinal ==
  [][\A p \in Recorded :
        /\ p \in Recorded'
        /\ payments'[p].created_by = payments[p].created_by
        /\ payments'[p].enrollment = payments[p].enrollment
        /\ payments'[p].amount_minor = payments[p].amount_minor
        /\ payments[p].status \in TERMINAL_STATUSES => payments'[p] = payments[p]]_payments

\* Confirmed money stays confirmed: what an enrolment has paid never falls, so
\* an enrolment once settled stays settled, and it rises only by money that
\* was pending.
PaidNeverFalls ==
  [][\A e \in Enrollments :
        LET before == enrollment_balance(e)
            after == enrollment_balance(e)' IN
        /\ after.paid_minor >= before.paid_minor
        /\ after.paid_minor - before.paid_minor <= before.pending_minor
        /\ before.is_settled => after.is_settled]_payments

\* What the ledger sees of the payments table.
LedgerView ==
  [p \in Ids |->
     IF p \in Recorded
       THEN [status |-> payments[p].status, recorder |-> payments[p].created_by,
             decider |-> Decider(p)]
       ELSE [status |-> "UNWRITTEN", recorder |-> Null, decider |-> Null]]

Ledger == INSTANCE TwoPersonLedger WITH
  Lines <- Ids, People <- Users, Nobody <- Null, ledger <- LedgerView,
  Approvers <- {u \in Users : Holds(u, "payment.approve")},
  Rejecters <- {u \in Users : Holds(u, "payment.reject")}

\* The whole component is a two-person ledger: each line written once, decided
\* at most once, with the authority the verdict needs.
IsTwoPersonLedger == Ledger!LedgerSpec

\* audit.services.record: "The audit row belongs to the same transaction as the
\* action it describes ... if the action commits the row is already there."
\* perform_create opens no transaction, so a committed payment can be without
\* its PAYMENT_CREATED row, for a moment or, after a crash, for good.
CommittedPaymentIsAudited ==
  \A p \in Recorded :
     \/ Entries(p, {"PAYMENT_CREATED"}) # {}
     \/ <<p, "PAYMENT_CREATED">> \in alarms
================================================================================
