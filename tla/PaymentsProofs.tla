---------------------------- MODULE PaymentsProofs -----------------------------
(***************************************************************************)
(* The payments component, for every set of users, grants, enrolments and  *)
(* requests: its types, separation of duty, that decisions are final, that *)
(* it implements the two-person ledger, that what is paid never falls, and *)
(* that the audit trail and the notices of a payment are true, told once   *)
(* and never missing without an alarm.                                     *)
(***************************************************************************)
EXTENDS Payments, SumTheorems, TLAPS

\* What a request holds while it is in flight.  A create carries its draft, a
\* decision carries a recorded payment and an actor who passed the gates.
Drafts == {"validated", "numbered", "saved"}

RequestOK(w) ==
  LET r == requests[w] IN
  /\ r.step \in Drafts =>
       r.actor \in Users /\ r.enrollment \in Enrollments /\ r.amount_minor \in Amounts
  /\ r.step \in {"numbered", "saved"} => r.payment \in 1 .. lastNumber
  /\ r.step = "saved" => r.payment \in Recorded
  /\ r.step \in Decisions =>
       /\ r.actor \in Users
       /\ r.payment \in Recorded
       /\ Holds(r.actor, required_permissions[r.step])
       /\ r.step = "cancel" => MayCancel(r.actor, r.payment)

\* A rejection was made by somebody who may reject.
RejectedByARejecter ==
  \A p \in Recorded : payments[p].status = "REJECTED" =>
     payments[p].rejected_by \in Users /\ Holds(payments[p].rejected_by, "payment.reject")

\* The inductive invariant.  Rows alone are not enough: what a transaction may
\* do to a row depends on what its request checked before the lock, and an
\* insert is safe only because the number it carries is its own.
IInv ==
  /\ TypeOK
  /\ Recorded \subseteq 1 .. lastNumber
  /\ \A w \in Workers : RequestOK(w)
  /\ NumbersAreFresh
  /\ SeparationOfDuty
  /\ CancelledByItsRecorderOrAnApprover
  /\ RejectedByARejecter

USE DEF Ids, Recorded

LEMMA InitIInv == Init => IInv
BY PaymentsAssumption
   DEF Init, IInv, TypeOK, RequestOK, NumbersAreFresh, SeparationOfDuty, Request, Steps,
       CancelledByItsRecorderOrAnApprover, RejectedByARejecter, Idle, Drafts, Decisions,
       Entry, NotificationKinds

----------------------------------------------------------------------------
(* Facts about the pieces.                                                 *)

RowsOK == SeparationOfDuty /\ CancelledByItsRecorderOrAnApprover /\ RejectedByARejecter

LEMMA RowsUntouched ==
  ASSUME RowsOK, UNCHANGED payments
  PROVE  RowsOK'
BY DEF RowsOK, SeparationOfDuty, CancelledByItsRecorderOrAnApprover, RejectedByARejecter

\* A request that ends leaves every other request as it was.
LEMMA FinishOK ==
  ASSUME TypeOK, NEW w \in Workers, Finish(w)
  PROVE  /\ requests' \in [Workers -> Request]
         /\ requests'[w] = Idle
         /\ \A v \in Workers \ {w} : requests'[v] = requests[v]
BY DEF TypeOK, Finish, Idle, Request, Steps

\* audit.record and notify keep the types of what they append to.
LEMMA RecordType ==
  ASSUME TypeOK, NEW p \in Ids, NEW action \in AuditActions, NEW actor \in Users,
         Record(p, action, actor)
  PROVE  trail' \in [Ids -> Seq(Entry)] /\ alarms' \subseteq Ids \X AuditActions
<1>1. CASE UNCHANGED alarms /\ trail' = [trail EXCEPT ![p] =
                                 Append(@, [action |-> action, actor |-> actor])]
  <2>1. [action |-> action, actor |-> actor] \in Entry
    BY DEF Entry
  <2>2. trail[p] \in Seq(Entry)
    BY DEF TypeOK
  <2>3. Append(trail[p], [action |-> action, actor |-> actor]) \in Seq(Entry)
    BY <2>1, <2>2
  <2> QED
    BY <1>1, <2>3 DEF TypeOK
<1>2. CASE UNCHANGED trail /\ alarms' = alarms \cup {<<p, action>>}
  BY <1>2 DEF TypeOK
<1> QED
  BY <1>1, <1>2 DEF Record

LEMMA NotifyType ==
  ASSUME TypeOK, NEW p \in Ids, NEW kind \in NotificationKinds, Notify(p, kind)
  PROVE  notices' \in [Ids -> Seq(NotificationKinds)]
<1>1. notices[p] \in Seq(NotificationKinds)
  BY DEF TypeOK
<1>2. Append(notices[p], kind) \in Seq(NotificationKinds)
  BY <1>1
<1> QED
  BY <1>2 DEF TypeOK, Notify

\* A step that only ends a request, and perhaps adds side rows, keeps the
\* invariant.
LEMMA EndOfRequest ==
  ASSUME IInv, NEW w \in Workers, Finish(w), UNCHANGED <<payments, lastNumber, withdrawn>>,
         trail' \in [Ids -> Seq(Entry)], alarms' \subseteq Ids \X AuditActions,
         notices' \in [Ids -> Seq(NotificationKinds)]
  PROVE  IInv'
<1>1. /\ requests' \in [Workers -> Request]
      /\ requests'[w] = Idle
      /\ \A v \in Workers \ {w} : requests'[v] = requests[v]
  BY FinishOK DEF IInv
<1>2. TypeOK'
  BY <1>1 DEF IInv, TypeOK
<1>3. \A v \in Workers : RequestOK(v)'
  <2> SUFFICES ASSUME NEW v \in Workers PROVE RequestOK(v)'
    OBVIOUS
  <2>1. CASE v = w
    BY <1>1, <2>1 DEF RequestOK, Idle, Drafts, Decisions
  <2>2. CASE v # w
    BY <1>1, <2>2 DEF IInv, RequestOK, MayCancel
  <2> QED
    BY <2>1, <2>2
<1>4. NumbersAreFresh'
  BY <1>1 DEF IInv, NumbersAreFresh, Idle
<1>5. RowsOK'
  BY RowsUntouched DEF IInv, RowsOK
<1> QED
  BY <1>2, <1>3, <1>4, <1>5 DEF IInv, RowsOK

----------------------------------------------------------------------------
(* Recording.                                                              *)

LEMMA StartCreateIInv ==
  ASSUME IInv, NEW w \in Workers, NEW u \in Users, NEW e \in Enrollments,
         NEW a \in Amounts, StartCreate(w, u, e, a)
  PROVE  IInv'
<1>1. TypeOK'
  BY DEF IInv, TypeOK, StartCreate, Request, Steps
<1>2. \A v \in Workers : RequestOK(v)'
  BY DEF IInv, TypeOK, StartCreate, RequestOK, Drafts, Decisions, MayCancel
<1>3. NumbersAreFresh'
  BY DEF IInv, TypeOK, StartCreate, NumbersAreFresh
<1>4. RowsOK'
  BY RowsUntouched DEF IInv, RowsOK, StartCreate
<1> QED
  BY <1>1, <1>2, <1>3, <1>4 DEF IInv, RowsOK, StartCreate

LEMMA AllocateNumberIInv ==
  ASSUME IInv, NEW w \in Workers, AllocateNumber(w)
  PROVE  IInv'
<1>1. TypeOK'
  <2>1. requests[w] \in Request
    BY DEF IInv, TypeOK
  <2>2. [requests[w] EXCEPT !.step = "numbered", !.payment = NextNumber] \in Request
    BY <2>1 DEF AllocateNumber, Request, Steps
  <2>3. requests' = [requests EXCEPT ![w] =
                       [requests[w] EXCEPT !.step = "numbered", !.payment = NextNumber]]
    BY DEF AllocateNumber, IInv, TypeOK
  <2>4. requests' \in [Workers -> Request]
    BY <2>2, <2>3 DEF IInv, TypeOK
  <2> QED
    BY <2>4, PaymentsAssumption DEF IInv, TypeOK, AllocateNumber
<1>2. \A v \in Workers : RequestOK(v)'
  <2> SUFFICES ASSUME NEW v \in Workers PROVE RequestOK(v)'
    OBVIOUS
  <2>1. CASE v = w
    BY <2>1 DEF IInv, TypeOK, AllocateNumber, NextNumber, RequestOK, Drafts, Decisions
  <2>2. CASE v # w
    BY <2>2 DEF IInv, TypeOK, AllocateNumber, NextNumber, RequestOK, Drafts, Decisions,
         MayCancel
  <2> QED
    BY <2>1, <2>2
<1>3. NumbersAreFresh'
  BY DEF IInv, TypeOK, AllocateNumber, NextNumber, RequestOK, NumbersAreFresh
<1>4. RowsOK'
  BY RowsUntouched DEF IInv, RowsOK, AllocateNumber
<1>5. (Recorded \subseteq 1 .. lastNumber)'
  BY DEF IInv, TypeOK, AllocateNumber, NextNumber
<1> QED
  BY <1>1, <1>2, <1>3, <1>4, <1>5 DEF IInv, RowsOK

LEMMA InsertPaymentIInv ==
  ASSUME IInv, NEW w \in Workers, InsertPayment(w)
  PROVE  IInv'
<1> DEFINE r == requests[w]
           row == NewRow(r.enrollment, r.amount_minor, r.actor)
<1>1. /\ r.actor \in Users /\ r.enrollment \in Enrollments /\ r.amount_minor \in Amounts
      /\ r.payment \in 1 .. lastNumber /\ r.payment \in Ids
      /\ r.payment \notin Recorded
  BY DEF IInv, TypeOK, InsertPayment, RequestOK, Drafts, Request
<1>2. row \in Row
  BY <1>1 DEF NewRow, Row, PaymentStatus
<1>3. /\ Recorded' = Recorded \cup {r.payment}
      /\ payments'[r.payment] = row
      /\ \A p \in Recorded : payments'[p] = payments[p]
  BY <1>1 DEF InsertPayment
<1>4. TypeOK'
  <2>1. payments' \in [Recorded' -> Row]
    BY <1>2, <1>3 DEF IInv, TypeOK, InsertPayment
  <2>2. requests' \in [Workers -> Request]
    <3>1. requests[w] \in Request /\ requests \in [Workers -> Request]
      BY DEF IInv, TypeOK
    <3>2. [requests[w] EXCEPT !.step = "saved"] \in Request
      BY <3>1 DEF Request, Steps
    <3>3. requests' = [requests EXCEPT ![w].step = "saved"]
      BY DEF InsertPayment
    <3> HIDE DEF r, row
    <3> QED BY <3>1, <3>2, <3>3
  <2> QED
    BY <1>1, <1>3, <2>1, <2>2 DEF IInv, TypeOK, InsertPayment
<1>5. \A v \in Workers : RequestOK(v)'
  <2> SUFFICES ASSUME NEW v \in Workers PROVE RequestOK(v)'
    OBVIOUS
  <2>1. CASE v = w
    BY <1>1, <1>3, <2>1 DEF IInv, TypeOK, InsertPayment, RequestOK, Drafts, Decisions
  <2>2. CASE v # w
    BY <1>1, <1>3, <2>2 DEF IInv, TypeOK, InsertPayment, RequestOK, Drafts, Decisions, MayCancel
  <2> QED
    BY <2>1, <2>2
<1>6. NumbersAreFresh'
  BY <1>1, <1>3 DEF IInv, TypeOK, InsertPayment, NumbersAreFresh
<1>7. RowsOK'
  BY <1>1, <1>3 DEF IInv, RowsOK, NewRow, SeparationOfDuty,
       CancelledByItsRecorderOrAnApprover, RejectedByARejecter
<1>8. (Recorded \subseteq 1 .. lastNumber)'
  BY <1>1, <1>3 DEF IInv, InsertPayment
<1> QED
  BY <1>4, <1>5, <1>6, <1>7, <1>8 DEF IInv, RowsOK

LEMMA AuditCreateIInv ==
  ASSUME IInv, NEW w \in Workers, AuditCreate(w)
  PROVE  IInv'
<1>1. /\ requests[w].payment \in Ids
      /\ requests[w].actor \in Users
  BY DEF IInv, TypeOK, AuditCreate, RequestOK, Drafts
<1>2. trail' \in [Ids -> Seq(Entry)] /\ alarms' \subseteq Ids \X AuditActions
  BY <1>1, RecordType DEF IInv, AuditCreate, AuditActions
<1>3. Finish(w) /\ UNCHANGED <<payments, lastNumber, withdrawn, notices>>
  BY DEF AuditCreate
<1>4. notices' \in [Ids -> Seq(NotificationKinds)]
  BY <1>3 DEF IInv, TypeOK
<1> QED
  BY <1>2, <1>3, <1>4, EndOfRequest

----------------------------------------------------------------------------
(* Deciding.                                                               *)

LEMMA LoadIInv ==
  ASSUME IInv, NEW w \in Workers, NEW u \in Users, NEW p \in Recorded,
         NEW d \in Decisions, Load(w, u, p, d)
  PROVE  IInv'
<1>1. requests' = [requests EXCEPT ![w] = [step |-> d, actor |-> u, payment |-> p,
                                          enrollment |-> Null, amount_minor |-> 0]]
  BY DEF Load
<1>2. TypeOK'
  BY <1>1 DEF IInv, TypeOK, Load, Request, Steps
<1>3. \A v \in Workers : RequestOK(v)'
  <2> SUFFICES ASSUME NEW v \in Workers PROVE RequestOK(v)'
    OBVIOUS
  <2>1. CASE v = w
    BY <1>1, <2>1 DEF IInv, TypeOK, Load, RequestOK, Drafts, Decisions, MayCancel
  <2>2. CASE v # w
    BY <1>1, <2>2 DEF IInv, TypeOK, Load, RequestOK, MayCancel
  <2> QED
    BY <2>1, <2>2
<1>4. NumbersAreFresh'
  BY <1>1 DEF IInv, TypeOK, Load, NumbersAreFresh, Decisions
<1>5. RowsOK'
  BY RowsUntouched DEF IInv, RowsOK, Load
<1> QED
  BY <1>2, <1>3, <1>4, <1>5 DEF IInv, RowsOK, Load

\* The transaction of a decision: one row moves from PENDING to a verdict, its
\* recorder stays, and the request ends.
Decided(w, new) ==
  LET p == requests[w].payment IN
  /\ payments' = [payments EXCEPT ![p] = new]
  /\ new \in Row
  /\ new.created_by = payments[p].created_by
  /\ Finish(w)
  /\ UNCHANGED <<lastNumber, withdrawn>>

LEMMA DecidedIInv ==
  ASSUME IInv, NEW w \in Workers, requests[w].step \in Decisions, NEW new, Decided(w, new),
         trail' \in [Ids -> Seq(Entry)], alarms' \subseteq Ids \X AuditActions,
         notices' \in [Ids -> Seq(NotificationKinds)], RowsOK'
  PROVE  IInv'
<1>1. /\ requests' \in [Workers -> Request]
      /\ requests'[w] = Idle
      /\ \A v \in Workers \ {w} : requests'[v] = requests[v]
  BY FinishOK DEF IInv, Decided
<1>2. requests[w].payment \in Recorded
  BY DEF IInv, RequestOK
<1>3. /\ Recorded' = Recorded
      /\ \A p \in Recorded : payments'[p].created_by = payments[p].created_by
  BY <1>2 DEF IInv, TypeOK, Decided
<1>4. TypeOK'
  BY <1>1, <1>2 DEF IInv, TypeOK, Decided
<1>5. \A v \in Workers : RequestOK(v)'
  <2> SUFFICES ASSUME NEW v \in Workers PROVE RequestOK(v)'
    OBVIOUS
  <2>1. CASE v = w
    BY <1>1, <2>1 DEF RequestOK, Idle, Drafts, Decisions
  <2>2. CASE v # w
    BY <1>1, <1>3, <2>2 DEF IInv, RequestOK, Decided, MayCancel
  <2> QED
    BY <2>1, <2>2
<1>6. NumbersAreFresh'
  BY <1>1, <1>3 DEF IInv, NumbersAreFresh, Idle
<1> QED
  BY <1>3, <1>4, <1>5, <1>6 DEF IInv, RowsOK, Decided

LEMMA ApproveIInv ==
  ASSUME IInv, NEW w \in Workers, Approve(w)
  PROVE  IInv'
<1> DEFINE p == requests[w].payment
           actor == requests[w].actor
           new == [payments[p] EXCEPT !.status = "APPROVED", !.approved_by = actor]
<1>1. /\ p \in Recorded /\ p \in Ids /\ actor \in Users
      /\ Holds(actor, "payment.approve")
      /\ payments[p] \in Row /\ payments[p].created_by # actor
  BY DEF IInv, TypeOK, Approve, RequestOK, Decisions, required_permissions, MayApprove
<1>2. Decided(w, new)
  BY <1>1 DEF Approve, Decided, Row, PaymentStatus
<1>3. trail' \in [Ids -> Seq(Entry)] /\ alarms' \subseteq Ids \X AuditActions
  BY <1>1, RecordType DEF IInv, Approve, AuditActions, DecisionActions
<1>4. notices' \in [Ids -> Seq(NotificationKinds)]
  BY <1>1, NotifyType DEF IInv, Approve, NotificationKinds, ApprovalNotice
<1>5. RowsOK'
  BY <1>1 DEF IInv, TypeOK, Approve, RowsOK, Row, SeparationOfDuty,
       CancelledByItsRecorderOrAnApprover, RejectedByARejecter
<1>6. requests[w].step \in Decisions
  BY DEF Approve, Decisions
<1> QED
  BY <1>2, <1>3, <1>4, <1>5, <1>6, DecidedIInv

LEMMA RejectIInv ==
  ASSUME IInv, NEW w \in Workers, Reject(w)
  PROVE  IInv'
<1> DEFINE p == requests[w].payment
           actor == requests[w].actor
           new == [payments[p] EXCEPT !.status = "REJECTED", !.rejected_by = actor]
<1>1. /\ p \in Recorded /\ p \in Ids /\ actor \in Users
      /\ Holds(actor, "payment.reject")
      /\ payments[p] \in Row
  BY DEF IInv, TypeOK, Reject, RequestOK, Decisions, required_permissions
<1>2. Decided(w, new)
  BY <1>1 DEF Reject, Decided, Row, PaymentStatus
<1>3. trail' \in [Ids -> Seq(Entry)] /\ alarms' \subseteq Ids \X AuditActions
  BY <1>1, RecordType DEF IInv, Reject, AuditActions, DecisionActions
<1>4. notices' \in [Ids -> Seq(NotificationKinds)]
  BY <1>1, NotifyType DEF IInv, Reject, NotificationKinds, RejectionNotice
<1>5. RowsOK'
  BY <1>1 DEF IInv, TypeOK, Reject, RowsOK, Row, SeparationOfDuty,
       CancelledByItsRecorderOrAnApprover, RejectedByARejecter
<1>6. requests[w].step \in Decisions
  BY DEF Reject, Decisions
<1> QED
  BY <1>2, <1>3, <1>4, <1>5, <1>6, DecidedIInv

LEMMA CancelIInv ==
  ASSUME IInv, NEW w \in Workers, Cancel(w)
  PROVE  IInv'
<1> DEFINE p == requests[w].payment
           actor == requests[w].actor
           new == [payments[p] EXCEPT !.status = "CANCELLED", !.cancelled_by = actor]
<1>1. /\ p \in Recorded /\ p \in Ids /\ actor \in Users
      /\ MayCancel(actor, p)
      /\ payments[p] \in Row
  BY DEF IInv, TypeOK, Cancel, RequestOK, Decisions
<1>2. Decided(w, new)
  BY <1>1 DEF Cancel, Decided, Row, PaymentStatus
<1>3. trail' \in [Ids -> Seq(Entry)] /\ alarms' \subseteq Ids \X AuditActions
  BY <1>1, RecordType DEF IInv, Cancel, AuditActions, DecisionActions
<1>4. notices' \in [Ids -> Seq(NotificationKinds)]
  BY DEF IInv, TypeOK, Cancel
<1>5. RowsOK'
  BY <1>1 DEF IInv, TypeOK, Cancel, RowsOK, Row, SeparationOfDuty, MayCancel,
       CancelledByItsRecorderOrAnApprover, RejectedByARejecter
<1>6. requests[w].step \in Decisions
  BY DEF Cancel, Decisions
<1> QED
  BY <1>2, <1>3, <1>4, <1>5, <1>6, DecidedIInv

----------------------------------------------------------------------------
(* The theorems.                                                           *)

LEMMA NextIInv == IInv /\ [Next]_vars => IInv'
<1> SUFFICES ASSUME IInv, [Next]_vars PROVE IInv'
  OBVIOUS
<1>1. CASE \E w \in Workers, u \in Users, e \in Enrollments, a \in Amounts :
              StartCreate(w, u, e, a)
  BY <1>1, StartCreateIInv
<1>2. CASE \E w \in Workers : AllocateNumber(w)
  BY <1>2, AllocateNumberIInv
<1>3. CASE \E w \in Workers : InsertPayment(w)
  BY <1>3, InsertPaymentIInv
<1>4. CASE \E w \in Workers : AuditCreate(w)
  BY <1>4, AuditCreateIInv
<1>5. CASE \E w \in Workers, u \in Users, p \in Recorded, d \in Decisions : Load(w, u, p, d)
  BY <1>5, LoadIInv
<1>6. CASE \E w \in Workers : Approve(w)
  BY <1>6, ApproveIInv
<1>7. CASE \E w \in Workers : Reject(w)
  BY <1>7, RejectIInv
<1>8. CASE \E w \in Workers : Cancel(w)
  BY <1>8, CancelIInv
<1>9. CASE \E w \in Workers : Refused(w)
  <2>1. PICK w \in Workers : Refused(w)
    BY <1>9
  <2>2. UNCHANGED <<payments, lastNumber, withdrawn, trail, alarms, notices>> /\ Finish(w)
    BY <2>1 DEF Refused
  <2> QED
    BY <2>2, EndOfRequest DEF IInv, TypeOK
<1>10. CASE \E w \in Workers : Crash(w)
  <2>1. PICK w \in Workers : Crash(w)
    BY <1>10
  <2>2. UNCHANGED <<payments, lastNumber, withdrawn, trail, alarms, notices>> /\ Finish(w)
    BY <2>1 DEF Crash
  <2> QED
    BY <2>2, EndOfRequest DEF IInv, TypeOK
<1>11. CASE \E e \in Enrollments : SetEnrollmentStatus(e)
  BY <1>11 DEF IInv, TypeOK, SetEnrollmentStatus, RequestOK, MayCancel, NumbersAreFresh,
       SeparationOfDuty, CancelledByItsRecorderOrAnApprover, RejectedByARejecter
<1>12. CASE UNCHANGED vars
  BY <1>12 DEF vars, IInv, TypeOK, RequestOK, MayCancel, NumbersAreFresh,
       SeparationOfDuty, CancelledByItsRecorderOrAnApprover, RejectedByARejecter
<1> QED
  BY <1>1, <1>2, <1>3, <1>4, <1>5, <1>6, <1>7, <1>8, <1>9, <1>10, <1>11, <1>12 DEF Next

\* What every state of the payments component satisfies.
THEOREM Invariance == Spec => []IInv
BY InitIInv, NextIInv, PTL DEF Spec

\* The type invariant, for every constant.
THEOREM PaymentsTypeCorrect == Spec => []TypeOK
<1>1. IInv => TypeOK
  BY DEF IInv
<1> QED
  BY <1>1, Invariance, PTL

\* No payment is ever confirmed by the person who recorded it.
THEOREM PaymentsSeparationOfDuty == Spec => []SeparationOfDuty
<1>1. IInv => SeparationOfDuty
  BY DEF IInv
<1> QED
  BY <1>1, Invariance, PTL

\* Two requests never insert under the same number.
THEOREM PaymentsNumbersAreFresh == Spec => []NumbersAreFresh
<1>1. IInv => NumbersAreFresh
  BY DEF IInv
<1> QED
  BY <1>1, Invariance, PTL

\* Only an approver or the recorder ever withdraws an entry.
THEOREM PaymentsCancelRight == Spec => []CancelledByItsRecorderOrAnApprover
<1>1. IInv => CancelledByItsRecorderOrAnApprover
  BY DEF IInv
<1> QED
  BY <1>1, Invariance, PTL

----------------------------------------------------------------------------
(* Decisions are final.                                                    *)

\* Which steps write the payments table: the insert and the three decisions.
LEMMA WhoWrites ==
  ASSUME [Next]_vars
  PROVE  \/ UNCHANGED payments
         \/ \E w \in Workers : InsertPayment(w) \/ Approve(w) \/ Reject(w) \/ Cancel(w)
BY DEF Next, vars, StartCreate, AllocateNumber, AuditCreate, Load, Refused, Crash,
       SetEnrollmentStatus

\* What a decision does to the table: one row, which was PENDING.
LEMMA DecisionWrites ==
  ASSUME IInv, NEW w \in Workers, Approve(w) \/ Reject(w) \/ Cancel(w)
  PROVE  LET p == requests[w].payment IN
         /\ p \in Recorded /\ Recorded' = Recorded
         /\ payments[p].status = "PENDING"
         /\ \A q \in Recorded \ {p} : payments'[q] = payments[q]
         /\ payments'[p].created_by = payments[p].created_by
         /\ payments'[p].enrollment = payments[p].enrollment
         /\ payments'[p].amount_minor = payments[p].amount_minor
<1> DEFINE p == requests[w].payment
<1>1. p \in Recorded /\ payments[p] \in Row /\ ~IsTerminal(p)
  BY DEF IInv, TypeOK, RequestOK, Decisions, Approve, Reject, Cancel, MayApprove
<1>2. payments[p].status = "PENDING"
  BY <1>1 DEF Row, PaymentStatus, IsTerminal, TERMINAL_STATUSES
<1>3. CASE Approve(w)
  BY <1>1, <1>2, <1>3 DEF Approve, IInv, TypeOK, Row
<1>4. CASE Reject(w)
  BY <1>1, <1>2, <1>4 DEF Reject, IInv, TypeOK, Row
<1>5. CASE Cancel(w)
  BY <1>1, <1>2, <1>5 DEF Cancel, IInv, TypeOK, Row
<1> QED
  BY <1>3, <1>4, <1>5

\* There is no un-approve: a decided row never changes again, and no row ever
\* disappears or changes hands.
THEOREM PaymentsDecisionsAreFinal == Spec => DecisionsAreFinal
<1> DEFINE Kept == \A p \in Recorded :
             /\ p \in Recorded'
             /\ payments'[p].created_by = payments[p].created_by
             /\ payments'[p].enrollment = payments[p].enrollment
             /\ payments'[p].amount_minor = payments[p].amount_minor
             /\ payments[p].status \in TERMINAL_STATUSES => payments'[p] = payments[p]
<1>1. IInv /\ [Next]_vars => [Kept]_payments
  <2> SUFFICES ASSUME IInv, [Next]_vars PROVE Kept \/ UNCHANGED payments
    OBVIOUS
  <2>1. CASE \E w \in Workers : InsertPayment(w)
    BY <2>1 DEF InsertPayment
  <2>2. CASE \E w \in Workers : Approve(w) \/ Reject(w) \/ Cancel(w)
    <3>1. PICK w \in Workers : Approve(w) \/ Reject(w) \/ Cancel(w)
      BY <2>2
    <3>2. payments[requests[w].payment].status \notin TERMINAL_STATUSES
      BY <3>1, DecisionWrites DEF IsTerminal, TERMINAL_STATUSES
    <3> QED
      BY <3>1, <3>2, DecisionWrites
  <2> QED
    BY <2>1, <2>2, WhoWrites
<1> QED
  BY <1>1, Invariance, PTL DEF Spec, DecisionsAreFinal

----------------------------------------------------------------------------
(* The component implements the two-person ledger.                         *)

Line(p) == [status |-> payments[p].status, recorder |-> payments[p].created_by,
            decider |-> Decider(p)]
Blank == [status |-> "UNWRITTEN", recorder |-> Null, decider |-> Null]

LEMMA LedgerInitially == Init => Ledger!LedgerInit
BY DEF Init, LedgerView, Ledger!LedgerInit, Ledger!Unwritten

\* An insert is RecordLine: the line was blank because the number is fresh.
LEMMA InsertIsRecord ==
  ASSUME IInv, NEW w \in Workers, InsertPayment(w),
         NEW p, p = requests[w].payment, NEW actor, actor = requests[w].actor
  PROVE  Ledger!RecordLine(p, actor)
<1>1. p \in Ids /\ p \notin Recorded /\ actor \in Users
  BY PaymentsAssumption DEF IInv, TypeOK, InsertPayment, RequestOK, Drafts, Request, NumbersAreFresh
<1>2. /\ Recorded' = Recorded \cup {p}
      /\ payments'[p].status = "PENDING" /\ payments'[p].created_by = actor
      /\ \A q \in Recorded : payments'[q] = payments[q]
  BY <1>1 DEF InsertPayment, NewRow
<1>3. Decider(p)' = Null
  BY <1>2 DEF Decider
<1>4. \A q \in Recorded : Decider(q)' = Decider(q)
  BY <1>2 DEF Decider
<1>5. LedgerView' = [LedgerView EXCEPT ![p] =
                       [status |-> "PENDING", recorder |-> actor, decider |-> Null]]
  BY <1>1, <1>2, <1>3, <1>4 DEF LedgerView
<1>6. LedgerView[p] = Blank
  BY <1>1 DEF LedgerView, Blank
<1> QED
  BY <1>5, <1>6 DEF Ledger!RecordLine, Ledger!Unwritten, Blank

\* A decision is DecideLine, with the authority its request was checked for.
LEMMA DecisionIsDecide ==
  ASSUME IInv, NEW w \in Workers, Approve(w) \/ Reject(w) \/ Cancel(w),
         NEW p, p = requests[w].payment, NEW actor, actor = requests[w].actor
  PROVE  \E verdict \in {"APPROVED", "REJECTED", "CANCELLED"} :
            Ledger!DecideLine(p, verdict, actor)
<1>1. /\ p \in Ids /\ p \in Recorded /\ actor \in Users /\ payments[p] \in Row
      /\ Recorded' = Recorded
      /\ payments[p].status = "PENDING"
      /\ \A q \in Recorded \ {p} : payments'[q] = payments[q]
      /\ payments'[p].created_by = payments[p].created_by
  BY DecisionWrites DEF IInv, TypeOK, RequestOK, Decisions, Approve, Reject, Cancel
<1>2. \A q \in Recorded \ {p} : Decider(q)' = Decider(q)
  BY <1>1 DEF Decider
<1>3. LedgerView[p].status = "PENDING" /\ LedgerView[p].recorder = payments[p].created_by
  BY <1>1 DEF LedgerView
<1>4. ASSUME NEW verdict, payments'[p].status = verdict, Decider(p)' = actor
      PROVE  LedgerView' = [LedgerView EXCEPT ![p].status = verdict, ![p].decider = actor]
  BY <1>1, <1>2, <1>4 DEF LedgerView
<1>5. CASE Approve(w)
  <2>1. payments'[p].status = "APPROVED" /\ payments'[p].approved_by = actor
    BY <1>1, <1>5 DEF Approve, Row
  <2>2. Decider(p)' = actor
    BY <2>1 DEF Decider
  <2>3. Holds(actor, "payment.approve") /\ payments[p].created_by # actor
    BY <1>5 DEF IInv, RequestOK, Decisions, required_permissions, Approve, MayApprove
  <2>4. Ledger!MayDecide("APPROVED", LedgerView[p].recorder, actor)
    BY <1>1, <1>3, <2>3 DEF Ledger!MayDecide
  <2> QED
    BY <1>3, <1>4, <2>1, <2>2, <2>4 DEF Ledger!DecideLine
<1>6. CASE Reject(w)
  <2>1. payments'[p].status = "REJECTED" /\ payments'[p].rejected_by = actor
    BY <1>1, <1>6 DEF Reject, Row
  <2>2. Decider(p)' = actor
    BY <2>1 DEF Decider
  <2>3. Holds(actor, "payment.reject")
    BY <1>6 DEF IInv, RequestOK, Decisions, required_permissions, Reject
  <2>4. Ledger!MayDecide("REJECTED", LedgerView[p].recorder, actor)
    BY <1>1, <2>3 DEF Ledger!MayDecide
  <2> QED
    BY <1>3, <1>4, <2>1, <2>2, <2>4 DEF Ledger!DecideLine
<1>7. CASE Cancel(w)
  <2>1. payments'[p].status = "CANCELLED" /\ payments'[p].cancelled_by = actor
    BY <1>1, <1>7 DEF Cancel, Row
  <2>2. Decider(p)' = actor
    BY <2>1 DEF Decider
  <2>3. Holds(actor, "payment.approve") \/ payments[p].created_by = actor
    BY <1>7 DEF IInv, RequestOK, Decisions, Cancel, MayCancel
  <2>4. Ledger!MayDecide("CANCELLED", LedgerView[p].recorder, actor)
    BY <1>1, <1>3, <2>3 DEF Ledger!MayDecide
  <2> QED
    BY <1>3, <1>4, <2>1, <2>2, <2>4 DEF Ledger!DecideLine
<1> QED
  BY <1>5, <1>6, <1>7

LEMMA LedgerStep == IInv /\ [Next]_vars => [Ledger!LedgerNext]_LedgerView
<1> SUFFICES ASSUME IInv, [Next]_vars PROVE Ledger!LedgerNext \/ UNCHANGED LedgerView
  OBVIOUS
<1>1. CASE UNCHANGED payments
  BY <1>1 DEF LedgerView, Decider
<1>2. CASE \E w \in Workers : InsertPayment(w)
  <2>1. PICK w \in Workers : InsertPayment(w)
    BY <1>2
  <2>2. requests[w].payment \in Ids /\ requests[w].actor \in Users
    BY <2>1, PaymentsAssumption DEF IInv, TypeOK, InsertPayment, RequestOK, Drafts, Request
  <2> QED
    BY <2>1, <2>2, InsertIsRecord DEF Ledger!LedgerNext
<1>3. CASE \E w \in Workers : Approve(w) \/ Reject(w) \/ Cancel(w)
  <2>1. PICK w \in Workers : Approve(w) \/ Reject(w) \/ Cancel(w)
    BY <1>3
  <2>2. requests[w].payment \in Ids /\ requests[w].actor \in Users
    BY <2>1 DEF IInv, TypeOK, RequestOK, Decisions, Approve, Reject, Cancel
  <2> QED
    BY <2>1, <2>2, DecisionIsDecide DEF Ledger!LedgerNext, Ledger!Verdicts
<1> QED
  BY <1>1, <1>2, <1>3, WhoWrites

\* Every behaviour of the payments component is a behaviour of the ledger.
THEOREM PaymentsIsTwoPersonLedger == Spec => IsTwoPersonLedger
BY LedgerInitially, LedgerStep, Invariance, PTL
   DEF Spec, IsTwoPersonLedger, Ledger!LedgerSpec
----------------------------------------------------------------------------
(* What an enrolment has paid.                                             *)

\* What the rows S of a table come to, and the rows of e in one status.
Worth(table, S) == SumFunctionOnSet([p \in S |-> table[p].amount_minor], S)
InStatus(e, status) ==
  {p \in Recorded : payments[p].enrollment = e /\ payments[p].status = status}

LEMMA BalanceIs ==
  ASSUME NEW e \in Enrollments
  PROVE  /\ enrollment_balance(e).paid_minor = Worth(payments, InStatus(e, "APPROVED"))
         /\ enrollment_balance(e).pending_minor = Worth(payments, InStatus(e, "PENDING"))
         /\ enrollment_balance(e).is_settled <=> Worth(payments, InStatus(e, "APPROVED")) >= Price[e]
<1>1. /\ InStatus(e, "APPROVED") =
           {p \in {q \in Recorded : payments[q].enrollment = e} : counts_toward_balance(p)}
      /\ InStatus(e, "PENDING") =
           {p \in {q \in Recorded : payments[q].enrollment = e} : payments[p].status = "PENDING"}
  BY DEF InStatus, counts_toward_balance
<1> QED BY <1>1 DEF enrollment_balance, SumOf, Worth

\* Rows come to a natural number, and each of them counts in full.
LEMMA RowsAddUp ==
  ASSUME NEW table, NEW S, IsFiniteSet(S), \A p \in S : table[p].amount_minor \in Nat
  PROVE  /\ Worth(table, S) \in Nat
         /\ \A p \in S : table[p].amount_minor <= Worth(table, S)
<1> DEFINE f == [p \in S |-> table[p].amount_minor]
<1>1. \A p \in S : f[p] \in Nat /\ f[p] = table[p].amount_minor
  OBVIOUS
<1> HIDE DEF f
<1>2. SumFunctionOnSet(f, S) \in Nat
  BY <1>1, SumIsNat
<1>3. ASSUME NEW p \in S PROVE f[p] <= SumFunctionOnSet(f, S)
  <2>1. SumFunctionOnSet(f, S) = f[p] + SumFunctionOnSet(f, S \ {p})
    BY <1>1, SumTakesOut
  <2>2. IsFiniteSet(S \ {p}) /\ \A q \in S \ {p} : f[q] \in Nat
    BY <1>1, FS_Subset
  <2>3. SumFunctionOnSet(f, S \ {p}) \in Nat
    BY <2>2, SumIsNat
  <2> QED BY <1>1, <2>1, <2>3
<1> QED BY <1>1, <1>2, <1>3 DEF f, Worth

\* The same rows come to the same in a table that has their amounts.
LEMMA SameRows ==
  ASSUME NEW table, NEW after, NEW S, IsFiniteSet(S),
         \A p \in S : after[p].amount_minor = table[p].amount_minor
  PROVE  Worth(after, S) = Worth(table, S)
<1>1. [p \in S |-> after[p].amount_minor] = [p \in S |-> table[p].amount_minor]
  OBVIOUS
<1> QED BY <1>1 DEF Worth

\* One row more adds its amount.
LEMMA OneMoreRow ==
  ASSUME NEW table, NEW S, IsFiniteSet(S), NEW p, p \notin S,
         \A q \in S \cup {p} : table[q].amount_minor \in Nat
  PROVE  Worth(table, S \cup {p}) = Worth(table, S) + table[p].amount_minor
<1> DEFINE f == [q \in S |-> table[q].amount_minor]
           g == [q \in S \cup {p} |-> table[q].amount_minor]
<1>1. /\ \A q \in S \cup {p} : g[q] \in Nat
      /\ \A q \in S : f[q] = g[q]
      /\ g[p] = table[p].amount_minor
  OBVIOUS
<1>2. Worth(table, S) = SumFunctionOnSet(f, S)
      /\ Worth(table, S \cup {p}) = SumFunctionOnSet(g, S \cup {p})
  BY DEF Worth
<1> HIDE DEF f, g
<1>3. SumFunctionOnSet(g, S \cup {p}) = SumFunctionOnSet(g, S) + g[p]
  BY <1>1, SumPutsIn
<1>4. SumFunctionOnSet(f, S) = SumFunctionOnSet(g, S)
  BY <1>1, SumOfTheSame
<1> QED BY <1>1, <1>2, <1>3, <1>4

\* Recorded rows are finitely many, with natural amounts.
LEMMA TableOK ==
  ASSUME TypeOK
  PROVE  IsFiniteSet(Recorded) /\ \A p \in Recorded : payments[p].amount_minor \in Nat
<1>1. MaxId \in Nat /\ Recorded \subseteq 1 .. MaxId
  BY PaymentsAssumption DEF TypeOK
<1>2. IsFiniteSet(1 .. MaxId)
  BY <1>1, FS_Interval
<1>3. IsFiniteSet(Recorded)
  BY <1>1, <1>2, FS_Subset
<1> QED BY <1>3, PaymentsAssumption DEF TypeOK, Row

\* A step leaves the confirmed rows of e as they are, or adds one that was
\* pending, and no amount is rewritten.
LEMMA ConfirmedRows ==
  ASSUME IInv, [Next]_vars, NEW e \in Enrollments
  PROVE  /\ \A p \in Recorded : payments'[p].amount_minor = payments[p].amount_minor
         /\ \/ InStatus(e, "APPROVED")' = InStatus(e, "APPROVED")
            \/ \E p \in InStatus(e, "PENDING") :
                  InStatus(e, "APPROVED")' = InStatus(e, "APPROVED") \cup {p}
<1>1. CASE UNCHANGED payments
  BY <1>1 DEF InStatus
<1>2. CASE \E w \in Workers : InsertPayment(w)
  <2>1. PICK w \in Workers : InsertPayment(w)
    BY <1>2
  <2>2. PICK q : q = requests[w].payment
    OBVIOUS
  <2>3. /\ q \notin Recorded /\ Recorded' = Recorded \cup {q}
        /\ payments'[q].status = "PENDING"
        /\ \A p \in Recorded : payments'[p] = payments[p]
    BY <2>1, <2>2 DEF InsertPayment, NewRow
  <2> QED BY <2>3 DEF InStatus
<1>3. CASE \E w \in Workers : Approve(w) \/ Reject(w) \/ Cancel(w)
  <2>1. PICK w \in Workers : Approve(w) \/ Reject(w) \/ Cancel(w)
    BY <1>3
  <2>2. PICK q : q = requests[w].payment
    OBVIOUS
  <2>3. /\ q \in Recorded /\ Recorded' = Recorded
        /\ payments[q].status = "PENDING"
        /\ \A p \in Recorded \ {q} : payments'[p] = payments[p]
        /\ payments'[q].enrollment = payments[q].enrollment
        /\ payments'[q].amount_minor = payments[q].amount_minor
    BY <2>1, <2>2, DecisionWrites
  <2>4. CASE payments'[q].status = "APPROVED" /\ payments[q].enrollment = e
    <3>1. q \in InStatus(e, "PENDING")
      BY <2>3, <2>4 DEF InStatus
    <3>2. InStatus(e, "APPROVED")' = InStatus(e, "APPROVED") \cup {q}
      BY <2>3, <2>4 DEF InStatus
    <3> QED BY <2>3, <3>1, <3>2
  <2>5. CASE ~(payments'[q].status = "APPROVED" /\ payments[q].enrollment = e)
    <3>1. InStatus(e, "APPROVED")' = InStatus(e, "APPROVED")
      BY <2>3, <2>5 DEF InStatus
    <3> QED BY <2>3, <3>1
  <2> QED BY <2>4, <2>5
<1> QED BY <1>1, <1>2, <1>3, WhoWrites

\* A step adds to what e has paid nothing, or one row that was pending.
LEMMA PaidRises ==
  ASSUME IInv, [Next]_vars, NEW e \in Enrollments,
         NEW before, before = Worth(payments, InStatus(e, "APPROVED")),
         NEW after, after = Worth(payments', InStatus(e, "APPROVED")'),
         NEW waiting, waiting = Worth(payments, InStatus(e, "PENDING"))
  PROVE  /\ before \in Nat /\ after \in Nat /\ waiting \in Nat
         /\ before <= after /\ after - before <= waiting
<1> DEFINE paid == InStatus(e, "APPROVED")
           pending == InStatus(e, "PENDING")
<1>1. /\ IsFiniteSet(paid) /\ \A p \in paid : payments[p].amount_minor \in Nat
      /\ IsFiniteSet(pending) /\ \A p \in pending : payments[p].amount_minor \in Nat
  <2>1. paid \subseteq Recorded /\ pending \subseteq Recorded
    BY DEF InStatus
  <2>2. IsFiniteSet(Recorded) /\ \A p \in Recorded : payments[p].amount_minor \in Nat
    BY TableOK DEF IInv
  <2> HIDE DEF paid, pending
  <2> QED BY <2>1, <2>2, FS_Subset
<1>2. before \in Nat /\ waiting \in Nat
      /\ \A p \in pending : payments[p].amount_minor <= waiting
  BY <1>1, RowsAddUp
<1>3. \A p \in paid \cup pending : payments'[p].amount_minor = payments[p].amount_minor
  BY ConfirmedRows DEF InStatus
<1>4. Worth(payments', paid) = before
  BY <1>1, <1>3, SameRows
<1>5. CASE paid' = paid
  BY <1>2, <1>4, <1>5
<1>6. CASE \E p \in pending : paid' = paid \cup {p}
  <2>1. PICK p \in pending : paid' = paid \cup {p}
    BY <1>6
  <2>2. p \notin paid
    BY DEF InStatus
  <2>3. \A q \in paid \cup {p} : payments'[q].amount_minor \in Nat
    BY <1>1, <1>3
  <2>4. Worth(payments', paid \cup {p}) = Worth(payments', paid) + payments'[p].amount_minor
    <3> HIDE DEF paid, pending
    <3> QED BY <1>1, <2>2, <2>3, OneMoreRow
  <2>5. after = before + payments[p].amount_minor
    BY <1>3, <1>4, <2>1, <2>4
  <2> QED BY <1>1, <1>2, <2>5
<1> QED BY <1>5, <1>6, ConfirmedRows

\* What an enrolment has paid never falls and rises only by money that was
\* pending, so a settled enrolment stays settled.
THEOREM PaymentsPaidNeverFalls == Spec => PaidNeverFalls
<1> DEFINE Rises ==
      \A e \in Enrollments :
        LET before == enrollment_balance(e)
            after == enrollment_balance(e)' IN
        /\ after.paid_minor >= before.paid_minor
        /\ after.paid_minor - before.paid_minor <= before.pending_minor
        /\ before.is_settled => after.is_settled
<1>1. IInv /\ [Next]_vars => Rises
  <2> SUFFICES ASSUME IInv, [Next]_vars, NEW e \in Enrollments
               PROVE  /\ enrollment_balance(e)'.paid_minor >= enrollment_balance(e).paid_minor
                      /\ enrollment_balance(e)'.paid_minor - enrollment_balance(e).paid_minor
                           <= enrollment_balance(e).pending_minor
                      /\ enrollment_balance(e).is_settled => enrollment_balance(e)'.is_settled
    OBVIOUS
  <2>1. PICK before : before = Worth(payments, InStatus(e, "APPROVED"))
    OBVIOUS
  <2>2. PICK after : after = Worth(payments', InStatus(e, "APPROVED")')
    OBVIOUS
  <2>3. PICK waiting : waiting = Worth(payments, InStatus(e, "PENDING"))
    OBVIOUS
  <2>4. /\ before \in Nat /\ after \in Nat /\ waiting \in Nat
        /\ before <= after /\ after - before <= waiting
    BY <2>1, <2>2, <2>3, PaidRises
  <2>5. /\ enrollment_balance(e).paid_minor = before
        /\ enrollment_balance(e).pending_minor = waiting
        /\ enrollment_balance(e).is_settled <=> before >= Price[e]
    BY <2>1, <2>3, BalanceIs
  <2>6. /\ enrollment_balance(e)'.paid_minor = after
        /\ enrollment_balance(e)'.is_settled <=> after >= Price[e]
    <3>1. /\ InStatus(e, "APPROVED")' =
               {p \in {q \in Recorded' : payments'[q].enrollment = e} : counts_toward_balance(p)'}
      BY DEF InStatus, counts_toward_balance
    <3> QED BY <2>2, <3>1 DEF enrollment_balance, SumOf, Worth
  <2>7. Price[e] \in Nat
    BY PaymentsAssumption
  <2> QED BY <2>4, <2>5, <2>6, <2>7
<1> QED BY <1>1, Invariance, PTL DEF Spec, PaidNeverFalls

----------------------------------------------------------------------------
(* What is told of a payment.                                              *)

\* One entry of the trail of p is true.
EntryTrue(p, entry) ==
  /\ entry.action \in DecisionActions =>
       /\ IsTerminal(p)
       /\ entry = [action |-> Verdict[payments[p].status], actor |-> Decider(p)]
  /\ entry.action = "PAYMENT_CREATED" => entry.actor = payments[p].created_by

\* The trail of p holds a decision at most, and a creation at most.
ToldOnce(p) ==
  \A i, j \in 1 .. Len(trail[p]) :
     (trail[p][i].action \in DecisionActions <=> trail[p][j].action \in DecisionActions) => i = j

AccountedFor(p) ==
  IsTerminal(p) =>
     \/ \E i \in 1 .. Len(trail[p]) : trail[p][i].action = Verdict[payments[p].status]
     \/ <<p, Verdict[payments[p].status]>> \in alarms

NoticeOK(p) ==
  notices[p] # <<>> =>
     /\ payments[p].status \in {"APPROVED", "REJECTED"}
     /\ notices[p] = <<Verdict[payments[p].status]>>

Told(p) ==
  /\ p \notin Recorded => trail[p] = <<>> /\ notices[p] = <<>>
  /\ p \in Recorded =>
       /\ \A i \in 1 .. Len(trail[p]) : EntryTrue(p, trail[p][i])
       /\ ToldOnce(p) /\ AccountedFor(p) /\ NoticeOK(p)

\* A request that has inserted its row and still owes the audit row: nobody
\* else owes it, and it is not there yet.
Owes(w) == requests[w].step = "saved"
OwedOK(w) ==
  Owes(w) =>
    /\ requests[w].actor = payments[requests[w].payment].created_by
    /\ \A i \in 1 .. Len(trail[requests[w].payment]) :
          trail[requests[w].payment][i].action # "PAYMENT_CREATED"
    /\ \A v \in Workers : Owes(v) /\ requests[v].payment = requests[w].payment => v = w

\* The inductive invariant.
TrailInv ==
  /\ IInv
  /\ \A p \in Ids : Told(p)
  /\ \A w \in Workers : OwedOK(w)

LEMMA InitTrailInv == Init => TrailInv
<1> SUFFICES ASSUME Init PROVE TrailInv
  OBVIOUS
<1>1. \A p \in Ids : Told(p)
  BY DEF Init, Told
<1>2. \A w \in Workers : OwedOK(w)
  BY DEF Init, OwedOK, Owes, Idle
<1> QED BY <1>1, <1>2, InitIInv DEF TrailInv

----------------------------------------------------------------------------
(* What is told of a payment stays true.                                   *)

\* Nothing happens to p.
LEMMA ToldStays ==
  ASSUME NEW p \in Ids, Told(p), trail'[p] = trail[p], notices'[p] = notices[p],
         alarms \subseteq alarms', p \in Recorded' <=> p \in Recorded,
         p \in Recorded => payments'[p] = payments[p]
  PROVE  Told(p)'
<1>1. CASE p \notin Recorded
  BY <1>1 DEF Told
<1>2. CASE p \in Recorded
  <2>1. \A i \in 1 .. Len(trail[p]) : EntryTrue(p, trail[p][i])'
    BY <1>2 DEF Told, EntryTrue, IsTerminal, Decider
  <2>2. ToldOnce(p)' /\ AccountedFor(p)' /\ NoticeOK(p)'
    BY <1>2 DEF Told, ToldOnce, AccountedFor, NoticeOK, IsTerminal
  <2> QED BY <1>2, <2>1, <2>2 DEF Told
<1> QED BY <1>1, <1>2

\* The rows, the trail and the notices stay as they are, and no request comes
\* to owe an audit row.
LEMMA RequestsOnly ==
  ASSUME TrailInv, IInv', UNCHANGED <<payments, trail, alarms, notices>>,
         \A w \in Workers : Owes(w)' => Owes(w) /\ requests'[w] = requests[w]
  PROVE  TrailInv'
<1>1. ASSUME NEW p \in Ids PROVE Told(p)'
  BY ToldStays DEF TrailInv
<1>2. ASSUME NEW w \in Workers PROVE OwedOK(w)'
  <2>1. OwedOK(w)
    BY DEF TrailInv
  <2> QED BY <2>1 DEF OwedOK
<1> QED BY <1>1, <1>2 DEF TrailInv

\* What audit.record appends.
LEMMA Appended ==
  ASSUME TypeOK, NEW p \in Ids, NEW entry,
         trail' = [trail EXCEPT ![p] = Append(@, entry)]
  PROVE  /\ Len(trail[p]) \in Nat /\ Len(trail'[p]) = Len(trail[p]) + 1
         /\ \A i \in 1 .. Len(trail[p]) : trail'[p][i] = trail[p][i]
         /\ trail'[p][Len(trail[p]) + 1] = entry
         /\ \A q \in Ids \ {p} : trail'[q] = trail[q]
<1>1. trail[p] \in Seq(Entry) /\ trail'[p] = Append(trail[p], entry)
  BY DEF TypeOK
<1> QED BY <1>1 DEF TypeOK

\* An entry of the other kind than those there are keeps each kind single.
LEMMA StillOnce ==
  ASSUME TypeOK, NEW p \in Ids, NEW entry \in Entry, ToldOnce(p),
         trail' = [trail EXCEPT ![p] = Append(@, entry)],
         \A i \in 1 .. Len(trail[p]) :
            ~(trail[p][i].action \in DecisionActions <=> entry.action \in DecisionActions)
  PROVE  ToldOnce(p)'
<1>1. /\ Len(trail[p]) \in Nat /\ Len(trail'[p]) = Len(trail[p]) + 1
      /\ \A i \in 1 .. Len(trail[p]) : trail'[p][i] = trail[p][i]
      /\ trail'[p][Len(trail[p]) + 1] = entry
  BY Appended
<1>2. SUFFICES ASSUME NEW i \in 1 .. Len(trail'[p]), NEW j \in 1 .. Len(trail'[p]),
                      trail'[p][i].action \in DecisionActions <=> trail'[p][j].action \in DecisionActions
               PROVE  i = j
  BY DEF ToldOnce
<1>3. /\ i \in 1 .. Len(trail[p]) \/ i = Len(trail[p]) + 1
      /\ j \in 1 .. Len(trail[p]) \/ j = Len(trail[p]) + 1
  BY <1>1, <1>2
<1>4. CASE i \in 1 .. Len(trail[p]) /\ j \in 1 .. Len(trail[p])
  BY <1>1, <1>2, <1>4 DEF ToldOnce
<1>5. CASE i = Len(trail[p]) + 1 /\ j \in 1 .. Len(trail[p])
  BY <1>1, <1>2, <1>5
<1>6. CASE i \in 1 .. Len(trail[p]) /\ j = Len(trail[p]) + 1
  BY <1>1, <1>2, <1>6
<1> QED BY <1>3, <1>4, <1>5, <1>6

----------------------------------------------------------------------------
(* Recording.                                                              *)

\* The new row has no trail yet, and its request owes the first entry.
LEMMA InsertTold ==
  ASSUME TrailInv, IInv', NEW w \in Workers, InsertPayment(w)
  PROVE  TrailInv'
<1> DEFINE r == requests[w]
<1>1. PICK p : p = requests[w].payment
  OBVIOUS
<1>2. requests[w] \in Request /\ requests[w].step = "numbered" /\ p \notin Recorded
  BY <1>1 DEF TrailInv, IInv, TypeOK, InsertPayment
<1>3. p \in Ids
  BY <1>1, <1>2, PaymentsAssumption DEF TrailInv, IInv, TypeOK, RequestOK
<1>4. /\ Recorded' = Recorded \cup {p}
      /\ payments'[p] = NewRow(r.enrollment, r.amount_minor, r.actor)
      /\ \A q \in Recorded : payments'[q] = payments[q]
      /\ UNCHANGED <<trail, alarms, notices>>
  BY <1>1, <1>2 DEF InsertPayment
<1>5. /\ requests' = [requests EXCEPT ![w].step = "saved"]
      /\ requests \in [Workers -> Request]
  BY DEF InsertPayment, TrailInv, IInv, TypeOK
<1>6. /\ requests'[w].step = "saved" /\ requests'[w].payment = p
      /\ requests'[w].actor = requests[w].actor
      /\ \A v \in Workers \ {w} : requests'[v] = requests[v]
  BY <1>1, <1>2, <1>5 DEF Request
<1>7. trail[p] = <<>> /\ notices[p] = <<>>
  BY <1>2, <1>3 DEF TrailInv, Told
<1>8. ASSUME NEW q \in Ids PROVE Told(q)'
  <2>1. CASE q = p
    <3>1. payments'[p].status = "PENDING"
      BY <1>4 DEF NewRow
    <3>2. AccountedFor(p)' /\ NoticeOK(p)' /\ ToldOnce(p)'
      BY <3>1, <1>4, <1>7 DEF AccountedFor, IsTerminal, TERMINAL_STATUSES, NoticeOK, ToldOnce
    <3> QED BY <2>1, <3>2, <1>4, <1>7 DEF Told
  <2>2. CASE q # p
    BY <2>2, <1>4, ToldStays DEF TrailInv
  <2> QED BY <2>1, <2>2
\* No other request owes an entry for p: it would have inserted p.
<1>9. \A v \in Workers \ {w} : Owes(v) => requests[v].payment # p /\ requests[v].payment \in Recorded
  BY <1>1, <1>2 DEF TrailInv, IInv, NumbersAreFresh, RequestOK, Owes
<1>10. ASSUME NEW v \in Workers PROVE OwedOK(v)'
  <2>1. CASE v = w
    <3>1. payments'[p].created_by = requests[w].actor
      BY <1>4 DEF NewRow
    <3> QED BY <2>1, <3>1, <1>4, <1>6, <1>7, <1>9 DEF OwedOK, Owes
  <2>2. CASE v # w
    <3>1. OwedOK(v)
      BY DEF TrailInv
    <3> QED BY <2>2, <3>1, <1>4, <1>6, <1>9 DEF OwedOK, Owes
  <2> QED BY <2>1, <2>2
<1> QED BY <1>8, <1>10 DEF TrailInv

\* The entry owed is written, or the alarm is raised: either way the request
\* owes nothing more.
LEMMA AuditCreateTold ==
  ASSUME TrailInv, IInv', NEW w \in Workers, AuditCreate(w)
  PROVE  TrailInv'
<1>1. PICK p : p = requests[w].payment
  OBVIOUS
<1>2. PICK u : u = requests[w].actor
  OBVIOUS
<1> DEFINE entry == [action |-> "PAYMENT_CREATED", actor |-> u]
<1>3. /\ Owes(w) /\ OwedOK(w) /\ RequestOK(w)
      /\ Record(p, "PAYMENT_CREATED", u) /\ Finish(w)
      /\ UNCHANGED <<payments, notices>>
  BY <1>1, <1>2 DEF AuditCreate, TrailInv, IInv, Owes
<1>4. /\ p \in Recorded /\ p \in Ids /\ u \in Users /\ Told(p)
      /\ u = payments[p].created_by
      /\ \A i \in 1 .. Len(trail[p]) : trail[p][i].action # "PAYMENT_CREATED"
      /\ \A v \in Workers \ {w} : Owes(v) => requests[v].payment # p
  BY <1>1, <1>2, <1>3 DEF OwedOK, RequestOK, Owes, Drafts, TrailInv, IInv, TypeOK
<1>5. /\ requests'[w] = Idle
      /\ \A v \in Workers \ {w} : requests'[v] = requests[v]
  BY <1>3, FinishOK DEF TrailInv, IInv
<1>6. entry \in Entry /\ entry.action \notin DecisionActions
  BY <1>4 DEF Entry, AuditActions, DecisionActions
<1>7. /\ \A q \in Ids \ {p} : trail'[q] = trail[q]
      /\ alarms \subseteq alarms'
  BY <1>3, <1>4, Appended DEF Record, TrailInv, IInv
<1>8. Told(p)'
  <2>1. CASE UNCHANGED trail
    BY <2>1, <1>3, <1>4, <1>7, ToldStays
  <2>2. CASE trail' = [trail EXCEPT ![p] = Append(@, entry)]
    <3>1. /\ Len(trail[p]) \in Nat /\ Len(trail'[p]) = Len(trail[p]) + 1
          /\ \A i \in 1 .. Len(trail[p]) : trail'[p][i] = trail[p][i]
          /\ trail'[p][Len(trail[p]) + 1] = entry
      <4>1. TypeOK
        BY DEF TrailInv, IInv
      <4> HIDE DEF entry
      <4> QED BY <2>2, <1>4, <4>1, Appended
    <3>2. \A i \in 1 .. Len(trail[p]) : trail[p][i] \in Entry
      BY <1>4 DEF TrailInv, IInv, TypeOK
    <3>3. \A i \in 1 .. Len(trail[p]) : trail[p][i].action \in DecisionActions
      BY <3>2, <1>4 DEF Entry, AuditActions
    <3>4. ToldOnce(p)'
      BY <2>2, <3>3, <1>4, <1>6, StillOnce DEF Told, TrailInv, IInv
    <3>5. ASSUME NEW i \in 1 .. Len(trail'[p]) PROVE EntryTrue(p, trail[p][i])'
      <4>1. CASE i \in 1 .. Len(trail[p])
        <5>1. EntryTrue(p, trail[p][i])
          BY <4>1, <1>4 DEF Told
        <5> QED BY <5>1, <4>1, <3>1, <1>3 DEF EntryTrue, IsTerminal, Decider
      <4>2. CASE i = Len(trail[p]) + 1
        BY <4>2, <3>1, <1>3, <1>4, <1>6 DEF EntryTrue
      <4> QED BY <4>1, <4>2, <3>1
    <3>6. AccountedFor(p)' /\ NoticeOK(p)'
      BY <3>1, <1>3, <1>4, <1>7 DEF Told, AccountedFor, NoticeOK, IsTerminal
    <3> QED BY <3>4, <3>5, <3>6, <1>3, <1>4 DEF Told
  <2> QED BY <2>1, <2>2, <1>3 DEF Record
<1>9. ASSUME NEW q \in Ids PROVE Told(q)'
  <2>1. CASE q = p
    BY <2>1, <1>8
  <2>2. CASE q # p
    BY <2>2, <1>3, <1>7, ToldStays DEF TrailInv
  <2> QED BY <2>1, <2>2
<1>10. ASSUME NEW v \in Workers PROVE OwedOK(v)'
  <2>1. CASE v = w
    BY <2>1, <1>5 DEF OwedOK, Owes, Idle
  <2>2. CASE v # w
    <3>1. OwedOK(v) /\ RequestOK(v)
      BY DEF TrailInv, IInv
    <3>2. Owes(v) => requests[v].payment \in Ids \ {p}
      BY <3>1, <2>2, <1>4 DEF RequestOK, Owes, TrailInv, IInv, TypeOK
    <3> QED BY <2>2, <3>1, <3>2, <1>3, <1>5, <1>7 DEF OwedOK, Owes, Idle
  <2> QED BY <2>1, <2>2
<1> QED BY <1>9, <1>10 DEF TrailInv
----------------------------------------------------------------------------
(* Deciding.                                                               *)

\* One decision of a PENDING row: the row names who made it, the trail gains
\* the entry or the alarm is raised, and the student is told nothing but it.
LEMMA DecisionTold ==
  ASSUME TrailInv, IInv', NEW w \in Workers, NEW p \in Recorded, NEW u \in Users,
         NEW action \in DecisionActions,
         payments[p].status = "PENDING", requests[w].step \in Decisions,
         Recorded' = Recorded, \A q \in Recorded \ {p} : payments'[q] = payments[q],
         payments'[p].created_by = payments[p].created_by,
         payments'[p].status \in TERMINAL_STATUSES,
         Verdict[payments'[p].status] = action, Decider(p)' = u,
         Record(p, action, u), Finish(w),
         \/ UNCHANGED notices
         \/ /\ payments'[p].status \in {"APPROVED", "REJECTED"}
            /\ notices' = [notices EXCEPT ![p] = Append(@, action)]
  PROVE  TrailInv'
<1> DEFINE entry == [action |-> action, actor |-> u]
<1>1. TypeOK /\ p \in Ids /\ Told(p)
  BY DEF TrailInv, IInv, TypeOK
<1>2. entry \in Entry /\ entry.action \in DecisionActions /\ action # "PAYMENT_CREATED"
  BY DEF Entry, AuditActions, DecisionActions
<1>3. /\ requests'[w] = Idle
      /\ \A v \in Workers \ {w} : requests'[v] = requests[v]
  BY <1>1, FinishOK
<1>4. /\ \A q \in Ids \ {p} : trail'[q] = trail[q]
      /\ alarms \subseteq alarms'
  BY <1>1, Appended DEF Record
\* Nothing was decided before, and nothing announced.
<1>5. /\ \A i \in 1 .. Len(trail[p]) :
            trail[p][i].action \notin DecisionActions /\ EntryTrue(p, trail[p][i])
      /\ ToldOnce(p) /\ notices[p] = <<>>
  BY <1>1 DEF Told, EntryTrue, IsTerminal, TERMINAL_STATUSES, NoticeOK
<1>6. NoticeOK(p)' /\ \A q \in Ids \ {p} : notices'[q] = notices[q]
  <2>1. CASE UNCHANGED notices
    BY <2>1, <1>5 DEF NoticeOK
  <2>2. CASE /\ payments'[p].status \in {"APPROVED", "REJECTED"}
             /\ notices' = [notices EXCEPT ![p] = Append(@, action)]
    <3>1. notices'[p] = <<action>> /\ \A q \in Ids \ {p} : notices'[q] = notices[q]
      <4>1. notices'[p] = Append(<<>>, action)
        BY <2>2, <1>1, <1>5 DEF TypeOK
      <4> QED BY <4>1, <2>2, <1>1 DEF TypeOK
    <3> QED BY <3>1, <2>2 DEF NoticeOK
  <2> QED BY <2>1, <2>2
<1>7. Told(p)'
  <2>1. CASE UNCHANGED trail /\ alarms' = alarms \cup {<<p, action>>}
    <3>1. \A i \in 1 .. Len(trail'[p]) : EntryTrue(p, trail[p][i])'
      BY <2>1, <1>5 DEF EntryTrue
    <3>2. ToldOnce(p)' /\ AccountedFor(p)'
      BY <2>1, <1>5 DEF ToldOnce, AccountedFor
    <3> QED BY <3>1, <3>2, <1>6 DEF Told
  <2>2. CASE trail' = [trail EXCEPT ![p] = Append(@, entry)]
    <3>1. /\ Len(trail[p]) \in Nat /\ Len(trail'[p]) = Len(trail[p]) + 1
          /\ \A i \in 1 .. Len(trail[p]) : trail'[p][i] = trail[p][i]
          /\ trail'[p][Len(trail[p]) + 1] = entry
      <4> HIDE DEF entry
      <4> QED BY <2>2, <1>1, Appended
    <3>2. ToldOnce(p)'
      BY <2>2, <1>1, <1>2, <1>5, StillOnce
    <3>3. ASSUME NEW i \in 1 .. Len(trail'[p]) PROVE EntryTrue(p, trail[p][i])'
      <4>1. CASE i \in 1 .. Len(trail[p])
        BY <4>1, <3>1, <1>5 DEF EntryTrue
      <4>2. CASE i = Len(trail[p]) + 1
        BY <4>2, <3>1, <1>2 DEF EntryTrue, IsTerminal
      <4> QED BY <4>1, <4>2, <3>1
    <3>4. AccountedFor(p)'
      <4>1. Len(trail[p]) + 1 \in 1 .. Len(trail'[p])
        BY <3>1
      <4> QED BY <4>1, <3>1 DEF AccountedFor
    <3> QED BY <3>2, <3>3, <3>4, <1>6 DEF Told
  <2> QED BY <2>1, <2>2 DEF Record
<1>8. ASSUME NEW q \in Ids PROVE Told(q)'
  <2>1. CASE q = p
    BY <2>1, <1>7
  <2>2. CASE q # p
    BY <2>2, <1>4, <1>6, ToldStays DEF TrailInv
  <2> QED BY <2>1, <2>2
<1>9. ASSUME NEW v \in Workers PROVE OwedOK(v)'
  <2>1. CASE v = w
    BY <2>1, <1>3 DEF OwedOK, Owes, Idle
  <2>2. CASE v # w
    <3>1. OwedOK(v) /\ RequestOK(v) /\ ~Owes(w)
      BY DEF TrailInv, IInv, Owes, Decisions
    <3>2. PICK q : q = requests[v].payment
      OBVIOUS
    <3>3. ASSUME Owes(v) PROVE q \in Recorded /\ payments'[q].created_by = payments[q].created_by
      BY <3>1, <3>2, <3>3 DEF RequestOK, Owes
    <3>4. ASSUME Owes(v), NEW i \in 1 .. Len(trail'[q]) PROVE trail'[q][i].action # "PAYMENT_CREATED"
      <4>1. \A j \in 1 .. Len(trail[q]) : trail[q][j].action # "PAYMENT_CREATED"
        BY <3>1, <3>2, <3>4 DEF OwedOK
      <4>2. CASE trail'[q] = trail[q]
        BY <4>1, <4>2
      <4>3. CASE trail'[q] # trail[q]
        <5>1. q = p /\ trail' = [trail EXCEPT ![p] = Append(@, entry)]
          <6>1. q \in Ids
            BY <3>3, <3>4 DEF TrailInv, IInv, TypeOK
          <6> QED BY <6>1, <4>3, <1>4 DEF Record
        <5>2. /\ Len(trail[p]) \in Nat /\ Len(trail'[p]) = Len(trail[p]) + 1
              /\ \A j \in 1 .. Len(trail[p]) : trail'[p][j] = trail[p][j]
              /\ trail'[p][Len(trail[p]) + 1] = entry
          BY <5>1, <1>1, Appended
        <5>3. i \in 1 .. Len(trail[p]) \/ i = Len(trail[p]) + 1
          BY <5>1, <5>2, <3>4
        <5> QED BY <5>1, <5>2, <5>3, <4>1, <1>2
      <4> QED BY <4>2, <4>3
    <3>5. requests'[v] = requests[v] /\ \A x \in Workers : Owes(x)' => Owes(x) /\ requests'[x] = requests[x]
      BY <2>2, <1>3 DEF Owes, Idle
    <3> QED BY <3>1, <3>2, <3>3, <3>4, <3>5 DEF OwedOK, Owes
  <2> QED BY <2>1, <2>2
<1> QED BY <1>8, <1>9 DEF TrailInv

LEMMA DecideTold ==
  ASSUME TrailInv, IInv', NEW w \in Workers, Approve(w) \/ Reject(w) \/ Cancel(w)
  PROVE  TrailInv'
<1>1. PICK p : p = requests[w].payment
  OBVIOUS
<1>2. PICK u : u = requests[w].actor
  OBVIOUS
<1>3. /\ p \in Recorded /\ Recorded' = Recorded /\ payments[p].status = "PENDING"
      /\ \A q \in Recorded \ {p} : payments'[q] = payments[q]
      /\ payments'[p].created_by = payments[p].created_by
  BY <1>1, DecisionWrites DEF TrailInv
<1>4. u \in Users /\ requests[w].step \in Decisions /\ payments[p] \in Row /\ RequestOK(w)
  BY <1>2, <1>3 DEF Approve, Reject, Cancel, TrailInv, IInv, TypeOK, RequestOK, Decisions
<1>5. CASE Approve(w)
  <2>1. payments' = [payments EXCEPT ![p].status = "APPROVED", ![p].approved_by = u]
    BY <1>1, <1>2, <1>5 DEF Approve
  <2>2. payments'[p].status = "APPROVED" /\ payments'[p].approved_by = u
    BY <2>1, <1>3, <1>4 DEF Row, TrailInv, IInv, TypeOK
  <2>3. Decider(p)' = u /\ Verdict[payments'[p].status] = "PAYMENT_APPROVED"
    BY <2>2 DEF Decider, Verdict
  <2>4. /\ Record(p, "PAYMENT_APPROVED", u) /\ Finish(w)
        /\ \/ UNCHANGED notices
           \/ notices' = [notices EXCEPT ![p] = Append(@, "PAYMENT_APPROVED")]
    BY <1>1, <1>2, <1>5 DEF Approve, Notify, ApprovalNotice
  <2> QED BY <2>2, <2>3, <2>4, <1>3, <1>4, DecisionTold DEF DecisionActions, TERMINAL_STATUSES
<1>6. CASE Reject(w)
  <2>1. payments' = [payments EXCEPT ![p].status = "REJECTED", ![p].rejected_by = u]
    BY <1>1, <1>2, <1>6 DEF Reject
  <2>2. payments'[p].status = "REJECTED" /\ payments'[p].rejected_by = u
    BY <2>1, <1>3, <1>4 DEF Row, TrailInv, IInv, TypeOK
  <2>3. Decider(p)' = u /\ Verdict[payments'[p].status] = "PAYMENT_REJECTED"
    BY <2>2 DEF Decider, Verdict
  <2>4. /\ Record(p, "PAYMENT_REJECTED", u) /\ Finish(w)
        /\ \/ UNCHANGED notices
           \/ notices' = [notices EXCEPT ![p] = Append(@, "PAYMENT_REJECTED")]
    BY <1>1, <1>2, <1>6 DEF Reject, Notify, RejectionNotice
  <2> QED BY <2>2, <2>3, <2>4, <1>3, <1>4, DecisionTold DEF DecisionActions, TERMINAL_STATUSES
<1>7. CASE Cancel(w)
  <2>1. payments' = [payments EXCEPT ![p].status = "CANCELLED", ![p].cancelled_by = u]
    BY <1>1, <1>2, <1>7 DEF Cancel
  <2>2. payments'[p].status = "CANCELLED" /\ payments'[p].cancelled_by = u
    BY <2>1, <1>3, <1>4 DEF Row, TrailInv, IInv, TypeOK
  <2>3. Decider(p)' = u /\ Verdict[payments'[p].status] = "PAYMENT_CANCELLED"
    BY <2>2 DEF Decider, Verdict
  <2>4. Record(p, "PAYMENT_CANCELLED", u) /\ Finish(w) /\ UNCHANGED notices
    BY <1>1, <1>2, <1>7 DEF Cancel
  <2> QED BY <2>2, <2>3, <2>4, <1>3, <1>4, DecisionTold DEF DecisionActions, TERMINAL_STATUSES
<1> QED BY <1>5, <1>6, <1>7
----------------------------------------------------------------------------
(* Every step.                                                             *)

LEMMA NextTrailInv == TrailInv /\ [Next]_vars => TrailInv'
<1> SUFFICES ASSUME TrailInv, [Next]_vars PROVE TrailInv'
  OBVIOUS
<1>1. IInv'
  BY NextIInv DEF TrailInv
<1>2. \A w \in Workers : requests[w] \in Request
  BY DEF TrailInv, IInv, TypeOK
<1>3. CASE \E w \in Workers, u \in Users, e \in Enrollments, a \in Amounts :
              StartCreate(w, u, e, a)
  <2>1. PICK w \in Workers, u \in Users, e \in Enrollments, a \in Amounts : StartCreate(w, u, e, a)
    BY <1>3
  <2>2. \A v \in Workers : Owes(v)' => Owes(v) /\ requests'[v] = requests[v]
    BY <2>1, <1>2 DEF StartCreate, Owes, TrailInv, IInv, TypeOK
  <2> QED BY <2>1, <2>2, <1>1, RequestsOnly DEF StartCreate
<1>4. CASE \E w \in Workers : AllocateNumber(w)
  <2>1. PICK w \in Workers : AllocateNumber(w)
    BY <1>4
  <2>2. \A v \in Workers : Owes(v)' => Owes(v) /\ requests'[v] = requests[v]
    BY <2>1, <1>2 DEF AllocateNumber, Owes, TrailInv, IInv, TypeOK, Request
  <2> QED BY <2>1, <2>2, <1>1, RequestsOnly DEF AllocateNumber
<1>5. CASE \E w \in Workers : InsertPayment(w)
  BY <1>1, <1>5, InsertTold
<1>6. CASE \E w \in Workers : AuditCreate(w)
  BY <1>1, <1>6, AuditCreateTold
<1>7. CASE \E w \in Workers, u \in Users, p \in Recorded, d \in Decisions : Load(w, u, p, d)
  <2>1. PICK w \in Workers, u \in Users, p \in Recorded, d \in Decisions : Load(w, u, p, d)
    BY <1>7
  <2>2. \A v \in Workers : Owes(v)' => Owes(v) /\ requests'[v] = requests[v]
    BY <2>1, <1>2 DEF Load, Owes, Decisions, TrailInv, IInv, TypeOK
  <2> QED BY <2>1, <2>2, <1>1, RequestsOnly DEF Load
<1>8. CASE \E w \in Workers : Approve(w) \/ Reject(w) \/ Cancel(w)
  BY <1>1, <1>8, DecideTold
<1>9. CASE \E w \in Workers : Refused(w) \/ Crash(w)
  <2>1. PICK w \in Workers : Refused(w) \/ Crash(w)
    BY <1>9
  <2>2. \A v \in Workers : Owes(v)' => Owes(v) /\ requests'[v] = requests[v]
    BY <2>1, FinishOK DEF Refused, Crash, Owes, Idle, TrailInv, IInv
  <2> QED BY <2>1, <2>2, <1>1, RequestsOnly DEF Refused, Crash
<1>10. CASE \E e \in Enrollments : SetEnrollmentStatus(e)
  BY <1>1, <1>10, RequestsOnly DEF SetEnrollmentStatus, Owes
<1>11. CASE UNCHANGED vars
  BY <1>1, <1>11, RequestsOnly DEF vars, Owes
<1> QED
  BY <1>3, <1>4, <1>5, <1>6, <1>7, <1>8, <1>9, <1>10, <1>11 DEF Next

LEMMA TrailInvHolds == Spec => []TrailInv
BY InitTrailInv, NextTrailInv, PTL DEF Spec

\* A set whose members are all equal has one at most.
LEMMA AtMostOne ==
  ASSUME NEW S, \A i, j \in S : i = j
  PROVE  Cardinality(S) <= 1
<1>1. CASE S = {}
  <2>1. Cardinality(S) = 0
    BY <1>1, FS_EmptySet
  <2> QED BY <2>1
<1>2. CASE S # {}
  <2>1. PICK i \in S : TRUE
    BY <1>2
  <2>2. S = {i}
    BY <2>1
  <2>3. Cardinality(S) = 1
    BY <2>2, FS_Singleton, Zenon
  <2> QED BY <2>3
<1> QED BY <1>1, <1>2

\* The audit trail of a payment tells what happened to it, and no more, however
\* two deciders and a crash interleave.
THEOREM PaymentsTrailTellsTheTruth == Spec => []TrailTellsTheTruth
<1>1. TrailInv => TrailTellsTheTruth
  <2> SUFFICES ASSUME TrailInv, NEW p \in Ids
               PROVE  /\ Cardinality(Entries(p, DecisionActions)) <= 1
                      /\ Cardinality(Entries(p, {"PAYMENT_CREATED"})) <= 1
                      /\ trail[p] # <<>> => p \in Recorded
                      /\ \A i \in Entries(p, DecisionActions) :
                            /\ IsTerminal(p)
                            /\ trail[p][i] = [action |-> Verdict[payments[p].status],
                                              actor |-> Decider(p)]
                      /\ \A i \in Entries(p, {"PAYMENT_CREATED"}) :
                            trail[p][i].actor = payments[p].created_by
    BY DEF TrailTellsTheTruth
  <2>1. CASE p \notin Recorded
    <3>1. trail[p] = <<>>
      BY <2>1 DEF TrailInv, Told
    <3>2. Entries(p, DecisionActions) = {} /\ Entries(p, {"PAYMENT_CREATED"}) = {}
      BY <3>1 DEF Entries
    <3> QED BY <3>1, <3>2, AtMostOne
  <2>2. CASE p \in Recorded
    <3>1. ToldOnce(p) /\ \A i \in 1 .. Len(trail[p]) : EntryTrue(p, trail[p][i])
      BY <2>2 DEF TrailInv, Told
    <3>2. /\ \A i, j \in Entries(p, DecisionActions) : i = j
          /\ \A i, j \in Entries(p, {"PAYMENT_CREATED"}) : i = j
      BY <3>1 DEF Entries, ToldOnce, DecisionActions
    <3>3. /\ Cardinality(Entries(p, DecisionActions)) <= 1
          /\ Cardinality(Entries(p, {"PAYMENT_CREATED"})) <= 1
      BY <3>2, AtMostOne
    <3> QED BY <3>1, <3>3, <2>2 DEF Entries, EntryTrue
  <2> QED BY <2>1, <2>2
<1> QED BY <1>1, TrailInvHolds, PTL

\* No crash separates a decision from the record of it.
THEOREM PaymentsDecisionsAreAccountedFor == Spec => []DecisionsAreAccountedFor
<1>1. TrailInv => DecisionsAreAccountedFor
  <2> SUFFICES ASSUME TrailInv, NEW p \in Recorded, IsTerminal(p)
               PROVE  \/ Entries(p, {Verdict[payments[p].status]}) # {}
                      \/ <<p, Verdict[payments[p].status]>> \in alarms
    BY DEF DecisionsAreAccountedFor
  <2>1. p \in Ids
    BY DEF TrailInv, IInv, TypeOK
  <2>2. AccountedFor(p)
    BY <2>1 DEF TrailInv, Told
  <2> QED BY <2>2 DEF AccountedFor, Entries
<1> QED BY <1>1, TrailInvHolds, PTL

\* The student hears once, and hears what was decided.
THEOREM PaymentsNoticeMatchesVerdict == Spec => []NoticeMatchesVerdict
<1>1. TrailInv => NoticeMatchesVerdict
  BY DEF TrailInv, Told, NoticeOK, NoticeMatchesVerdict
<1> QED BY <1>1, TrailInvHolds, PTL
================================================================================
