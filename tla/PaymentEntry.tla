------------------------------ MODULE PaymentEntry -----------------------------
(***************************************************************************)
(* The form a payment is recorded with (PaymentForm.tsx), between the      *)
(* person who fills it in and a backend whose answers arrive in any order  *)
(* or not at all.                                                          *)
(*                                                                         *)
(* Each choice of an enrolment starts an effect that asks for its balance; *)
(* the next choice cleans that effect up, which only marks its request so  *)
(* that its answer is ignored.  Submitting is a second, independent call.  *)
(* A balance is identified by the number of the request that brought it:   *)
(* the later one was asked later.                                          *)
(***************************************************************************)
EXTENDS Integers

CONSTANTS Enrolments,
          MaxAsks,     \* bound: choices made
          MaxPresses,  \* bound: presses of the button
          Nothing      \* no enrolment, no balance

ASSUME EntryAssumption ==
  /\ MaxAsks \in Nat /\ MaxPresses \in Nat
  /\ Nothing \notin Enrolments \cup [n : 1 .. MaxAsks, id : Enrolments]

VARIABLES
  enrollmentId, \* the choice
  asks,         \* balance requests that are out: [n, id, live]
  fetched,      \* the balance held: [n, id], or Nothing
  busy,         \* the button is disabled
  sending,      \* how the payment stands: "no", "out", "recorded", "refused"
  left,         \* the page has been left for the payment's own
  asked, newest,         \* history: requests made; the last one's answer arrived
  presses, entries, lost \* history: presses, payments recorded, answers lost

entryVars == <<enrollmentId, asks, fetched, busy, sending, left, asked, newest,
               presses, entries, lost>>
balanceVars == <<enrollmentId, asks, fetched, asked, newest>>
paymentVars == <<busy, sending, left, presses, entries, lost>>

EntryInit ==
  /\ enrollmentId = Nothing /\ asks = {} /\ fetched = Nothing /\ asked = 0 /\ newest = FALSE
  /\ busy = FALSE /\ sending = "no" /\ left = FALSE
  /\ presses = 0 /\ entries = 0 /\ lost = 0

\* The effect's cleanup: live = false in every request made before.
Unmark == {[a EXCEPT !.live = FALSE] : a \in asks}

ChooseEnrolment(e) ==
  /\ ~left /\ asked < MaxAsks /\ e # enrollmentId
  /\ enrollmentId' = e
  /\ asks' = Unmark \cup {[n |-> asked + 1, id |-> e, live |-> TRUE]}
  /\ asked' = asked + 1 /\ newest' = FALSE
  /\ UNCHANGED <<fetched, paymentVars>>

Whatever(a) == TRUE  \* faulty: .then() without the cleanup
Heeded(a) == a.live

BalanceArrives(a) ==
  /\ ~left
  /\ asks' = asks \ {a}
  /\ fetched' = IF Heeded(a) THEN [n |-> a.n, id |-> a.id] ELSE fetched
  /\ newest' = (newest \/ a.n = asked)
  /\ UNCHANGED <<enrollmentId, asked, paymentVars>>
BalanceFails(a) ==
  /\ ~left
  /\ asks' = asks \ {a}
  /\ UNCHANGED <<enrollmentId, fetched, asked, newest, paymentVars>>

Balance == IF fetched # Nothing /\ fetched.id = enrollmentId THEN fetched ELSE Nothing

\* The button is disabled while busy and until an enrolment is chosen.
Submit ==
  /\ ~left /\ ~busy /\ enrollmentId # Nothing /\ presses < MaxPresses
  /\ busy' = TRUE /\ sending' = "out" /\ presses' = presses + 1
  /\ UNCHANGED <<left, entries, lost, balanceVars>>

PaymentRecorded ==
  /\ sending = "out" /\ sending' = "recorded" /\ entries' = entries + 1
  /\ UNCHANGED <<busy, left, presses, lost, balanceVars>>
PaymentRefused ==
  /\ sending = "out" /\ sending' = "refused"
  /\ UNCHANGED <<busy, left, presses, entries, lost, balanceVars>>

\* setBusy(false) is in the catch and not in a finally: once recorded, the
\* button stays disabled while the router goes on to the payment.
Reenabled == FALSE  \* faulty: setBusy(false) in a finally
StaysDisabled == TRUE
Succeed ==
  /\ sending = "recorded"
  /\ sending' = "no" /\ busy' = StaysDisabled
  /\ UNCHANGED <<left, presses, entries, lost, balanceVars>>
\* A call given up while it is out may still be carried out afterwards, which
\* is PaymentRecorded before it.
Fail ==
  /\ \/ sending = "refused" /\ UNCHANGED lost
     \/ sending \in {"out", "recorded"} /\ lost' = lost + 1
  /\ sending' = "no" /\ busy' = FALSE
  /\ UNCHANGED <<left, presses, entries, balanceVars>>
Leave ==
  /\ ~left /\ sending = "no" /\ entries > 0 /\ left' = TRUE
  /\ UNCHANGED <<busy, sending, presses, entries, lost, balanceVars>>

EntryNext ==
  \/ \E e \in Enrolments : ChooseEnrolment(e)
  \/ \E a \in asks : BalanceArrives(a) \/ BalanceFails(a)
  \/ Submit \/ PaymentRecorded \/ PaymentRefused \/ Succeed \/ Fail \/ Leave

EntrySpec == EntryInit /\ [][EntryNext]_entryVars

----------------------------------------------------------------------------

\* Once the balance asked for last has arrived it is the one on show, whatever
\* arrives after it: no answer about an earlier choice displaces it, and no
\* older answer about the same one.
NewestBalanceStands == newest => Balance = [n |-> asked, id |-> enrollmentId]

\* However often the button is pressed, the form records one payment, unless
\* an answer was lost: then nothing tells a second press from a first.
TwiceOnlyAfterALostAnswer == entries <= 1 + lost
================================================================================
