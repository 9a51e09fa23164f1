----------------------------- MODULE PlaceRegister -----------------------------
(***************************************************************************)
(* What the enrolments component promises, with every mechanism removed:   *)
(* no requests, no copies of rows, no check that is made too early.  A     *)
(* contract is concluded once, by one student for one course at one price, *)
(* and stands for ever; all that may change is whether it is live, and a   *)
(* student has at most one live contract on a course.                      *)
(*                                                                         *)
(* Enrollment.tla is shown to implement this module.                       *)
(***************************************************************************)
EXTENDS Sequences

CONSTANTS Students, Courses, Prices

VARIABLE contracts  \* in the order they were concluded

Contract == [student : Students, course : Courses, price : Prices, live : BOOLEAN]

HasPlace(s, c) ==
  \E k \in DOMAIN contracts :
     contracts[k].student = s /\ contracts[k].course = c /\ contracts[k].live

RegisterInit == contracts = <<>>

Conclude(s, c, price) ==
  /\ ~HasPlace(s, c)
  /\ contracts' = Append(contracts, [student |-> s, course |-> c, price |-> price, live |-> TRUE])

Withdraw(k) ==
  /\ contracts[k].live
  /\ contracts' = [contracts EXCEPT ![k].live = FALSE]

\* At the price it was concluded at.
TakeUp(k) ==
  /\ ~HasPlace(contracts[k].student, contracts[k].course)
  /\ contracts' = [contracts EXCEPT ![k].live = TRUE]

RegisterNext ==
  \/ \E s \in Students, c \in Courses, price \in Prices : Conclude(s, c, price)
  \/ \E k \in DOMAIN contracts : Withdraw(k) \/ TakeUp(k)

RegisterSpec == RegisterInit /\ [][RegisterNext]_contracts
================================================================================
