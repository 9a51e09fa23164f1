------------------------------ MODULE MCPayments -------------------------------
(* One enrolment, a desk that records, an administrator who records and      *)
(* decides, two payments, two requests in flight.                            *)
EXTENDS Payments, TLC

CONSTANTS desk, admin, e1, w1, w2

MCUsers == {desk, admin}
MCEnrollments == {e1}
MCWorkers == {w1, w2}

\* The payment rows of ROLE_MATRIX (rbac/catalog.py).
Desk == {"payment.view", "payment.create", "payment.cancel"}
Admin == Desk \cup {"payment.approve", "payment.reject"}
MCGrants == (desk :> Desk) @@ (admin :> Admin)

MCStudentOf == [e \in MCEnrollments |-> desk]
MCPrice == [e \in MCEnrollments |-> 2]

WorkersAreAlike == Permutations(MCWorkers)
================================================================================
