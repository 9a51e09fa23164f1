---------------------------- MODULE TwoPersonLedger ----------------------------
(***************************************************************************)
(* What the payments component promises, with every mechanism removed: no  *)
(* requests, no locks, no audit rows.  A ledger line is recorded once, by  *)
(* one person, and leaves PENDING at most once, by the authority the       *)
(* verdict calls for.  APPROVED takes a second person.                     *)
(*                                                                         *)
(* Payments.tla is shown to implement this module.                         *)
(***************************************************************************)
CONSTANTS Lines,        \* payment numbers
          People,       \* user accounts
          Approvers,    \* those who hold payment.approve
          Rejecters,    \* those who hold payment.reject
          Nobody        \* the null foreign key

VARIABLE ledger

Verdicts == {"APPROVED", "REJECTED", "CANCELLED"}
Unwritten == [status |-> "UNWRITTEN", recorder |-> Nobody, decider |-> Nobody]

LedgerInit == ledger = [l \in Lines |-> Unwritten]

RecordLine(l, recorder) ==
  /\ ledger[l] = Unwritten
  /\ ledger' = [ledger EXCEPT ![l] = [status |-> "PENDING", recorder |-> recorder,
                                      decider |-> Nobody]]

\* Who may give each verdict on a line somebody else or they themselves wrote.
MayDecide(verdict, recorder, decider) ==
  \/ verdict = "APPROVED" /\ decider \in Approvers /\ decider # recorder
  \/ verdict = "REJECTED" /\ decider \in Rejecters
  \/ verdict = "CANCELLED" /\ (decider \in Approvers \/ decider = recorder)

DecideLine(l, verdict, decider) ==
  /\ ledger[l].status = "PENDING"
  /\ MayDecide(verdict, ledger[l].recorder, decider)
  /\ ledger' = [ledger EXCEPT ![l].status = verdict, ![l].decider = decider]

LedgerNext ==
  \E l \in Lines, who \in People :
     \/ RecordLine(l, who)
     \/ \E verdict \in Verdicts : DecideLine(l, verdict, who)

LedgerSpec == LedgerInit /\ [][LedgerNext]_ledger
================================================================================
