----------------------------- MODULE MCEnrollment ------------------------------
(* Small instances of Enrollment: two requests at a time on one course with a
   single seat. *)
EXTENDS Enrollment, TLC

CONSTANTS w1, w2

WorkersAreAlike == Permutations({w1, w2})
================================================================================
