------------------------------ MODULE MCRbacCache ------------------------------
(* Small instances of RbacCache: two calls at a time, each a reader or a
   writer of any kind, on one user who may hold one role. *)
EXTENDS RbacCache, TLC

CONSTANTS w1, w2

WorkersAreAlike == Permutations({w1, w2})
================================================================================
