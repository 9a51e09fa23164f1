-------------------------- MODULE MCPermissionAnswers --------------------------
(* A small instance of PermissionAnswers: two calls at a time, each a reader
   or a writer of any kind, on one user who may hold one role. *)
EXTENDS PermissionAnswers, TLC

CONSTANTS w1, w2
================================================================================
