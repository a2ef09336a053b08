----------------------- MODULE MCSubmissionTransactions -----------------------
(* Two tabs of one evaluator and one admin.                                   *)
EXTENDS SubmissionTransactions

CONSTANTS e1, e2, admin
=============================================================================
