---------------------------- MODULE MCEvaluatorForm ----------------------------
(* One evaluator with two recruits.                                           *)
EXTENDS EvaluatorForm

CONSTANTS t1, t2
=============================================================================
