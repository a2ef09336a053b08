-------------------------- MODULE MCEvaluationRounds --------------------------
(* Skills and Simulation, which open together and share one pairing, with or  *)
(* without Negotiation before them.                                           *)
EXTENDS EvaluationRounds

CONSTANTS negotiation, skills, simulation

MCPredecessor ==
    [a \in Activities |->
        IF a = negotiation \/ negotiation \notin Activities
        THEN NoActivity ELSE negotiation]

MCReuseFrom ==
    [a \in Activities |-> IF a = simulation THEN skills ELSE NoActivity]

MCParallelGroup ==
    [a \in Activities |-> IF a = negotiation THEN NoActivity ELSE skills]
=============================================================================
