--------------------------- MODULE MCActivityControl ---------------------------
(* The bundled definition: sport and escape_room stand alone, negotiation     *)
(* follows escape_room, skills and simulation follow negotiation together.    *)
EXTENDS ActivityControl

CONSTANTS sport, escape_room, negotiation, skills, simulation

MCActivities == {sport, escape_room, negotiation, skills, simulation}

MCPredecessor ==
    [a \in MCActivities |->
        CASE a = negotiation -> escape_room
          [] a \in {skills, simulation} -> negotiation
          [] OTHER -> NoActivity]

MCReuseFrom ==
    [a \in MCActivities |-> IF a = simulation THEN skills ELSE NoActivity]

MCParallelGroup ==
    [a \in MCActivities |->
        IF a \in {skills, simulation} THEN skills ELSE NoActivity]

MCPaired == {skills, simulation}
=============================================================================
