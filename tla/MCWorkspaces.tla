---------------------------- MODULE MCWorkspaces ----------------------------
(***************************************************************************)
(* Workspaces with two definitions that share neither structure nor        *)
(* assessor categories.                                                    *)
(***************************************************************************)
EXTENDS Workspaces

DefinitionStructure == [d \in Definitions |-> IF d = "reshaped" THEN 2 ELSE 1]
DefinitionCategories == [d \in Definitions |-> IF d = "reshaped" THEN {"b"} ELSE {"a"}]
DefinitionFallback == [d \in Definitions |-> IF d = "reshaped" THEN "b" ELSE "a"]
=============================================================================
