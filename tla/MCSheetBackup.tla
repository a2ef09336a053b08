----------------------------- MODULE MCSheetBackup -----------------------------
(* Two deployments whose owners back up the same workspace.                   *)
EXTENDS SheetBackup, TLC

CONSTANTS a, b

(* Nothing tells the deployments apart.                                       *)
Deployments == Permutations(Servers)
=============================================================================
