------------------------- MODULE MCAdministration -------------------------
(***************************************************************************)
(* One run for the parts of the system that share no state with each       *)
(* other: each is a scene, chosen at the start, in which its module alone   *)
(* takes steps. A scene is that module's specification on the instance     *)
(* defined here and in MCAdministration.cfg; the run is the sum of them.   *)
(***************************************************************************)
EXTENDS RoomPlans, ActiveJournee, GuardAlerts, ManagementCorrections, Scoring,
        Pairing, ProfileNotes, LoginLimits, Accounts, MCWorkspaces, Roster

VARIABLE scene

vars == <<roomsVars, activeVars, guardVars, correctionVars, scoringVars,
          pairingVars, notesVars, loginVars, accountVars, workspaceVars,
          rosterVars, scene>>

(* The initial states of a part are all tried in its own scene.            *)
Init ==
    /\ scene \in {"rooms", "active", "guard", "corrections", "scoring",
                  "pairing", "notes", "login", "accounts", "workspaces", "roster"}
    /\ InitRooms
    /\ InitActive
    /\ InitGuard
    /\ InitCorrections
    /\ IF scene = "scoring" THEN InitScoring ELSE Unscored(CHOOSE p \in Policies : TRUE)
    /\ IF scene = "pairing" THEN InitPairing ELSE Drawn(1, [r \in Participants |-> 1], {}, NoOne, CHOOSE t \in Ties : TRUE)
    /\ InitNotes
    /\ InitLogin
    /\ IF scene = "accounts" THEN InitAccounts ELSE Seeded(CHOOSE secret \in Secrets : TRUE, {})
    /\ InitWorkspaces
    /\ InitRoster

RoomsScene ==
    /\ scene = "rooms" /\ NextRooms
    /\ UNCHANGED <<activeVars, guardVars, correctionVars, scoringVars,
                   pairingVars, notesVars, loginVars, accountVars,
                   workspaceVars, rosterVars, scene>>

ActiveScene ==
    /\ scene = "active" /\ NextActive
    /\ UNCHANGED <<roomsVars, guardVars, correctionVars, scoringVars,
                   pairingVars, notesVars, loginVars, accountVars,
                   workspaceVars, rosterVars, scene>>

GuardScene ==
    /\ scene = "guard" /\ NextGuard
    /\ UNCHANGED <<roomsVars, activeVars, correctionVars, scoringVars,
                   pairingVars, notesVars, loginVars, accountVars,
                   workspaceVars, rosterVars, scene>>

CorrectionsScene ==
    /\ scene = "corrections" /\ NextCorrections
    /\ UNCHANGED <<roomsVars, activeVars, guardVars, scoringVars,
                   pairingVars, notesVars, loginVars, accountVars,
                   workspaceVars, rosterVars, scene>>

ScoringScene ==
    /\ scene = "scoring" /\ NextScoring
    /\ UNCHANGED <<roomsVars, activeVars, guardVars, correctionVars,
                   pairingVars, notesVars, loginVars, accountVars,
                   workspaceVars, rosterVars, scene>>

PairingScene ==
    /\ scene = "pairing" /\ NextPairing
    /\ UNCHANGED <<roomsVars, activeVars, guardVars, correctionVars,
                   scoringVars, notesVars, loginVars, accountVars,
                   workspaceVars, rosterVars, scene>>

NotesScene ==
    /\ scene = "notes" /\ NextNotes
    /\ UNCHANGED <<roomsVars, activeVars, guardVars, correctionVars,
                   scoringVars, pairingVars, loginVars, accountVars,
                   workspaceVars, rosterVars, scene>>

LoginScene ==
    /\ scene = "login" /\ NextLogin
    /\ UNCHANGED <<roomsVars, activeVars, guardVars, correctionVars,
                   scoringVars, pairingVars, notesVars, accountVars,
                   workspaceVars, rosterVars, scene>>

AccountsScene ==
    /\ scene = "accounts" /\ NextAccounts
    /\ UNCHANGED <<roomsVars, activeVars, guardVars, correctionVars,
                   scoringVars, pairingVars, notesVars, loginVars,
                   workspaceVars, rosterVars, scene>>

WorkspacesScene ==
    /\ scene = "workspaces" /\ NextWorkspaces
    /\ UNCHANGED <<roomsVars, activeVars, guardVars, correctionVars,
                   scoringVars, pairingVars, notesVars, loginVars,
                   accountVars, rosterVars, scene>>

RosterScene ==
    /\ scene = "roster" /\ NextRoster
    /\ UNCHANGED <<roomsVars, activeVars, guardVars, correctionVars,
                   scoringVars, pairingVars, notesVars, loginVars,
                   accountVars, workspaceVars, scene>>

Next ==
    \/ RoomsScene
    \/ ActiveScene
    \/ GuardScene
    \/ CorrectionsScene
    \/ ScoringScene
    \/ PairingScene
    \/ NotesScene
    \/ LoginScene
    \/ AccountsScene
    \/ WorkspacesScene
    \/ RosterScene

Spec == Init /\ [][Next]_vars

-----------------------------------------------------------------------------
(* The instances. *)

(* Escape has two ratings on different scales, sport a target met by less. *)
ScoredCriteria ==
    [participation |-> [activity |-> "escape", lowest |-> 0, highest |-> 2, step |-> 2, weight |-> 1,
                        target |-> 1, direction |-> "higher", dimension |-> "willingness"],
     support |-> [activity |-> "escape", lowest |-> 1, highest |-> 2, step |-> 1, weight |-> 2,
                  target |-> 1, direction |-> "higher", dimension |-> "respect"],
     plank |-> [activity |-> "sport", lowest |-> 0, highest |-> 5, step |-> 1, weight |-> 1,
                target |-> 2, direction |-> "lower", dimension |-> ""]]
ScoredDimensions ==
    [willingness |-> [source |-> "criteria", activity |-> ""],
     respect |-> [source |-> "criteria", activity |-> ""],
     physical |-> [source |-> "activity", activity |-> "sport"]]
ScoreComponents ==
    {[source |-> "dimension", key |-> "willingness", weight |-> 1],
     [source |-> "dimension", key |-> "physical", weight |-> 1],
     [source |-> "general", key |-> "general", weight |-> 1]}
ScoredFactors == [respect |-> 1]
ScoringPolicies ==
    {[aggregation |-> "missing_as_zero", missing |-> "zero", ranking |-> "dense"],
     [aggregation |-> "available_average", missing |-> "exclude", ranking |-> "competition"],
     [aggregation |-> "available_average", missing |-> "zero", ranking |-> "ordinal"]}
ScoredTasks ==
    {[activity |-> "escape", evaluator |-> "e1", recruit |-> 1],
     [activity |-> "escape", evaluator |-> "e2", recruit |-> 1],
     [activity |-> "sport", evaluator |-> "e1", recruit |-> 2]}
EnteredGrades == [participation |-> {0, 2}, support |-> {1, 2}, plank |-> {3}]

(* One evaluator of the first category, two of the second; one recruit had *)
(* an additional evaluator before.                                         *)
PrimaryOrder == [e \in Assessors |-> IF e = "e1" THEN 0 ELSE 1]
SecondaryOrder == [e \in Assessors |-> IF e = "e1" THEN 1 ELSE 0]
(* A seed without ties, and one with the dearest for some of the pairs.     *)
HashedTies ==
    {[p \in Assessors \X Participants |-> 0],
     [p \in Assessors \X Participants |-> IF p[1] = "e2" /\ p[2] = "r1" THEN 996 ELSE IF p[1] = "e3" THEN 500 ELSE 0]}
SecondsBefore == [r \in Participants |-> IF r = "r1" THEN 1 ELSE 0]

-----------------------------------------------------------------------------
(* The part whose scene it is is type correct; the others are at rest.      *)
TypeOK ==
    CASE scene = "rooms" -> TypeOKRooms
      [] scene = "active" -> TypeOKActive
      [] scene = "guard" -> TypeOKGuard
      [] scene = "corrections" -> TypeOKCorrections
      [] scene = "scoring" -> TypeOKScoring
      [] scene = "pairing" -> TypeOKPairing
      [] scene = "notes" -> TypeOKNotes
      [] scene = "login" -> TypeOKLogin
      [] scene = "accounts" -> TypeOKAccounts
      [] scene = "workspaces" -> TypeOKWorkspaces
      [] scene = "roster" -> TypeOKRoster

(* Scoring's ResultsAgree, computed in its scene only: the two ways a       *)
(* dimension is computed agree, and the ranks are those of the scores.      *)
ScoresAgree == scene = "scoring" => ResultsAgree
=============================================================================
