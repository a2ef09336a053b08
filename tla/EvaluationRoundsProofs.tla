------------------------ MODULE EvaluationRoundsProofs ------------------------
(***************************************************************************)
(* What is proved of EvaluationRounds for every definition, roster and     *)
(* number of rounds: its types, that the published round is the current    *)
(* one, that reuse targets mirror their source, that only a closed         *)
(* activity holds locked work, that no published evaluation is lost, and   *)
(* that it implements ActivityControl.                                     *)
(***************************************************************************)
EXTENDS EvaluationRounds, TLAPS

(* A version above the latest one is no round yet, and a current round was  *)
(* created: what makes the next version free for a preview or a copy.       *)
FreshVersions ==
    \A a \in Activities :
        /\ currentRound[a] <= latest[a]
        /\ \A v \in Versions : v > latest[a] => roundStatus[a][v] = "none"

(* Nothing is evaluated before the activity opens for the first time, so a  *)
(* group that closes with a member never opened locks nothing in it.        *)
NoWorkBeforeOpening ==
    \A a \in Activities, v \in Versions, p \in Pairs :
        work[a][v][p] # "none" => activityStatus[a] # "not_started"

(* The inductive invariant: types, the published round, the mirrors, the    *)
(* locks and where work may be, with the two facts above.                   *)
IInv ==
    /\ TypeOK
    /\ PublishedIsCurrent
    /\ MirrorsSource
    /\ LockedOnlyWhenClosed
    /\ WorkOnAssignments
    /\ FreshVersions
    /\ NoWorkBeforeOpening

-----------------------------------------------------------------------------
(* An activity that owns its rounds is no copy of itself.                   *)
LEMMA ReuseTargetsFact ==
    ASSUME NEW a \in Activities, ReuseFrom[a] = NoActivity
    PROVE  /\ ReuseTargets(a) \subseteq Activities
           /\ a \notin ReuseTargets(a)
           /\ \A t \in ReuseTargets(a) : ReuseFrom[t] = a /\ ReuseTargets(t) = {}
BY DefinitionAssumption DEF ReuseTargets, References

(* The published round found by its status is the activity's current one.   *)
LEMMA PublishedRoundFact ==
    ASSUME TypeOK, PublishedIsCurrent, NEW a \in Activities
    PROVE  PublishedRound(a) = currentRound[a]
<1>1. CASE \E v \in Versions : roundStatus[a][v] = "published"
  BY <1>1 DEF PublishedRound, PublishedIsCurrent
<1>2. CASE ~ \E v \in Versions : roundStatus[a][v] = "published"
  <2>1. currentRound[a] \notin Versions
    BY <1>2 DEF PublishedIsCurrent
  <2> QED
    BY <1>2, <2>1, RoundsAssumption DEF PublishedRound, TypeOK, Versions
<1> QED BY <1>1, <1>2

LEMMA ControlInitTypes == Control!Init => Control!TypeOK
BY DEF Control!Init, Control!TypeOK, Control!JourneyStatuses, Control!ActivityStatuses,
       References, Control!References

LEMMA InitEstablishesIInv == Init => IInv
<1> SUFFICES ASSUME Init PROVE IInv
  OBVIOUS
<1> USE DEF Init
<1>1. TypeOK
  <2>1. Control!TypeOK
    BY ControlInitTypes
  <2>2. /\ currentRound \in [Activities -> 0..MaxRounds]
        /\ latest \in [Activities -> 0..MaxRounds]
    BY RoundsAssumption
  <2>3. /\ roundStatus \in [Activities -> [Versions -> RoundStatuses]]
        /\ pairs \in [Activities -> [Versions -> SUBSET Pairs]]
    BY DEF RoundStatuses
  <2>4. work \in [Activities -> [Versions -> [Pairs -> WorkStatuses]]]
    BY DEF WorkStatuses
  <2> QED BY <2>1, <2>2, <2>3, <2>4 DEF TypeOK
<1>2. PublishedIsCurrent
  BY RoundsAssumption DEF PublishedIsCurrent, Versions
<1>3. MirrorsSource
  BY DefinitionAssumption DEF MirrorsSource, References
<1>4. LockedOnlyWhenClosed /\ WorkOnAssignments /\ NoWorkBeforeOpening
  BY DEF LockedOnlyWhenClosed, WorkOnAssignments, NoWorkBeforeOpening
<1>5. FreshVersions
  <2> SUFFICES ASSUME NEW a \in Activities
               PROVE  /\ currentRound[a] <= latest[a]
                      /\ \A v \in Versions : v > latest[a] => roundStatus[a][v] = "none"
    BY DEF FreshVersions
  <2>1. currentRound[a] = 0 /\ latest[a] = 0
    OBVIOUS
  <2> QED BY <2>1
<1> QED BY <1>1, <1>2, <1>3, <1>4, <1>5 DEF IInv

-----------------------------------------------------------------------------
(* Opening: the opened activities' locked work becomes submitted.           *)
LEMMA UnlockingKeepsIInv ==
    ASSUME IInv, NEW codes \in SUBSET Activities,
           Control!SetStatus(codes, "open"), Unlock(codes), UNCHANGED roundVars,
           Control!TypeOK'
    PROVE  IInv'
<1> USE DEF IInv
<1>1. TypeOK'
  BY DEF TypeOK, Unlock, Relabel, WorkStatuses, roundVars
<1>2. LockedOnlyWhenClosed'
  BY DEF LockedOnlyWhenClosed, Unlock, Relabel, Control!SetStatus, TypeOK
<1>3. WorkOnAssignments' /\ NoWorkBeforeOpening'
  BY DEF WorkOnAssignments, NoWorkBeforeOpening, Unlock, Relabel, roundVars,
         Control!SetStatus, TypeOK
<1>4. PublishedIsCurrent' /\ MirrorsSource' /\ FreshVersions'
  BY DEF PublishedIsCurrent, MirrorsSource, FreshVersions, roundVars
<1> QED BY <1>1, <1>2, <1>3, <1>4

(* Closing: the submitted work of all the activities named is locked; those *)
(* of them that were open are closed.                                       *)
LEMMA LockingKeepsIInv ==
    ASSUME IInv, NEW codes \in SUBSET Activities,
           Control!SetStatus(codes \cap Control!OpenActivities, "closed"),
           Lock(codes), UNCHANGED roundVars, Control!TypeOK'
    PROVE  IInv'
<1> USE DEF IInv
<1>1. TypeOK'
  BY DEF TypeOK, Lock, Relabel, WorkStatuses, roundVars
<1>2. LockedOnlyWhenClosed'
  <2> SUFFICES ASSUME NEW a \in Activities, NEW v \in Versions, NEW p \in Pairs,
                      work'[a][v][p] = "locked"
               PROVE  activityStatus'[a] = "closed"
    BY DEF LockedOnlyWhenClosed
  <2>1. CASE work[a][v][p] = "locked"
    BY <2>1 DEF LockedOnlyWhenClosed, Control!SetStatus
  <2>2. CASE work[a][v][p] # "locked"
    <3>1. a \in codes /\ work[a][v][p] # "none"
      BY <2>2 DEF Lock, Relabel
    <3>2. activityStatus[a] \in {"open", "closed"}
      BY <3>1 DEF NoWorkBeforeOpening, TypeOK, Control!TypeOK, Control!ActivityStatuses
    <3> QED
      BY <3>1, <3>2 DEF Control!SetStatus, Control!OpenActivities
  <2> QED BY <2>1, <2>2
<1>3. WorkOnAssignments' /\ NoWorkBeforeOpening'
  BY DEF WorkOnAssignments, NoWorkBeforeOpening, Lock, Relabel, roundVars,
         Control!SetStatus, TypeOK
<1>4. PublishedIsCurrent' /\ MirrorsSource' /\ FreshVersions'
  BY DEF PublishedIsCurrent, MirrorsSource, FreshVersions, roundVars
<1> QED BY <1>1, <1>2, <1>3, <1>4

-----------------------------------------------------------------------------
(* What the lifecycle handlers write has the types of ActivityControl.      *)
LEMMA ControlTypesKept ==
    ASSUME Control!TypeOK,
           \/ \E a \in Activities, action \in Control!Actions, reason \in Reasons :
                 Control!OpenActivity(a, action, reason)
           \/ \E a \in Activities : Control!CloseActivity(a)
           \/ \E codes \in SUBSET Activities, lead \in Activities,
                 action \in Control!Actions, reason \in Reasons :
                    Control!OpenTogether(codes, lead, action, reason)
           \/ \E codes \in SUBSET Activities : Control!CloseTogether(codes)
           \/ \E status \in Control!JourneyStatuses : Control!UpdateJourney(status)
           \/ Control!StartEventDay
           \/ Control!BeginEnd
           \/ Control!EndEventDay
           \/ Control!ForgetEnd
    PROVE  Control!TypeOK'
<1> USE RoundsAssumption
    DEF Control!TypeOK, Control!SetStatus, Control!ActivityStatuses,
        Control!JourneyStatuses, Control!References, Control!AuditOpening
<1>1. ASSUME NEW a \in Activities, NEW action \in Control!Actions, NEW reason \in Reasons,
             Control!OpenActivity(a, action, reason)
      PROVE  Control!TypeOK'
  BY <1>1 DEF Control!OpenActivity, Control!OpenActivities
<1>2. ASSUME NEW a \in Activities, Control!CloseActivity(a) PROVE Control!TypeOK'
  BY <1>2 DEF Control!CloseActivity, Control!OpenActivities
<1>3. ASSUME NEW codes \in SUBSET Activities, NEW lead \in Activities,
             NEW action \in Control!Actions, NEW reason \in Reasons,
             Control!OpenTogether(codes, lead, action, reason)
      PROVE  Control!TypeOK'
  BY <1>3 DEF Control!OpenTogether
<1>4. ASSUME NEW codes \in SUBSET Activities, Control!CloseTogether(codes)
      PROVE  Control!TypeOK'
  BY <1>4 DEF Control!CloseTogether, Control!OpenActivities
<1>5. ASSUME NEW status \in Control!JourneyStatuses, Control!UpdateJourney(status)
      PROVE  Control!TypeOK'
  BY <1>5 DEF Control!UpdateJourney
<1>6. ASSUME Control!StartEventDay PROVE Control!TypeOK'
  BY <1>6 DEF Control!StartEventDay
<1>7. Control!Seen \in [completed : BOOLEAN, idle : BOOLEAN]
  <2>1. (journeyStatus = "completed") \in BOOLEAN /\ (currentActivity = NoActivity) \in BOOLEAN
    OBVIOUS
  <2> QED BY <2>1 DEF Control!Seen
<1>8. ASSUME Control!BeginEnd PROVE Control!TypeOK'
  BY <1>7, <1>8 DEF Control!BeginEnd
<1>9. ASSUME NEW read, Control!Ended(read), ending' \subseteq ending PROVE Control!TypeOK'
  BY <1>9 DEF Control!Ended, Control!OpenActivities
<1>10. ASSUME Control!EndEventDay PROVE Control!TypeOK'
  BY <1>9, <1>10 DEF Control!EndEventDay
<1>11. ASSUME Control!ForgetEnd PROVE Control!TypeOK'
  BY <1>11 DEF Control!ForgetEnd
<1> QED BY <1>1, <1>2, <1>3, <1>4, <1>5, <1>6, <1>8, <1>10, <1>11

(* The paired endpoint acts on activities of the definition.                *)
LEMMA PairFact ==
    /\ PairedActivities \subseteq Activities
    /\ PairedActivities # {} => PairedLead \in PairedActivities
BY PairedAssumption

LEMMA ControlStepKeepsIInv == IInv /\ ControlStep => IInv'
<1> SUFFICES ASSUME IInv, ControlStep PROVE IInv'
  OBVIOUS
<1> Control!TypeOK
  BY DEF IInv, TypeOK
<1>1. ASSUME NEW a \in Activities, NEW action \in Control!Actions, NEW reason \in Reasons,
             OpenActivity(a, action, reason)
      PROVE  IInv'
  <2>1. Control!TypeOK'
    BY <1>1, ControlTypesKept DEF OpenActivity
  <2> QED
    BY <1>1, <2>1, UnlockingKeepsIInv DEF OpenActivity, Control!OpenActivity
<1>2. ASSUME NEW a \in Activities, CloseActivity(a) PROVE IInv'
  <2>1. Control!TypeOK'
    BY <1>2, ControlTypesKept DEF CloseActivity
  <2>2. {a} \cap Control!OpenActivities = {a}
    BY <1>2 DEF CloseActivity, Control!CloseActivity, Control!OpenActivities
  <2> QED
    BY <1>2, <2>1, <2>2, LockingKeepsIInv DEF CloseActivity, Control!CloseActivity
<1>3. ASSUME NEW g \in ParallelGroups, NEW action \in Control!Actions,
             NEW reason \in Reasons, OpenGroup(g, action, reason)
      PROVE  IInv'
  <2>1. g \in Activities /\ GroupMembers(g) \in SUBSET Activities
        /\ Control!GroupMembers(g) = GroupMembers(g)
    BY DEF ParallelGroups, GroupMembers, Control!GroupMembers
  <2>2. Control!OpenTogether(GroupMembers(g), g, action, reason)
    BY <1>3, <2>1 DEF OpenGroup, Control!OpenGroup
  <2>3. Control!TypeOK'
    BY <2>1, <2>2, ControlTypesKept
  <2> QED
    BY <1>3, <2>1, <2>2, <2>3, UnlockingKeepsIInv DEF OpenGroup, Control!OpenTogether
<1>4. ASSUME NEW g \in ParallelGroups, CloseGroup(g) PROVE IInv'
  <2>1. GroupMembers(g) \in SUBSET Activities
        /\ Control!GroupMembers(g) = GroupMembers(g)
    BY DEF GroupMembers, Control!GroupMembers
  <2>2. Control!CloseTogether(GroupMembers(g))
    BY <1>4, <2>1 DEF CloseGroup, Control!CloseGroup
  <2>3. Control!TypeOK'
    BY <2>1, <2>2, ControlTypesKept
  <2> QED
    BY <1>4, <2>1, <2>2, <2>3, LockingKeepsIInv DEF CloseGroup, Control!CloseTogether
<1>5. ASSUME NEW action \in Control!Actions, NEW reason \in Reasons, OpenPair(action, reason)
      PROVE  IInv'
  <2>1. /\ PairedActivities # {}
        /\ Control!OpenTogether(PairedActivities, PairedLead, action, reason)
    BY <1>5 DEF OpenPair, Control!OpenPair
  <2>2. Control!TypeOK'
    BY <2>1, PairFact, ControlTypesKept
  <2> QED
    BY <1>5, <2>1, <2>2, PairFact, UnlockingKeepsIInv DEF OpenPair, Control!OpenTogether
<1>6. ASSUME ClosePair PROVE IInv'
  <2>1. Control!CloseTogether(PairedActivities)
    BY <1>6 DEF ClosePair, Control!ClosePair
  <2>2. Control!TypeOK'
    BY <2>1, PairFact, ControlTypesKept
  <2> QED
    BY <1>6, <2>1, <2>2, PairFact, LockingKeepsIInv DEF ClosePair, Control!CloseTogether
<1>7. ASSUME NEW status \in Control!JourneyStatuses, UpdateJourney(status) PROVE IInv'
  <2>1. Control!TypeOK'
    BY <1>7, ControlTypesKept DEF UpdateJourney
  <2> QED
    BY <1>7, <2>1 DEF UpdateJourney, Control!UpdateJourney, roundVars, IInv, TypeOK,
       PublishedIsCurrent, MirrorsSource, LockedOnlyWhenClosed, WorkOnAssignments,
       FreshVersions, NoWorkBeforeOpening
<1>8. ASSUME StartEventDay PROVE IInv'
  <2>1. Control!TypeOK'
    BY <1>8, ControlTypesKept DEF StartEventDay
  <2> QED
    BY <1>8, <2>1 DEF StartEventDay, Control!StartEventDay, roundVars, IInv, TypeOK,
       PublishedIsCurrent, MirrorsSource, LockedOnlyWhenClosed, WorkOnAssignments,
       FreshVersions, NoWorkBeforeOpening
<1>9. ASSUME EndEventDay PROVE IInv'
  <2>1. Control!TypeOK'
    BY <1>9, ControlTypesKept DEF EndEventDay
  <2>2. \A a \in Activities :
           activityStatus'[a] = IF activityStatus[a] = "open" THEN "closed" ELSE activityStatus[a]
    BY <1>9 DEF EndEventDay, Control!EndEventDay, Control!Ended, Control!SetStatus,
       Control!OpenActivities
  <2>3. UNCHANGED roundVars /\ UNCHANGED work
    BY <1>9 DEF EndEventDay
  <2>4. TypeOK' /\ PublishedIsCurrent' /\ MirrorsSource' /\ WorkOnAssignments' /\ FreshVersions'
    BY <2>1, <2>3 DEF roundVars, IInv, TypeOK, PublishedIsCurrent, MirrorsSource,
       WorkOnAssignments, FreshVersions
  <2>5. LockedOnlyWhenClosed' /\ NoWorkBeforeOpening'
    BY <2>2, <2>3 DEF IInv, LockedOnlyWhenClosed, NoWorkBeforeOpening
  <2> QED BY <2>4, <2>5 DEF IInv
<1>10. ASSUME BeginEnd \/ ForgetEnd PROVE IInv'
  <2>1. Control!TypeOK'
    BY <1>10, ControlTypesKept DEF BeginEnd, ForgetEnd
  <2> QED
    BY <1>10, <2>1 DEF BeginEnd, ForgetEnd, Control!BeginEnd, Control!ForgetEnd, roundVars,
       IInv, TypeOK, PublishedIsCurrent, MirrorsSource, LockedOnlyWhenClosed,
       WorkOnAssignments, FreshVersions, NoWorkBeforeOpening
<1> QED BY <1>1, <1>2, <1>3, <1>4, <1>5, <1>6, <1>7, <1>8, <1>9, <1>10 DEF ControlStep

-----------------------------------------------------------------------------
(* Saving, simulating and correcting touch only submissions that are on an  *)
(* assignment of a round published at some time, in an activity that opened. *)
LEMMA EvaluationStepKeepsIInv == IInv /\ EvaluationStep => IInv'
<1> SUFFICES ASSUME IInv, EvaluationStep PROVE IInv'
  OBVIOUS
<1> USE DEF IInv
<1>1. ASSUME UNCHANGED <<controlVars, roundVars>>, TypeOK',
             \A a \in Activities, v \in Versions, p \in Pairs :
                work'[a][v][p] # work[a][v][p] =>
                   /\ activityStatus[a] # "not_started"
                   /\ p \in pairs[a][v]
                   /\ roundStatus[a][v] \in {"published", "superseded"}
                   /\ work'[a][v][p] = "locked" => activityStatus[a] = "closed"
      PROVE  IInv'
  <2>1. PublishedIsCurrent' /\ MirrorsSource' /\ FreshVersions'
    BY <1>1 DEF roundVars, PublishedIsCurrent, MirrorsSource, FreshVersions
  <2>2. LockedOnlyWhenClosed'
    BY <1>1 DEF controlVars, LockedOnlyWhenClosed
  <2>3. WorkOnAssignments' /\ NoWorkBeforeOpening'
    BY <1>1 DEF controlVars, roundVars, WorkOnAssignments, NoWorkBeforeOpening
  <2> QED BY <1>1, <2>1, <2>2, <2>3
<1>2. ASSUME NEW a \in Activities, NEW p \in Pairs, NEW submit \in BOOLEAN,
             SaveTask(a, p, submit)
      PROVE  IInv'
  <2>1. currentRound[a] \in Versions
    BY <1>2, RoundsAssumption DEF SaveTask, Reachable, TypeOK, Versions
  <2>2. TypeOK'
    BY <1>2, <2>1 DEF SaveTask, SavedStatus, TypeOK, Control!TypeOK, WorkStatuses,
       controlVars, roundVars
  <2>3. \A b \in Activities, v \in Versions, q \in Pairs :
           work'[b][v][q] # work[b][v][q] =>
              /\ b = a /\ v = currentRound[a] /\ q = p
              /\ work'[b][v][q] # "locked"
    BY <1>2, <2>1 DEF SaveTask, SavedStatus, TypeOK
  <2> QED
    BY <1>1, <1>2, <2>2, <2>3 DEF SaveTask, Reachable
<1>3. ASSUME NEW a \in Activities, NEW ps \in SUBSET Pairs, SimulateEvaluations(a, ps)
      PROVE  IInv'
  <2>1. currentRound[a] \in Versions
    BY <1>3, RoundsAssumption DEF SimulateEvaluations, TypeOK, Versions
  <2>2. TypeOK'
    BY <1>3, <2>1 DEF SimulateEvaluations, TypeOK, Control!TypeOK, WorkStatuses,
       controlVars, roundVars
  <2>3. \A b \in Activities, v \in Versions, q \in Pairs :
           work'[b][v][q] # work[b][v][q] =>
              /\ b = a /\ v = currentRound[a] /\ q \in ps
              /\ work'[b][v][q] # "locked"
    BY <1>3, <2>1 DEF SimulateEvaluations, TypeOK
  <2> QED
    BY <1>1, <1>3, <2>2, <2>3 DEF SimulateEvaluations
<1>4. ASSUME NEW a \in Activities, NEW v \in Versions, NEW p \in Pairs,
             CorrectSubmission(a, v, p)
      PROVE  IInv'
  <2>1. TypeOK'
    BY <1>4 DEF CorrectSubmission, TypeOK, Control!TypeOK, WorkStatuses,
       controlVars, roundVars
  <2>2. \A b \in Activities, w \in Versions, q \in Pairs :
           work'[b][w][q] # work[b][w][q] =>
              /\ b = a /\ w = v /\ q = p
              /\ work'[b][w][q] = "locked" => activityStatus[a] = "closed"
    BY <1>4 DEF CorrectSubmission, TypeOK
  <2>3. /\ activityStatus[a] # "not_started"
        /\ p \in pairs[a][v]
        /\ roundStatus[a][v] \in {"published", "superseded"}
    BY <1>4 DEF CorrectSubmission, WorkOnAssignments, NoWorkBeforeOpening
  <2> QED
    BY <1>1, <1>4, <2>1, <2>2, <2>3 DEF CorrectSubmission
<1> QED BY <1>2, <1>3, <1>4 DEF EvaluationStep

-----------------------------------------------------------------------------
(* A version that was never used becomes a working round: no work is on it, *)
(* and it is not the current round.                                         *)
LEMMA NewPreviewKeepsIInv ==
    ASSUME IInv, NEW a \in Activities, NEW ps \in SUBSET Pairs, NewPreview(a, ps)
    PROVE  IInv'
<1> USE DEF IInv
<1> DEFINE v == latest[a] + 1
<1>1. /\ v \in Versions /\ v > latest[a] /\ latest[a] \in Nat
      /\ roundStatus[a][v] = "none"
  BY RoundsAssumption DEF NewPreview, TypeOK, Versions, FreshVersions
<1>2. /\ currentRound[a] # v
      /\ \A p \in Pairs : work[a][v][p] = "none"
  BY <1>1 DEF PublishedIsCurrent, WorkOnAssignments
<1>3. /\ UNCHANGED <<controlVars, currentRound, work>>
      /\ latest' = [latest EXCEPT ![a] = v]
      /\ roundStatus' = [roundStatus EXCEPT ![a] = Replacing(a, {"preview"}, v, "preview")]
      /\ pairs' = [pairs EXCEPT ![a][v] = ps]
  BY DEF NewPreview
<1> HIDE DEF v
<1>4. Replacing(a, {"preview"}, v, "preview") \in [Versions -> RoundStatuses]
  BY DEF Replacing, TypeOK, RoundStatuses
<1>5. TypeOK'
  <2>1. Control!TypeOK'
    BY <1>3 DEF TypeOK, Control!TypeOK, controlVars
  <2>2. latest' \in [Activities -> 0..MaxRounds] /\ currentRound' \in [Activities -> 0..MaxRounds]
    BY <1>1, <1>3, RoundsAssumption DEF TypeOK, Versions
  <2>3. /\ roundStatus' \in [Activities -> [Versions -> RoundStatuses]]
        /\ pairs' \in [Activities -> [Versions -> SUBSET Pairs]]
        /\ work' \in [Activities -> [Versions -> [Pairs -> WorkStatuses]]]
    BY <1>1, <1>3, <1>4 DEF TypeOK
  <2> QED BY <2>1, <2>2, <2>3 DEF TypeOK
<1>6. \A b \in Activities, w \in Versions :
         /\ roundStatus'[b][w] = IF b = a /\ w = v THEN "preview"
                                 ELSE IF b = a /\ roundStatus[b][w] = "preview"
                                 THEN "superseded" ELSE roundStatus[b][w]
         /\ pairs'[b][w] = IF b = a /\ w = v THEN ps ELSE pairs[b][w]
  BY <1>1, <1>3 DEF TypeOK, Replacing
<1>7. PublishedIsCurrent'
  BY <1>1, <1>2, <1>3, <1>6 DEF PublishedIsCurrent
<1>8. MirrorsSource'
  <2> SUFFICES ASSUME NEW t \in Activities, ReuseFrom[t] # NoActivity
               PROVE  LET s == ReuseFrom[t] IN
                      /\ (currentRound'[t] = 0) = (currentRound'[s] = 0)
                      /\ currentRound'[s] # 0 =>
                            pairs'[t][currentRound'[t]] = pairs'[s][currentRound'[s]]
    BY DEF MirrorsSource
  <2>1. ReuseFrom[t] \in Activities
    BY DefinitionAssumption DEF References
  <2>2. \A b \in Activities : currentRound[b] # 0 =>
           pairs'[b][currentRound[b]] = pairs[b][currentRound[b]]
    BY <1>2, <1>6, RoundsAssumption DEF TypeOK, Versions
  <2> QED
    BY <1>3, <2>1, <2>2 DEF MirrorsSource
<1>9. LockedOnlyWhenClosed' /\ NoWorkBeforeOpening'
  BY <1>3 DEF LockedOnlyWhenClosed, NoWorkBeforeOpening, controlVars
<1>10. WorkOnAssignments'
  BY <1>2, <1>3, <1>6 DEF WorkOnAssignments
<1>11. FreshVersions'
  <2> SUFFICES ASSUME NEW b \in Activities
               PROVE  /\ currentRound'[b] <= latest'[b]
                      /\ \A w \in Versions : w > latest'[b] => roundStatus'[b][w] = "none"
    BY DEF FreshVersions
  <2>1. currentRound[b] \in Nat /\ latest[b] \in Nat /\ Versions \subseteq Nat
    BY RoundsAssumption DEF TypeOK, Versions
  <2>2. latest'[b] = IF b = a THEN v ELSE latest[b]
    BY <1>3 DEF TypeOK
  <2> QED
    BY <1>1, <1>3, <1>6, <2>1, <2>2 DEF FreshVersions, v
<1> QED BY <1>5, <1>7, <1>8, <1>9, <1>10, <1>11

(* Only a working round is edited: no work is on it, and it is not current. *)
LEMMA EditPreviewKeepsIInv ==
    ASSUME IInv, NEW a \in Activities, NEW v \in Versions, NEW ps \in SUBSET Pairs,
           EditPreview(a, v, ps)
    PROVE  IInv'
<1> USE DEF IInv
<1>1. /\ currentRound[a] # v
      /\ \A p \in Pairs : work[a][v][p] = "none"
  BY DEF EditPreview, PublishedIsCurrent, WorkOnAssignments
<1>2. /\ UNCHANGED <<controlVars, currentRound, latest, roundStatus, work>>
      /\ \A b \in Activities, w \in Versions :
            pairs'[b][w] = IF b = a /\ w = v THEN ps ELSE pairs[b][w]
  BY DEF EditPreview, TypeOK
<1>3. TypeOK'
  BY <1>2 DEF EditPreview, TypeOK, Control!TypeOK, controlVars
<1>4. MirrorsSource'
  <2> SUFFICES ASSUME NEW t \in Activities, ReuseFrom[t] # NoActivity
               PROVE  LET s == ReuseFrom[t] IN
                      /\ (currentRound'[t] = 0) = (currentRound'[s] = 0)
                      /\ currentRound'[s] # 0 =>
                            pairs'[t][currentRound'[t]] = pairs'[s][currentRound'[s]]
    BY DEF MirrorsSource
  <2>1. ReuseFrom[t] \in Activities
    BY DefinitionAssumption DEF References
  <2>2. \A b \in Activities : currentRound[b] # 0 =>
           pairs'[b][currentRound[b]] = pairs[b][currentRound[b]]
    BY <1>1, <1>2, RoundsAssumption DEF TypeOK, Versions
  <2> QED
    BY <1>2, <2>1, <2>2 DEF MirrorsSource
<1>5. WorkOnAssignments'
  BY <1>1, <1>2 DEF WorkOnAssignments
<1>6. PublishedIsCurrent' /\ FreshVersions' /\ LockedOnlyWhenClosed' /\ NoWorkBeforeOpening'
  BY <1>2 DEF PublishedIsCurrent, FreshVersions, LockedOnlyWhenClosed,
     NoWorkBeforeOpening, controlVars
<1> QED BY <1>3, <1>4, <1>5, <1>6

-----------------------------------------------------------------------------
(* The round that becomes current is one no work is on and that is not      *)
(* current yet: the preview itself, and a version never used of each copy.  *)
LEMMA IncomingFact ==
    ASSUME IInv, NEW a \in Activities, NEW v \in Versions, Publish(a, v),
           NEW b \in {a} \cup ReuseTargets(a)
    PROVE  /\ b \in Activities
           /\ Incoming(a, v, b) \in Versions
           /\ Incoming(a, v, b) # currentRound[b]
           /\ roundStatus[b][Incoming(a, v, b)] \in {"none", "preview"}
           /\ \A p \in Pairs : work[b][Incoming(a, v, b)][p] = "none"
           /\ Incoming(a, v, b) <= (IF b = a THEN latest[a] ELSE latest[b] + 1)
<1> USE DEF IInv
<1>1. b \in Activities
  BY ReuseTargetsFact DEF Publish
<1>2. CASE b = a
  <2>1. Incoming(a, v, b) = v /\ roundStatus[a][v] = "preview"
    BY <1>2 DEF Incoming, Publish
  <2>2. currentRound[a] # v /\ \A p \in Pairs : work[a][v][p] = "none"
    BY <2>1 DEF PublishedIsCurrent, WorkOnAssignments
  <2>3. v \in Nat /\ latest[a] \in Nat
    BY RoundsAssumption DEF TypeOK, Versions
  <2>4. ~ (v > latest[a])
    BY <2>1 DEF FreshVersions
  <2> QED BY <1>2, <2>1, <2>2, <2>3, <2>4
<1>3. CASE b # a
  <2>1. /\ latest[b] < MaxRounds /\ latest[b] \in Nat
        /\ Incoming(a, v, b) = latest[b] + 1
    BY <1>1, <1>3, RoundsAssumption DEF Incoming, Publish, TypeOK
  <2>2. Incoming(a, v, b) \in Versions /\ Incoming(a, v, b) > latest[b]
    BY <2>1, RoundsAssumption DEF Versions
  <2>3. roundStatus[b][Incoming(a, v, b)] = "none" /\ currentRound[b] # Incoming(a, v, b)
    BY <1>1, <2>2, RoundsAssumption DEF FreshVersions, PublishedIsCurrent
  <2>4. \A p \in Pairs : work[b][Incoming(a, v, b)][p] = "none"
    BY <1>1, <2>2, <2>3 DEF WorkOnAssignments
  <2> QED BY <1>1, <1>3, <2>1, <2>2, <2>3, <2>4
<1> QED BY <1>1, <1>2, <1>3

(* What publishing does to each round of each activity.                     *)
LEMMA PublishEffect ==
    ASSUME IInv, NEW a \in Activities, NEW v \in Versions, Publish(a, v),
           NEW b \in Activities
    PROVE  LET boards == {a} \cup ReuseTargets(a)
               new == Incoming(a, v, b)
           IN
           /\ currentRound'[b] = IF b \in boards THEN new ELSE currentRound[b]
           /\ latest'[b] = IF b \in ReuseTargets(a) THEN new ELSE latest[b]
           /\ \A w \in Versions :
                 /\ roundStatus'[b][w] =
                       IF b \notin boards THEN roundStatus[b][w]
                       ELSE IF w = new THEN "published"
                       ELSE IF roundStatus[b][w] \in Outgoing(a, b) THEN "superseded"
                       ELSE roundStatus[b][w]
                 /\ pairs'[b][w] = IF b \in boards /\ w = new THEN pairs[a][v]
                                   ELSE pairs[b][w]
                 /\ \A p \in Pairs :
                       work'[b][w][p] =
                          IF b \notin boards \/ currentRound[b] = 0 \/ p \notin pairs[a][v]
                          THEN work[b][w][p]
                          ELSE IF w = new THEN work[b][currentRound[b]][p]
                          ELSE IF w = currentRound[b] THEN "none"
                          ELSE work[b][w][p]
<1> USE DEF IInv
<1> DEFINE boards == {a} \cup ReuseTargets(a)
           new == Incoming(a, v, b)
<1>1. PublishedRound(b) = currentRound[b]
  BY PublishedRoundFact
<1>2. /\ currentRound'[b] = IF b \in boards THEN new ELSE currentRound[b]
      /\ latest'[b] = IF b \in ReuseTargets(a) THEN new ELSE latest[b]
  BY DEF Publish
<1>3. \A w \in Versions :
         roundStatus'[b][w] =
            IF b \notin boards THEN roundStatus[b][w]
            ELSE IF w = new THEN "published"
            ELSE IF roundStatus[b][w] \in Outgoing(a, b) THEN "superseded"
            ELSE roundStatus[b][w]
  BY DEF Publish, Replacing
<1>4. \A w \in Versions :
         pairs'[b][w] = IF b \in boards /\ w = new THEN pairs[a][v] ELSE pairs[b][w]
  <2>1. a \notin ReuseTargets(a)
    BY ReuseTargetsFact DEF Publish
  <2>2. CASE b \in ReuseTargets(a)
    BY <2>2, IncomingFact DEF Publish, TypeOK
  <2>3. CASE b = a
    BY <2>1, <2>3 DEF Publish, Incoming
  <2>4. CASE b \notin boards
    BY <2>4 DEF Publish
  <2> QED BY <2>2, <2>3, <2>4
<1>5. \A w \in Versions, p \in Pairs :
         work'[b][w][p] =
            IF b \notin boards \/ currentRound[b] = 0 \/ p \notin pairs[a][v]
            THEN work[b][w][p]
            ELSE IF w = new THEN work[b][currentRound[b]][p]
            ELSE IF w = currentRound[b] THEN "none"
            ELSE work[b][w][p]
  BY <1>1 DEF Publish, Moved
<1> QED BY <1>2, <1>3, <1>4, <1>5

LEMMA PublishKeepsIInv ==
    ASSUME IInv, NEW a \in Activities, NEW v \in Versions, Publish(a, v)
    PROVE  IInv'
<1> USE DEF IInv
<1> DEFINE boards == {a} \cup ReuseTargets(a)
           new(b) == Incoming(a, v, b)
<1>1. ReuseFrom[a] = NoActivity /\ UNCHANGED controlVars
  BY DEF Publish
<1>2. /\ boards \subseteq Activities
      /\ a \notin ReuseTargets(a)
      /\ \A t \in ReuseTargets(a) : ReuseFrom[t] = a /\ ReuseTargets(t) = {}
  BY <1>1, ReuseTargetsFact
<1>3. TypeOK'
  <2>1. Control!TypeOK'
    BY <1>1 DEF TypeOK, Control!TypeOK, controlVars
  <2>2. \A b \in Activities : currentRound'[b] \in 0..MaxRounds /\ latest'[b] \in 0..MaxRounds
    <3> SUFFICES ASSUME NEW b \in Activities
                 PROVE  currentRound'[b] \in 0..MaxRounds /\ latest'[b] \in 0..MaxRounds
      OBVIOUS
    <3>1. b \in boards => new(b) \in 0..MaxRounds
      BY IncomingFact, RoundsAssumption DEF Versions
    <3> QED BY <3>1, PublishEffect DEF TypeOK
  <2>3. \A b \in Activities : roundStatus'[b] \in [Versions -> RoundStatuses]
    BY DEF Publish, Replacing, TypeOK, RoundStatuses
  <2>4. \A b \in Activities : pairs'[b] \in [Versions -> SUBSET Pairs]
    <3>1. pairs[a][v] \in SUBSET Pairs
      BY DEF TypeOK
    <3> QED BY <3>1 DEF Publish, TypeOK
  <2>5. \A b \in Activities : work'[b] \in [Versions -> [Pairs -> WorkStatuses]]
    <3> SUFFICES ASSUME NEW b \in Activities
                 PROVE  work'[b] \in [Versions -> [Pairs -> WorkStatuses]]
      OBVIOUS
    <3>1. PublishedRound(b) # 0 => PublishedRound(b) \in Versions
      BY PublishedRoundFact, RoundsAssumption DEF TypeOK, Versions
    <3>2. Moved(b, PublishedRound(b), new(b), pairs[a][v])
             \in [Versions -> [Pairs -> WorkStatuses]]
      BY <3>1 DEF Moved, TypeOK, WorkStatuses
    <3> QED BY <3>2 DEF Publish, TypeOK
  <2>6. /\ DOMAIN currentRound' = Activities /\ DOMAIN latest' = Activities
        /\ currentRound' = [b \in Activities |-> currentRound'[b]]
        /\ latest' = [b \in Activities |-> latest'[b]]
        /\ roundStatus' = [b \in Activities |-> roundStatus'[b]]
        /\ pairs' = [b \in Activities |-> pairs'[b]]
        /\ work' = [b \in Activities |-> work'[b]]
    BY DEF Publish, TypeOK
  <2> QED
    BY <2>1, <2>2, <2>3, <2>4, <2>5, <2>6 DEF TypeOK
<1>4. PublishedIsCurrent'
  <2> SUFFICES ASSUME NEW b \in Activities, NEW w \in Versions
               PROVE  roundStatus'[b][w] = "published" <=> currentRound'[b] = w
    BY DEF PublishedIsCurrent
  <2>1. CASE b \in boards
    <3>1. "published" \in Outgoing(a, b)
      BY DEF Outgoing
    <3> QED BY <2>1, <3>1, PublishEffect, IncomingFact
  <2>2. CASE b \notin boards
    BY <2>2, PublishEffect DEF PublishedIsCurrent
  <2> QED BY <2>1, <2>2
<1>5. \A b \in boards : /\ currentRound'[b] \in Versions
                        /\ currentRound'[b] # 0
                        /\ pairs'[b][currentRound'[b]] = pairs[a][v]
  BY <1>2, PublishEffect, IncomingFact, RoundsAssumption DEF Versions
<1>6. \A b \in Activities \ boards :
         /\ currentRound'[b] = currentRound[b]
         /\ currentRound[b] # 0 => pairs'[b][currentRound[b]] = pairs[b][currentRound[b]]
  <2> SUFFICES ASSUME NEW b \in Activities \ boards
               PROVE  /\ currentRound'[b] = currentRound[b]
                      /\ currentRound[b] # 0 =>
                            pairs'[b][currentRound[b]] = pairs[b][currentRound[b]]
    OBVIOUS
  <2>1. currentRound[b] # 0 => currentRound[b] \in Versions
    BY RoundsAssumption DEF TypeOK, Versions
  <2> QED BY <2>1, PublishEffect
<1>7. MirrorsSource'
  <2> SUFFICES ASSUME NEW t \in Activities, ReuseFrom[t] # NoActivity
               PROVE  LET s == ReuseFrom[t] IN
                      /\ (currentRound'[t] = 0) = (currentRound'[s] = 0)
                      /\ currentRound'[s] # 0 =>
                            pairs'[t][currentRound'[t]] = pairs'[s][currentRound'[s]]
    BY DEF MirrorsSource
  <2>1. ReuseFrom[t] \in Activities /\ ReuseFrom[ReuseFrom[t]] = NoActivity
    BY DefinitionAssumption DEF References
  <2>2. CASE ReuseFrom[t] = a
    <3>1. t \in boards /\ a \in boards
      BY <2>2 DEF ReuseTargets
    <3> QED BY <1>5, <2>2, <3>1
  <2>3. CASE ReuseFrom[t] # a
    <3>1. t \in Activities \ boards
      BY <1>1, <2>3 DEF ReuseTargets
    <3>2. ReuseFrom[t] \in Activities \ boards
      BY <2>1, <2>3, DefinitionAssumption DEF ReuseTargets, References
    <3> QED BY <1>6, <3>1, <3>2 DEF MirrorsSource
  <2> QED BY <2>2, <2>3
<1>8. \A b \in Activities, w \in Versions, p \in Pairs :
         work'[b][w][p] # "none" /\ work'[b][w][p] # work[b][w][p] =>
            /\ b \in boards /\ w = new(b) /\ p \in pairs[a][v]
            /\ currentRound[b] \in Versions
            /\ work'[b][w][p] = work[b][currentRound[b]][p]
  <2> SUFFICES ASSUME NEW b \in Activities, NEW w \in Versions, NEW p \in Pairs,
                      work'[b][w][p] # "none", work'[b][w][p] # work[b][w][p]
               PROVE  /\ b \in boards /\ w = new(b) /\ p \in pairs[a][v]
                      /\ currentRound[b] \in Versions
                      /\ work'[b][w][p] = work[b][currentRound[b]][p]
    OBVIOUS
  <2>1. currentRound[b] # 0 => currentRound[b] \in Versions
    BY RoundsAssumption DEF TypeOK, Versions
  <2> QED BY <2>1, PublishEffect
<1>9. LockedOnlyWhenClosed' /\ NoWorkBeforeOpening'
  <2>1. UNCHANGED activityStatus
    BY <1>1 DEF controlVars
  <2> QED BY <1>8, <2>1 DEF LockedOnlyWhenClosed, NoWorkBeforeOpening
<1>10. WorkOnAssignments'
  <2> SUFFICES ASSUME NEW b \in Activities, NEW w \in Versions, NEW p \in Pairs,
                      work'[b][w][p] # "none"
               PROVE  /\ p \in pairs'[b][w]
                      /\ roundStatus'[b][w] \in {"published", "superseded"}
    BY DEF WorkOnAssignments
  <2>1. CASE work'[b][w][p] # work[b][w][p]
    BY <1>8, <2>1, PublishEffect
  <2>2. CASE work'[b][w][p] = work[b][w][p]
    <3>1. p \in pairs[b][w] /\ roundStatus[b][w] \in {"published", "superseded"}
      BY <2>2 DEF WorkOnAssignments
    <3>2. b \in boards => w # new(b)
      BY <2>2, IncomingFact
    <3> QED BY <3>1, <3>2, PublishEffect
  <2> QED BY <2>1, <2>2
<1>11. FreshVersions'
  <2> SUFFICES ASSUME NEW b \in Activities
               PROVE  /\ currentRound'[b] <= latest'[b]
                      /\ \A w \in Versions : w > latest'[b] => roundStatus'[b][w] = "none"
    BY DEF FreshVersions
  <2>1. /\ latest[b] \in Nat /\ currentRound[b] \in Nat /\ Versions \subseteq Nat
        /\ currentRound[b] <= latest[b]
        /\ \A w \in Versions : w > latest[b] => roundStatus[b][w] = "none"
    BY RoundsAssumption DEF TypeOK, Versions, FreshVersions
  <2>2. CASE b \notin boards
    BY <2>1, <2>2, PublishEffect
  <2>3. CASE b = a
    <3>1. /\ latest'[b] = latest[b] /\ currentRound'[b] = new(b)
          /\ new(b) \in Nat /\ new(b) <= latest[b]
      BY <1>2, <2>1, <2>3, PublishEffect, IncomingFact
    <3>2. \A w \in Versions : w > latest[b] => w # new(b)
      BY <2>1, <3>1
    <3>3. "none" \notin Outgoing(a, b)
      BY DEF Outgoing
    <3> QED BY <2>1, <2>3, <3>1, <3>2, <3>3, PublishEffect
  <2>4. CASE b \in ReuseTargets(a)
    <3>1. /\ latest'[b] = new(b) /\ currentRound'[b] = new(b)
          /\ new(b) = latest[b] + 1
      BY <1>2, <2>4, PublishEffect DEF Incoming
    <3>2. ASSUME NEW w \in Versions, w > new(b) PROVE w # new(b) /\ w > latest[b]
      <4>1. w \in Nat /\ latest[b] \in Nat /\ new(b) = latest[b] + 1
        BY <2>1, <3>1
      <4> QED BY <3>2, <4>1
    <3>3. "none" \notin Outgoing(a, b)
      BY DEF Outgoing
    <3>4. \A w \in Versions : w > new(b) => roundStatus'[b][w] = "none"
      BY <2>1, <2>4, <3>2, <3>3, PublishEffect
    <3>5. new(b) \in Nat
      BY <2>1, <3>1
    <3> HIDE DEF new
    <3> QED BY <3>1, <3>4, <3>5
  <2> QED BY <2>2, <2>3, <2>4
<1> QED BY <1>3, <1>4, <1>7, <1>9, <1>10, <1>11

LEMMA RoundStepKeepsIInv == IInv /\ RoundStep => IInv'
<1> SUFFICES ASSUME IInv, RoundStep PROVE IInv'
  OBVIOUS
<1>1. ASSUME NEW a \in Activities, CreatePreview(a) PROVE IInv'
  BY <1>1, NewPreviewKeepsIInv DEF CreatePreview
<1>2. ASSUME NEW a \in Activities, EditPublished(a) PROVE IInv'
  <2>1. PublishedRound(a) \in Versions
    BY <1>2, PublishedRoundFact, RoundsAssumption DEF EditPublished, IInv, TypeOK, Versions
  <2>2. pairs[a][PublishedRound(a)] \in SUBSET Pairs
    BY <2>1 DEF IInv, TypeOK
  <2> QED BY <1>2, <2>2, NewPreviewKeepsIInv DEF EditPublished
<1>3. ASSUME NEW a \in Activities, NEW v \in Versions, NEW ps \in SUBSET Pairs,
             EditPreview(a, v, ps)
      PROVE  IInv'
  BY <1>3, EditPreviewKeepsIInv
<1>4. ASSUME NEW a \in Activities, NEW v \in Versions, Publish(a, v) PROVE IInv'
  BY <1>4, PublishKeepsIInv
<1> QED BY <1>1, <1>2, <1>3, <1>4 DEF RoundStep

LEMMA NextKeepsIInv == IInv /\ [Next]_vars => IInv'
<1> SUFFICES ASSUME IInv, [Next]_vars PROVE IInv'
  OBVIOUS
<1>1. CASE Next
  BY <1>1, RoundStepKeepsIInv, EvaluationStepKeepsIInv, ControlStepKeepsIInv DEF Next
<1>2. CASE UNCHANGED vars
  <2>1. UNCHANGED controlVars /\ UNCHANGED roundVars /\ UNCHANGED work
    BY <1>2 DEF vars
  <2>2. TypeOK'
    BY <2>1 DEF controlVars, roundVars, IInv, TypeOK, Control!TypeOK
  <2> QED
    BY <2>1, <2>2 DEF controlVars, roundVars, IInv, PublishedIsCurrent, MirrorsSource,
       LockedOnlyWhenClosed, WorkOnAssignments, FreshVersions, NoWorkBeforeOpening
<1> QED BY <1>1, <1>2

(* The inductive invariant holds in every state of every definition.        *)
THEOREM SpecIInv == Spec => []IInv
<1>1. Init => IInv
  BY InitEstablishesIInv
<1>2. IInv /\ [Next]_vars => IInv'
  BY NextKeepsIInv
<1> QED BY <1>1, <1>2, PTL DEF Spec

(* Rounds, versions and evaluations have their types.                       *)
THEOREM RoundsTypeCorrect == Spec => []TypeOK
<1>1. IInv => TypeOK
  BY DEF IInv
<1> QED BY <1>1, SpecIInv, PTL

(* The round evaluators reach through the activity is the published one,    *)
(* whatever previews, edits and publications came before.                   *)
THEOREM PublishedRoundIsCurrent == Spec => []PublishedIsCurrent
<1>1. IInv => PublishedIsCurrent
  BY DEF IInv
<1> QED BY <1>1, SpecIInv, PTL

(* Activities that reuse assignments always show their source's pairs.      *)
THEOREM CopiesMirrorTheirSource == Spec => []MirrorsSource
<1>1. IInv => MirrorsSource
  BY DEF IInv
<1> QED BY <1>1, SpecIInv, PTL

(* No open activity holds a locked evaluation, so every evaluation of an    *)
(* open activity may still be changed by its evaluator.                     *)
THEOREM LocksFollowClosing == Spec => []LockedOnlyWhenClosed
<1>1. IInv => LockedOnlyWhenClosed
  BY DEF IInv
<1> QED BY <1>1, SpecIInv, PTL

-----------------------------------------------------------------------------
(* One step takes an evaluation out of the results only as its evaluator's  *)
(* draft.                                                                   *)
KeptByStep ==
    \A a \in Activities, p \in Pairs :
        (Counts(a, p) /\ ~Counts(a, p)') =>
            /\ activityStatus[a] = "open"
            /\ currentRound'[a] = currentRound[a]
            /\ work'[a][currentRound[a]][p] = "draft"

(* A step that leaves the rounds alone and turns counting evaluations into  *)
(* counting ones loses none.                                                *)
LEMMA RelabellingKeeps ==
    ASSUME IInv, UNCHANGED roundVars,
           \A a \in Activities, v \in Versions, p \in Pairs :
              work[a][v][p] \in Counting => work'[a][v][p] \in Counting
    PROVE  KeptByStep
<1>1. \A a \in Activities : currentRound[a] # 0 => currentRound[a] \in Versions
  BY RoundsAssumption DEF IInv, TypeOK, Versions
<1> QED BY <1>1 DEF KeptByStep, Counts, roundVars

LEMMA EvaluationStepKeepsWork == IInv /\ EvaluationStep => KeptByStep
<1> SUFFICES ASSUME IInv, EvaluationStep PROVE KeptByStep
  OBVIOUS
<1> USE DEF IInv
<1>1. ASSUME NEW a \in Activities, NEW p \in Pairs, NEW submit \in BOOLEAN,
             SaveTask(a, p, submit)
      PROVE  KeptByStep
  <2>1. currentRound[a] \in Versions
    BY <1>1, RoundsAssumption DEF SaveTask, Reachable, TypeOK, Versions
  <2>2. \A b \in Activities, v \in Versions, q \in Pairs :
           work'[b][v][q] = IF b = a /\ v = currentRound[a] /\ q = p
                            THEN SavedStatus(submit) ELSE work[b][v][q]
    BY <1>1, <2>1 DEF SaveTask, TypeOK
  <2>3. UNCHANGED roundVars /\ activityStatus[a] = "open"
    BY <1>1 DEF SaveTask
  <2>4. \A b \in Activities : currentRound[b] # 0 => currentRound[b] \in Versions
    BY RoundsAssumption DEF TypeOK, Versions
  <2> QED
    BY <2>1, <2>2, <2>3, <2>4 DEF KeptByStep, Counts, Counting, SavedStatus, roundVars
<1>2. ASSUME NEW a \in Activities, NEW ps \in SUBSET Pairs, SimulateEvaluations(a, ps)
      PROVE  KeptByStep
  <2>1. \A b \in Activities, v \in Versions, p \in Pairs :
           work[b][v][p] \in Counting => work'[b][v][p] \in Counting
    BY <1>2 DEF SimulateEvaluations, TypeOK, Counting
  <2> QED BY <1>2, <2>1, RelabellingKeeps DEF SimulateEvaluations
<1>3. ASSUME NEW a \in Activities, NEW v \in Versions, NEW p \in Pairs,
             CorrectSubmission(a, v, p)
      PROVE  KeptByStep
  <2>1. \A b \in Activities, w \in Versions, q \in Pairs :
           work[b][w][q] \in Counting => work'[b][w][q] \in Counting
    BY <1>3 DEF CorrectSubmission, TypeOK, Counting
  <2> QED BY <1>3, <2>1, RelabellingKeeps DEF CorrectSubmission
<1> QED BY <1>1, <1>2, <1>3 DEF EvaluationStep

LEMMA ControlStepKeepsWork == IInv /\ ControlStep => KeptByStep
<1> SUFFICES ASSUME IInv, ControlStep PROVE KeptByStep
  OBVIOUS
<1>1. UNCHANGED roundVars
  BY DEF ControlStep, OpenActivity, CloseActivity, OpenGroup, CloseGroup, OpenPair,
     ClosePair, UpdateJourney, StartEventDay, BeginEnd, EndEventDay, ForgetEnd
<1>2. \/ UNCHANGED work
      \/ \E codes : Unlock(codes)
      \/ \E codes : Lock(codes)
  BY DEF ControlStep, OpenActivity, CloseActivity, OpenGroup, CloseGroup, OpenPair,
     ClosePair, UpdateJourney, StartEventDay, BeginEnd, EndEventDay, ForgetEnd
<1>3. \A a \in Activities, v \in Versions, p \in Pairs :
         work[a][v][p] \in Counting => work'[a][v][p] \in Counting
  BY <1>2 DEF Unlock, Lock, Relabel, Counting
<1> QED BY <1>1, <1>3, RelabellingKeeps

(* The blockers of publish_assignment_round are exactly what keeps counting *)
(* evaluations: what counts is on a kept pair and moves to the new round.   *)
LEMMA PublishKeepsWork ==
    ASSUME IInv, NEW a \in Activities, NEW v \in Versions, Publish(a, v)
    PROVE  KeptByStep
<1> SUFFICES ASSUME NEW b \in Activities, NEW p \in Pairs, Counts(b, p)
             PROVE  Counts(b, p)'
  BY DEF KeptByStep
<1>1. currentRound[b] \in Versions /\ currentRound[b] # 0
  BY RoundsAssumption DEF Counts, IInv, TypeOK, Versions
<1>2. PublishedRound(b) = currentRound[b]
  BY PublishedRoundFact DEF IInv
<1>3. CASE b \notin {a} \cup ReuseTargets(a)
  BY <1>1, <1>3, PublishEffect DEF Counts
<1>4. CASE b \in {a} \cup ReuseTargets(a)
  <2>1. p \in pairs[a][v]
    BY <1>1, <1>2, <1>4 DEF Publish, Blocked, Counts
  <2>2. /\ Incoming(a, v, b) \in Versions /\ Incoming(a, v, b) # 0
        /\ currentRound'[b] = Incoming(a, v, b)
    BY <1>4, PublishEffect, IncomingFact, RoundsAssumption DEF Versions
  <2>3. /\ pairs'[b][Incoming(a, v, b)] = pairs[a][v]
        /\ work'[b][Incoming(a, v, b)][p] = work[b][currentRound[b]][p]
    BY <1>1, <1>4, <2>1, <2>2, PublishEffect
  <2> QED BY <2>1, <2>2, <2>3 DEF Counts
<1> QED BY <1>3, <1>4

LEMMA RoundStepKeepsWork == IInv /\ RoundStep => KeptByStep
<1> SUFFICES ASSUME IInv, RoundStep PROVE KeptByStep
  OBVIOUS
<1>1. ASSUME NEW a \in Activities, NEW v \in Versions, NEW ps,
             /\ \A b \in Activities : currentRound[b] # 0 /\ b = a => currentRound[b] # v
             /\ UNCHANGED <<currentRound, work>>
             /\ pairs' = [pairs EXCEPT ![a][v] = ps]
      PROVE  KeptByStep
  <2>1. \A b \in Activities : currentRound[b] # 0 =>
           pairs'[b][currentRound[b]] = pairs[b][currentRound[b]]
    BY <1>1, RoundsAssumption DEF IInv, TypeOK, Versions
  <2> QED BY <1>1, <2>1 DEF KeptByStep, Counts
<1>2. ASSUME NEW a \in Activities, NEW ps \in SUBSET Pairs, NewPreview(a, ps)
      PROVE  KeptByStep
  <2>1. /\ latest[a] + 1 \in Versions
        /\ currentRound[a] # latest[a] + 1
    BY <1>2, RoundsAssumption DEF NewPreview, IInv, TypeOK, Versions, FreshVersions
  <2> QED BY <1>1, <1>2, <2>1 DEF NewPreview
<1>3. ASSUME NEW a \in Activities, NEW v \in Versions, NEW ps \in SUBSET Pairs,
             EditPreview(a, v, ps)
      PROVE  KeptByStep
  BY <1>1, <1>3 DEF EditPreview, IInv, PublishedIsCurrent
<1>4. ASSUME NEW a \in Activities, EditPublished(a) PROVE KeptByStep
  <2>1. pairs[a][PublishedRound(a)] \in SUBSET Pairs
    BY <1>4, PublishedRoundFact, RoundsAssumption DEF EditPublished, IInv, TypeOK, Versions
  <2> QED BY <1>2, <1>4, <2>1 DEF EditPublished
<1> QED
  BY <1>2, <1>3, <1>4, PublishKeepsWork DEF RoundStep, CreatePreview

(* A submitted evaluation leaves the results only when its own evaluator    *)
(* saves a draft over it while the activity is open: no publication, edit,  *)
(* opening, closing, correction or end of the day loses one.                *)
THEOREM SubmittedWorkIsKept == Spec => SubmittedWorkKept
<1>1. IInv /\ [Next]_vars => [KeptByStep]_vars
  BY RoundStepKeepsWork, EvaluationStepKeepsWork, ControlStepKeepsWork DEF Next
<1> QED
  BY <1>1, SpecIInv, PTL DEF Spec, SubmittedWorkKept, KeptByStep

-----------------------------------------------------------------------------
(* The activities that have a current round: ActivityControl's `assigned'.  *)
Assigned == {a \in Activities : currentRound[a] # 0}

LEMMA StepRefinesControl == IInv /\ [Next]_vars => [Control!Next]_(Control!vars)
<1> SUFFICES ASSUME IInv, [Next]_vars PROVE Control!Next \/ UNCHANGED Control!vars
  OBVIOUS
<1>1. ASSUME UNCHANGED controlVars, Assigned' = Assigned
      PROVE  UNCHANGED Control!vars
  BY <1>1 DEF controlVars, Assigned, Control!vars
<1>2. CASE UNCHANGED vars
  BY <1>1, <1>2 DEF vars, roundVars, Assigned
<1>3. CASE EvaluationStep
  <2>1. UNCHANGED <<controlVars, roundVars>>
    BY <1>3 DEF EvaluationStep, SaveTask, SimulateEvaluations, CorrectSubmission
  <2> QED BY <1>1, <2>1 DEF roundVars, Assigned
<1>4. CASE ControlStep
  BY <1>4 DEF ControlStep, OpenActivity, CloseActivity, OpenGroup, CloseGroup, OpenPair,
     ClosePair, UpdateJourney, StartEventDay, BeginEnd, EndEventDay,
     ForgetEnd, Control!Next,
     ParallelGroups, Control!ParallelGroups, GroupMembers, Control!GroupMembers
<1>5. ASSUME NEW a \in Activities, NEW ps, NewPreview(a, ps) PROVE UNCHANGED Control!vars
  BY <1>1, <1>5 DEF NewPreview, Assigned
<1>6. ASSUME NEW a \in Activities, NEW v \in Versions, NEW ps, EditPreview(a, v, ps)
      PROVE  UNCHANGED Control!vars
  BY <1>1, <1>6 DEF EditPreview, Assigned
<1>7. ASSUME NEW a \in Activities, NEW v \in Versions, Publish(a, v) PROVE Control!Next
  <2>1. ReuseFrom[a] = NoActivity /\ UNCHANGED controlVars
    BY <1>7 DEF Publish
  <2>2. \A b \in {a} \cup ReuseTargets(a) : Incoming(a, v, b) # 0 /\ b \in Activities
    BY <1>7, IncomingFact, RoundsAssumption DEF Versions
  <2>3. Assigned' = Assigned \cup {a} \cup ReuseTargets(a)
    <3>1. \A b \in Activities :
             currentRound'[b] = IF b \in {a} \cup ReuseTargets(a) THEN Incoming(a, v, b)
                                ELSE currentRound[b]
      BY <1>7, PublishEffect
    <3> QED BY <2>2, <3>1 DEF Assigned
  <2>4. Control!PublishAssignments(a)
    BY <2>1, <2>3 DEF Control!PublishAssignments, controlVars, Assigned,
       ReuseTargets, Control!ReuseTargets
  <2> QED BY <2>4 DEF Control!Next
<1>8. CASE RoundStep
  BY <1>5, <1>6, <1>7, <1>8 DEF RoundStep, CreatePreview, EditPublished
<1> QED BY <1>2, <1>3, <1>4, <1>8 DEF Next

(* Seen from the activities, rounds and evaluations add nothing:            *)
(* ActivityControl's theorems hold of the whole.                            *)
THEOREM ControlIsImplemented == Spec => ImplementsControl
<1>1. Init => Control!Init
  BY DEF Init
<1>2. IInv /\ [Next]_vars => [Control!Next]_(Control!vars)
  BY StepRefinesControl
<1> QED BY <1>1, <1>2, SpecIInv, PTL DEF Spec, ImplementsControl, Control!Spec

-----------------------------------------------------------------------------
(* The rounds as EvaluationBoard sees them.                                 *)
BoardView == [a \in Activities |-> BoardOf(a)]
ProgressView == [a \in Activities |-> [p \in Pairs |-> ProgressOf(a, p)]]

LEMMA CurrentVersion ==
    ASSUME TypeOK, NEW a \in Activities, currentRound[a] # 0
    PROVE  currentRound[a] \in Versions
BY RoundsAssumption DEF TypeOK, Versions

(* Working rounds are invisible.                                            *)
LEMMA PreviewsAreInvisible ==
    ASSUME IInv, NEW a \in Activities, NEW v \in Versions, NEW ps, currentRound[a] # v,
           UNCHANGED <<controlVars, currentRound, work>>,
           pairs' = [pairs EXCEPT ![a][v] = ps]
    PROVE  UNCHANGED Board!vars
<1>1. \A b \in Activities : BoardOf(b)' = BoardOf(b)
  BY CurrentVersion DEF BoardOf, IInv, TypeOK
<1>2. \A b \in Activities, p \in Pairs : ProgressOf(b, p)' = ProgressOf(b, p)
  BY DEF ProgressOf
<1> QED BY <1>1, <1>2 DEF Board!vars, controlVars, Control!OpenActivities

(* A handler of the lifecycle only relabels work that is done as done.      *)
LEMMA ControlStepIsSchedule ==
    IInv /\ ControlStep => Board!Schedule
<1> SUFFICES ASSUME IInv, ControlStep PROVE Board!Schedule
  OBVIOUS
<1>1. UNCHANGED roundVars
  BY DEF ControlStep, OpenActivity, CloseActivity, OpenGroup, CloseGroup, OpenPair,
     ClosePair, UpdateJourney, StartEventDay, BeginEnd, EndEventDay, ForgetEnd
<1>2. \/ UNCHANGED work
      \/ \E codes : Unlock(codes)
      \/ \E codes : Lock(codes)
  BY DEF ControlStep, OpenActivity, CloseActivity, OpenGroup, CloseGroup, OpenPair,
     ClosePair, UpdateJourney, StartEventDay, BeginEnd, EndEventDay, ForgetEnd
<1>3. \A a \in Activities, v \in Versions, p \in Pairs :
         \/ work'[a][v][p] = work[a][v][p]
         \/ work[a][v][p] \in Counting /\ work'[a][v][p] \in Counting
  BY <1>2 DEF Unlock, Lock, Relabel, Counting
<1>4. \A a \in Activities : BoardOf(a)' = BoardOf(a)
  BY <1>1 DEF BoardOf, roundVars
<1>5. \A a \in Activities, p \in Pairs : ProgressOf(a, p)' = ProgressOf(a, p)
  BY <1>1, <1>3, CurrentVersion DEF ProgressOf, roundVars, IInv
<1>6. (Control!OpenActivities)' \in SUBSET Activities
  BY DEF Control!OpenActivities
<1> QED BY <1>4, <1>5, <1>6 DEF Board!Schedule

LEMMA EvaluationStepRefinesBoard ==
    IInv /\ EvaluationStep => [Board!Next]_(Board!vars)
<1> SUFFICES ASSUME IInv, EvaluationStep PROVE Board!Next \/ UNCHANGED Board!vars
  OBVIOUS
<1> USE DEF IInv
<1>1. /\ UNCHANGED Control!OpenActivities
      /\ \A a \in Activities : BoardOf(a)' = BoardOf(a)
      /\ UNCHANGED <<currentRound, BoardView>>
  BY DEF EvaluationStep, SaveTask, SimulateEvaluations, CorrectSubmission, controlVars,
     roundVars, Control!OpenActivities, BoardOf, BoardView
<1>2. ASSUME NEW a \in Activities, NEW p \in Pairs, NEW submit \in BOOLEAN,
             SaveTask(a, p, submit)
      PROVE  Board!Next
  <2> DEFINE result == IF submit THEN "done" ELSE "draft"
  <2>1. currentRound[a] \in Versions /\ currentRound[a] # 0
    BY <1>2, CurrentVersion DEF SaveTask, Reachable
  <2>2. \A b \in Activities, q \in Pairs :
           ProgressOf(b, q)' = IF b = a /\ q = p THEN result ELSE ProgressOf(b, q)
    BY <1>1, <1>2, <2>1, CurrentVersion
       DEF SaveTask, SavedStatus, ProgressOf, Counting, TypeOK
  <2>3. ProgressView' = [ProgressView EXCEPT ![a][p] = result]
    BY <2>2 DEF ProgressView
  <2>4. a \in Control!OpenActivities /\ p \in BoardOf(a)
    BY <1>2 DEF SaveTask, Reachable, Control!OpenActivities, BoardOf
  <2>5. Board!Work(a, p, result)
    BY <1>1, <2>3, <2>4 DEF Board!Work, ProgressView, BoardView
  <2> QED BY <2>5 DEF Board!Next
<1>3. ASSUME NEW a \in Activities, NEW ps \in SUBSET Pairs, SimulateEvaluations(a, ps)
      PROVE  Board!Next
  <2>1. currentRound[a] \in Versions /\ currentRound[a] # 0
    BY <1>3, CurrentVersion DEF SimulateEvaluations
  <2>2. \A b \in Activities, q \in Pairs :
           ProgressOf(b, q)' = IF b = a /\ q \in ps THEN "done" ELSE ProgressOf(b, q)
    BY <1>1, <1>3, <2>1, CurrentVersion
       DEF SimulateEvaluations, ProgressOf, Counting, TypeOK
  <2>3. ProgressView' = [ProgressView EXCEPT ![a] =
                            [q \in Pairs |-> IF q \in ps THEN "done" ELSE @[q]]]
    BY <2>2 DEF ProgressView
  <2>4. a \in Control!OpenActivities /\ ps \subseteq BoardOf(a)
    BY <1>3 DEF SimulateEvaluations, Control!OpenActivities, BoardOf
  <2>5. Board!FinishAll(a, ps)
    BY <1>1, <2>3, <2>4 DEF Board!FinishAll, ProgressView, BoardView
  <2> QED BY <2>5 DEF Board!Next
<1>4. ASSUME NEW a \in Activities, NEW v \in Versions, NEW p \in Pairs,
             CorrectSubmission(a, v, p)
      PROVE  Board!Next \/ UNCHANGED Board!vars
  <2>1. CASE currentRound[a] = v
    <3>1. currentRound[a] # 0
      BY <2>1, RoundsAssumption DEF Versions
    <3>2. \A b \in Activities, q \in Pairs :
             ProgressOf(b, q)' = IF b = a /\ q = p THEN "done" ELSE ProgressOf(b, q)
      BY <1>1, <1>4, <2>1, <3>1, CurrentVersion
         DEF CorrectSubmission, ProgressOf, Counting, TypeOK
    <3>3. ProgressView' = [ProgressView EXCEPT ![a][p] = "done"]
      BY <3>2 DEF ProgressView
    <3>4. ProgressView[a][p] # "none"
      BY <1>4, <2>1, <3>1 DEF CorrectSubmission, ProgressView, ProgressOf, Counting
    <3>5. Board!Correct(a, p)
      BY <1>1, <3>3, <3>4 DEF Board!Correct, ProgressView, BoardView
    <3> QED BY <3>5 DEF Board!Next
  <2>2. CASE currentRound[a] # v
    <3>1. \A b \in Activities, q \in Pairs : ProgressOf(b, q)' = ProgressOf(b, q)
      BY <1>1, <1>4, <2>2, CurrentVersion DEF CorrectSubmission, ProgressOf, TypeOK
    <3> QED BY <1>1, <3>1 DEF Board!vars
  <2> QED BY <2>1, <2>2
<1> QED BY <1>2, <1>3, <1>4 DEF EvaluationStep

(* Publishing is one step of the boards: nothing done is dropped, what is   *)
(* dropped is forgotten, what stays keeps its progress.                     *)
LEMMA PublishRefinesBoard ==
    ASSUME IInv, NEW a \in Activities, NEW v \in Versions, Publish(a, v)
    PROVE  Board!Next
<1> USE DEF IInv
<1> DEFINE ps == pairs[a][v]
<1>1. ps \in SUBSET Pairs /\ UNCHANGED Control!OpenActivities
  BY DEF Publish, TypeOK, controlVars, Control!OpenActivities
<1>2. Board!Boards(a) = {a} \cup ReuseTargets(a)
  BY DEF Board!Boards, ReuseTargets
<1>3. \A b \in Activities : b \in Board!Boards(a) =>
         /\ currentRound'[b] = Incoming(a, v, b)
         /\ Incoming(a, v, b) \in Versions /\ Incoming(a, v, b) # 0
         /\ \A p \in Pairs : work[b][Incoming(a, v, b)][p] = "none"
  BY <1>2, PublishEffect, IncomingFact, RoundsAssumption DEF Versions
<1>4. \A b \in Activities :
         BoardOf(b)' = IF b \in Board!Boards(a) THEN ps ELSE BoardOf(b)
  BY <1>2, <1>3, PublishEffect, CurrentVersion DEF BoardOf
<1>5. \A b \in Activities, p \in Pairs :
         ProgressOf(b, p)' = IF b \in Board!Boards(a) /\ p \notin ps
                             THEN "none" ELSE ProgressOf(b, p)
  <2> SUFFICES ASSUME NEW b \in Activities, NEW p \in Pairs
               PROVE  ProgressOf(b, p)' = IF b \in Board!Boards(a) /\ p \notin ps
                                          THEN "none" ELSE ProgressOf(b, p)
    OBVIOUS
  <2>1. CASE b \notin Board!Boards(a)
    BY <1>2, <2>1, PublishEffect, CurrentVersion DEF ProgressOf
  <2>2. CASE b \in Board!Boards(a)
    <3>1. work'[b][Incoming(a, v, b)][p] =
             IF currentRound[b] = 0 \/ p \notin ps THEN "none"
             ELSE work[b][currentRound[b]][p]
      BY <1>2, <1>3, <2>2, PublishEffect
    <3> QED BY <1>3, <2>2, <3>1 DEF ProgressOf, Counting
  <2> QED BY <2>1, <2>2
<1>6. \A b \in Board!Boards(a), p \in Pairs \ ps : ProgressOf(b, p) # "done"
  <2> SUFFICES ASSUME NEW b \in {a} \cup ReuseTargets(a), NEW p \in Pairs \ ps
               PROVE  ProgressOf(b, p) # "done"
    BY <1>2
  <2>1. b \in Activities
    BY IncomingFact
  <2>1b. ~Blocked(b, ps)
    BY DEF Publish
  <2>2. PublishedRound(b) = currentRound[b]
    BY <2>1, PublishedRoundFact
  <2>3. currentRound[b] # 0 => work[b][currentRound[b]][p] \notin Counting
    BY <2>2, <2>1b DEF Blocked
  <2>4. currentRound[b] # 0 => work[b][currentRound[b]][p] \in WorkStatuses
    BY <2>1, CurrentVersion DEF TypeOK
  <2> QED BY <2>3, <2>4 DEF ProgressOf, WorkStatuses
<1>7. BoardView' = [b \in Activities |-> IF b \in Board!Boards(a) THEN ps ELSE BoardView[b]]
  BY <1>4 DEF BoardView
<1>8. ProgressView' = [b \in Activities |-> [p \in Pairs |->
                          IF b \in Board!Boards(a) /\ p \notin ps
                          THEN "none" ELSE ProgressView[b][p]]]
  BY <1>5 DEF ProgressView
<1>9. \A b \in Board!Boards(a), p \in Pairs \ ps : ProgressView[b][p] # "done"
  <2>1. \A b \in Board!Boards(a) : b \in Activities
    BY <1>2, IncomingFact
  <2> QED BY <1>6, <2>1 DEF ProgressView
<1>10. Board!Publish(a, ps)
  BY <1>1, <1>7, <1>8, <1>9 DEF Board!Publish, BoardView, ProgressView
<1> QED BY <1>1, <1>10 DEF Board!Next

(* Versioned rounds, moved submissions and copied activities implement one  *)
(* board per activity, whose publication never drops finished work.         *)
THEOREM BoardIsImplemented == Spec => ImplementsBoard
<1>1. Init => Board!Init
  BY DEF Init, Board!Init, BoardOf, ProgressOf, Control!Init, Control!OpenActivities
<1>2. IInv /\ [Next]_vars => [Board!Next]_(Board!vars)
  <2> SUFFICES ASSUME IInv, [Next]_vars PROVE Board!Next \/ UNCHANGED Board!vars
    OBVIOUS
  <2>1. CASE ControlStep
    BY <2>1, ControlStepIsSchedule DEF Board!Next
  <2>2. CASE EvaluationStep
    BY <2>2, EvaluationStepRefinesBoard
  <2>3. ASSUME NEW a \in Activities, NEW ps, NewPreview(a, ps) PROVE UNCHANGED Board!vars
    <3>1. /\ latest[a] + 1 \in Versions
          /\ currentRound[a] # latest[a] + 1
      BY <2>3, RoundsAssumption DEF NewPreview, IInv, TypeOK, Versions, FreshVersions
    <3> QED BY <2>3, <3>1, PreviewsAreInvisible DEF NewPreview
  <2>4. ASSUME NEW a \in Activities, NEW v \in Versions, NEW ps, EditPreview(a, v, ps)
        PROVE  UNCHANGED Board!vars
    <3>1. currentRound[a] # v
      BY <2>4 DEF EditPreview, IInv, PublishedIsCurrent
    <3> QED BY <2>4, <3>1, PreviewsAreInvisible DEF EditPreview
  <2>5. CASE RoundStep
    BY <2>3, <2>4, <2>5, PublishRefinesBoard DEF RoundStep, CreatePreview, EditPublished
  <2>6. CASE UNCHANGED vars
    <3>1. UNCHANGED controlVars /\ UNCHANGED roundVars /\ UNCHANGED work
      BY <2>6 DEF vars
    <3>2. \A a \in Activities : BoardOf(a)' = BoardOf(a)
      BY <3>1 DEF roundVars, BoardOf
    <3>3. \A a \in Activities, p \in Pairs : ProgressOf(a, p)' = ProgressOf(a, p)
      BY <3>1 DEF roundVars, ProgressOf
    <3> QED BY <3>1, <3>2, <3>3 DEF controlVars, Control!OpenActivities, Board!vars
  <2> QED BY <2>1, <2>2, <2>5, <2>6 DEF Next
<1> QED BY <1>1, <1>2, SpecIInv, PTL DEF Spec, ImplementsBoard, Board!Spec
=============================================================================
