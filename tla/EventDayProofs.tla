---------------------------- MODULE EventDayProofs ----------------------------
(***************************************************************************)
(* Proofs about the day: the lifecycle of the activities for every         *)
(* definition that DefinitionAssumption and PairedAssumption describe (all *)
(* those validate_definition of app/assessment_config.py accepts), the     *)
(* protection of the event, the attendance of a recruit, and the day they  *)
(* make up together.                                                       *)
(***************************************************************************)
EXTENDS MCEventDay, TLAPS

(***************************************************************************)
(* The lifecycle of the activities.                                        *)
(***************************************************************************)

(* The four invariants are inductive together: StageOrder needs OneStageOpen *)
(* because a reopened predecessor is compared with one open activity only.   *)
LifecycleInv ==
    /\ TypeOK
    /\ OneStageOpen
    /\ CurrentActivityIsOpen
    /\ StageOrder

(* Members of one parallel group may run together.                           *)
LEMMA MembersShareGroup ==
    ASSUME NEW g \in Activities, NEW a \in GroupMembers(g), NEW b \in GroupMembers(g)
    PROVE  SameGroup(a, b)
  BY DefinitionAssumption DEF GroupMembers, SameGroup

(* The paired stage holds whole groups.                                      *)
LEMMA StageHoldsGroups ==
    ASSUME NEW a \in Activities, NEW b \in PairedStage, SameGroup(a, b)
    PROVE  a \in PairedStage
  BY DEF PairedStage, SameGroup

LEMMA StageIsSymmetric ==
    ASSUME NEW a, NEW b, OneStage(a, b)
    PROVE  OneStage(b, a)
  BY DEF OneStage, SameGroup

(* The paired activities are activities, and of the paired stage.            *)
LEMMA PairIsOneStage ==
    ASSUME PairedActivities # {}
    PROVE  /\ PairedActivities \subseteq PairedStage /\ PairedStage \subseteq Activities
           /\ PairedLead \in PairedActivities
           /\ \A a, b \in PairedActivities : OneStage(a, b)
  BY PairedAssumption DEF PairedStage, OneStage

(* When some of a group are closed, whatever else is open is of the paired   *)
(* stage, whose paired activities are then not exactly one group.            *)
LEMMA GroupLeavesStage ==
    ASSUME NEW g \in ParallelGroups, NEW c \in GroupMembers(g),
           NEW r \in Activities \ GroupMembers(g), OneStage(c, r)
    PROVE  r \in PairedStage /\ ~PairStandsAlone
<1>1. ~SameGroup(c, r) /\ c # r
  BY DEF GroupMembers, SameGroup
<1>2. c \in PairedStage /\ r \in PairedStage
  BY <1>1 DEF OneStage
<1>3. PICK p \in PairedActivities : c = p \/ SameGroup(c, p)
  BY <1>2 DEF PairedStage
<1>4. PICK q \in PairedActivities : r = q \/ SameGroup(r, q)
  BY <1>2 DEF PairedStage
<1>5. p \in GroupMembers(g)
  BY <1>3, PairedAssumption DEF GroupMembers, SameGroup
<1>6. q \notin GroupMembers(g)
  BY <1>4 DEF GroupMembers, SameGroup
<1>7. QED
  BY <1>2, <1>5, <1>6 DEF PairStandsAlone

LEMMA PairLeavesStage ==
    ASSUME NEW c \in PairedActivities, NEW r \in Activities \ PairedActivities, OneStage(c, r)
    PROVE  r \in PairedStage /\ ~PairStandsAlone
<1>1. c \in Activities
  BY PairedAssumption
<1>2. r \in PairedStage
  BY <1>1 DEF OneStage, PairedStage, SameGroup
<1>3. PICK p \in PairedActivities : SameGroup(r, p)
  BY <1>2 DEF PairedStage
<1> DEFINE g == ParallelGroup[p]
<1>4. p \in Activities /\ g \in Activities /\ ParallelGroup[g] = g
  BY <1>3, PairedAssumption, DefinitionAssumption DEF SameGroup, References
<1>5. p \in GroupMembers(g) /\ r \in GroupMembers(g) /\ p # r
  BY <1>3, <1>4 DEF GroupMembers, SameGroup
<1>6. g \in ParallelGroups
  BY <1>4, <1>5 DEF ParallelGroups
<1>7. QED
  BY <1>2, <1>5, <1>6 DEF PairStandsAlone

(* A step that opens a set of activities of one stage, with no other open    *)
(* and what each must follow closed, keeps the invariant.                    *)
LEMMA OpenTogetherKeepsInv ==
    ASSUME LifecycleInv, NEW codes \in SUBSET Activities, NEW lead \in codes,
           NEW action \in Actions, NEW reason \in Reasons,
           \A a, b \in codes : OneStage(a, b),
           \A a \in codes : \/ PredecessorClosed(a)
                            \/ a \in PairedActivities /\ Predecessor[a] # PairedGate,
           OpenTogether(codes, lead, action, reason)
    PROVE  LifecycleInv'
<1>1. activityStatus' = [a \in Activities |->
                          IF a \in codes THEN "open" ELSE activityStatus[a]]
  BY DEF OpenTogether, SetStatus
<1>2. OpenActivities' = codes
  BY <1>1 DEF OpenTogether, OpenActivities
<1>3. currentActivity' = lead /\ journeyStatus' = "active"
      /\ UNCHANGED <<assigned, ending>> /\ leftCurrent' = FALSE
  BY DEF OpenTogether
<1>4. TypeOK'
  <2>1. reopenAudits' \subseteq BOOLEAN
    BY ReasonsAssumption DEF LifecycleInv, TypeOK, OpenTogether, AuditOpening
  <2>2. QED
    BY <1>1, <1>3, <2>1 DEF LifecycleInv, TypeOK, References, JourneyStatuses, ActivityStatuses
<1>5. OneStageOpen'
  BY <1>2 DEF OneStageOpen
<1>6. CurrentActivityIsOpen'
  BY <1>2, <1>3 DEF CurrentActivityIsOpen
<1>7. StageOrder'
  <2> SUFFICES ASSUME NEW a \in codes, Predecessor[a] # NoActivity,
                      ~OneStage(a, Predecessor[a]),
                      ~(a \in PairedActivities /\ Predecessor[a] # PairedGate)
               PROVE  activityStatus'[Predecessor[a]] = "closed"
    BY <1>2 DEF StageOrder
  <2>1. Predecessor[a] \in Activities /\ activityStatus[Predecessor[a]] = "closed"
    BY DefinitionAssumption DEF PredecessorClosed, References
  <2>2. Predecessor[a] \notin codes
    OBVIOUS
  <2>3. QED
    BY <1>1, <2>1, <2>2
<1>8. QED
  BY <1>4, <1>5, <1>6, <1>7 DEF LifecycleInv

(* A step that only closes activities keeps the stages and their order.      *)
LEMMA ClosingKeepsInv ==
    ASSUME LifecycleInv, NEW codes \in SUBSET OpenActivities,
           SetStatus(codes, "closed"),
           currentActivity' \in References, CurrentActivityIsOpen',
           journeyStatus' \in JourneyStatuses, leftCurrent' \in BOOLEAN,
           ending' \subseteq ending,
           UNCHANGED <<assigned, reopenAudits>>
    PROVE  LifecycleInv'
<1>1. activityStatus' = [a \in Activities |->
                          IF a \in codes THEN "closed" ELSE activityStatus[a]]
  BY DEF SetStatus
<1>2. OpenActivities' = OpenActivities \ codes
  BY <1>1 DEF OpenActivities
<1>3. TypeOK'
  BY <1>1 DEF LifecycleInv, TypeOK, ActivityStatuses, OpenActivities
<1>4. OneStageOpen'
  BY <1>2 DEF LifecycleInv, OneStageOpen
<1>5. StageOrder'
  <2> SUFFICES ASSUME NEW a \in OpenActivities, Predecessor[a] # NoActivity,
                      ~OneStage(a, Predecessor[a]),
                      ~(a \in PairedActivities /\ Predecessor[a] # PairedGate)
               PROVE  activityStatus'[Predecessor[a]] = "closed"
    BY <1>2 DEF StageOrder
  <2>1. activityStatus[Predecessor[a]] = "closed"
    BY DEF LifecycleInv, StageOrder
  <2>2. Predecessor[a] \in Activities
    BY DefinitionAssumption DEF OpenActivities, References
  <2>3. QED
    BY <1>1, <2>1, <2>2
<1>6. QED
  BY <1>3, <1>4, <1>5 DEF LifecycleInv

(* The grouped endpoints, when they close: what stays open is excused.       *)
LEMMA CloseTogetherKeepsInv ==
    ASSUME LifecycleInv, NEW codes \in SUBSET Activities, CloseTogether(codes),
           \A c \in codes, r \in Activities \ codes :
              OneStage(c, r) => r \in PairedStage /\ ~PairStandsAlone
    PROVE  LifecycleInv'
<1>1. /\ SetStatus(codes \cap OpenActivities, "closed") /\ currentActivity' = NoActivity
      /\ leftCurrent' = FALSE /\ UNCHANGED <<journeyStatus, assigned, reopenAudits, ending>>
  BY DEF CloseTogether
<1>2. PICK c \in codes : c \in OpenActivities
  BY DEF CloseTogether
<1>3. OpenActivities' = OpenActivities \ codes
  BY <1>1 DEF SetStatus, OpenActivities
<1>4. \A r \in OpenActivities \ codes : r \in PairedStage /\ ~PairStandsAlone
  BY <1>2 DEF LifecycleInv, OneStageOpen, OpenActivities
<1>5. CurrentActivityIsOpen'
  BY <1>1, <1>3, <1>4 DEF CurrentActivityIsOpen
<1>6. codes \cap OpenActivities \in SUBSET OpenActivities
  OBVIOUS
<1>7. /\ currentActivity' \in References /\ leftCurrent' \in BOOLEAN /\ ending' \subseteq ending
      /\ journeyStatus' \in JourneyStatuses
  BY <1>1 DEF LifecycleInv, TypeOK, References
<1>8. QED
  BY <1>1, <1>5, <1>6, <1>7, ClosingKeepsInv

(* Opening one activity beside whichever open activity the query returned.   *)
LEMMA OpenActivityKeepsInv ==
    ASSUME LifecycleInv, NEW a \in Activities, NEW action \in Actions, NEW reason \in Reasons,
           OpenActivity(a, action, reason)
    PROVE  LifecycleInv'
<1>1. activityStatus' = [b \in Activities |->
                          IF b \in {a} THEN "open" ELSE activityStatus[b]]
  BY DEF OpenActivity, SetStatus
<1>2. OpenActivities' = OpenActivities \cup {a}
  BY <1>1 DEF OpenActivities
<1>3. journeyStatus' = "active" /\ leftCurrent' = FALSE /\ UNCHANGED <<assigned, ending>>
  BY DEF OpenActivity
<1>4. currentActivity' \in OpenActivities'
  BY <1>2 DEF OpenActivity
<1>5. \A b \in OpenActivities \ {a} : OneStage(a, b)
  <2>1. CASE OpenActivities \ {a} = {}
    BY <2>1
  <2>2. ASSUME NEW another \in OpenActivities \ {a}, CanRunTogether(a, another),
               NEW b \in OpenActivities \ {a}
        PROVE  OneStage(a, b)
    <3>1. OneStage(b, another) /\ SameGroup(a, another)
      BY <2>2 DEF LifecycleInv, OneStageOpen, CanRunTogether
    <3>2. CASE b = another \/ SameGroup(b, another)
      BY <3>1, <3>2 DEF OneStage, SameGroup
    <3>3. CASE {b, another} \subseteq PairedStage
      BY <3>1, <3>3, StageHoldsGroups DEF OneStage
    <3>4. QED
      BY <3>1, <3>2, <3>3 DEF OneStage
  <2>3. QED
    BY <2>1, <2>2 DEF OpenActivity
<1>6. TypeOK'
  <2>1. reopenAudits' \subseteq BOOLEAN
    BY ReasonsAssumption DEF LifecycleInv, TypeOK, OpenActivity, AuditOpening
  <2>2. currentActivity' \in Activities
    BY <1>4 DEF OpenActivities
  <2>3. QED
    BY <1>1, <1>3, <2>1, <2>2 DEF LifecycleInv, TypeOK, References, JourneyStatuses, ActivityStatuses
<1>7. OneStageOpen'
  <2>1. OneStage(a, a)
    BY DEF OneStage
  <2>2. QED
    BY <1>2, <1>5, <2>1, StageIsSymmetric DEF LifecycleInv, OneStageOpen
<1>8. CurrentActivityIsOpen'
  BY <1>4 DEF CurrentActivityIsOpen
<1>9. StageOrder'
  <2> SUFFICES ASSUME NEW b \in OpenActivities \cup {a}, Predecessor[b] # NoActivity,
                      ~OneStage(b, Predecessor[b]),
                      ~(b \in PairedActivities /\ Predecessor[b] # PairedGate)
               PROVE  activityStatus'[Predecessor[b]] = "closed"
    BY <1>2 DEF StageOrder
  <2>1. Predecessor[b] \in Activities
    BY DefinitionAssumption DEF OpenActivities, References
  <2>2. activityStatus[Predecessor[b]] = "closed"
    BY DEF LifecycleInv, StageOrder, OpenActivity, PredecessorClosed
  <2>3. Predecessor[b] # a
    <3>1. CASE b = a
      BY <3>1, DefinitionAssumption
    <3>2. CASE b # a
      BY <3>2, <1>5, StageIsSymmetric
    <3>3. QED
      BY <3>1, <3>2
  <2>4. QED
    BY <1>1, <2>1, <2>2, <2>3
<1>10. QED
  BY <1>6, <1>7, <1>8, <1>9 DEF LifecycleInv

(* The end of the day closes everything; whatever it leaves as the current   *)
(* activity, its history says so.                                            *)
LEMMA EndedKeepsInv ==
    ASSUME LifecycleInv, NEW read \in [completed : BOOLEAN, idle : BOOLEAN], Ended(read),
           ending' \subseteq ending
    PROVE  LifecycleInv'
<1>1. /\ SetStatus(OpenActivities, "closed") /\ UNCHANGED <<assigned, reopenAudits>>
      /\ journeyStatus' \in {journeyStatus, "completed"}
      /\ currentActivity' \in {currentActivity, NoActivity}
      /\ leftCurrent' = (currentActivity' # NoActivity)
  BY DEF Ended
<1>2. OpenActivities' = {}
  BY <1>1 DEF SetStatus, OpenActivities
<1>3. CurrentActivityIsOpen'
  BY <1>1, <1>2 DEF CurrentActivityIsOpen
<1>4. /\ journeyStatus' \in JourneyStatuses /\ currentActivity' \in References
      /\ leftCurrent' \in BOOLEAN /\ OpenActivities \in SUBSET OpenActivities
  BY <1>1 DEF LifecycleInv, TypeOK, JourneyStatuses, References
<1>5. QED
  BY <1>1, <1>3, <1>4, ClosingKeepsInv

(* What a request for the end of the day reads of the Journee.               *)
LEMMA SeenIsTyped == Seen \in [completed : BOOLEAN, idle : BOOLEAN]
<1>1. (journeyStatus = "completed") \in BOOLEAN /\ (currentActivity = NoActivity) \in BOOLEAN
  OBVIOUS
<1>2. QED
  BY <1>1 DEF Seen

LEMMA InitEstablishesLifecycle == Init => LifecycleInv
  BY DEF Init, LifecycleInv, TypeOK, References, JourneyStatuses, ActivityStatuses,
         OneStageOpen, CurrentActivityIsOpen, StageOrder, OpenActivities

LEMMA LifecycleStep == LifecycleInv /\ [Next]_vars => LifecycleInv'
<1> SUFFICES ASSUME LifecycleInv, [Next]_vars
             PROVE  LifecycleInv'
  OBVIOUS
<1>1. ASSUME NEW a \in Activities, NEW action \in Actions, NEW reason \in Reasons,
             OpenActivity(a, action, reason)
      PROVE  LifecycleInv'
  BY <1>1, OpenActivityKeepsInv
<1>2. ASSUME NEW a \in Activities, CloseActivity(a)
      PROVE  LifecycleInv'
  <2>1. {a} \in SUBSET OpenActivities
    BY <1>2 DEF CloseActivity, OpenActivities
  <2>2. SetStatus({a}, "closed") /\ leftCurrent' = FALSE
        /\ UNCHANGED <<journeyStatus, assigned, reopenAudits, ending>>
    BY <1>2 DEF CloseActivity
  <2>3. OpenActivities' = OpenActivities \ {a}
    BY <2>2 DEF SetStatus, OpenActivities
  <2>4. CurrentActivityIsOpen' /\ currentActivity' \in References
    BY <1>2, <2>3 DEF CloseActivity, CurrentActivityIsOpen, References, OpenActivities
  <2>5. journeyStatus' \in JourneyStatuses /\ leftCurrent' \in BOOLEAN /\ ending' \subseteq ending
    BY <2>2 DEF LifecycleInv, TypeOK
  <2>6. QED
    BY <2>1, <2>2, <2>4, <2>5, ClosingKeepsInv
<1>3. ASSUME NEW g \in ParallelGroups, NEW action \in Actions, NEW reason \in Reasons,
             OpenGroup(g, action, reason)
      PROVE  LifecycleInv'
  <2>1. GroupMembers(g) \in SUBSET Activities /\ g \in GroupMembers(g)
    BY DEF ParallelGroups, GroupMembers
  <2>2. \A a, b \in GroupMembers(g) : OneStage(a, b)
    BY MembersShareGroup DEF ParallelGroups, OneStage
  <2>3. \A a \in GroupMembers(g) : PredecessorClosed(a)
    BY <1>3 DEF OpenGroup
  <2>4. OpenTogether(GroupMembers(g), g, action, reason)
    BY <1>3 DEF OpenGroup
  <2>5. QED
    BY <2>1, <2>2, <2>3, <2>4, OpenTogetherKeepsInv
<1>4. ASSUME NEW g \in ParallelGroups, CloseGroup(g)
      PROVE  LifecycleInv'
  <2>1. GroupMembers(g) \in SUBSET Activities /\ CloseTogether(GroupMembers(g))
    BY <1>4 DEF GroupMembers, CloseGroup
  <2>2. QED
    BY <2>1, GroupLeavesStage, CloseTogetherKeepsInv
<1>5. ASSUME NEW action \in Actions, NEW reason \in Reasons, OpenPair(action, reason)
      PROVE  LifecycleInv'
  <2>1. PairedActivities # {}
    BY <1>5 DEF OpenPair
  <2>2. /\ PairedActivities \in SUBSET Activities /\ PairedLead \in PairedActivities
        /\ \A a, b \in PairedActivities : OneStage(a, b)
    BY <2>1, PairedAssumption, PairIsOneStage
  <2>3. \A a \in PairedActivities : Predecessor[a] = PairedGate => PredecessorClosed(a)
    BY <1>5 DEF OpenPair, PredecessorClosed
  <2>4. OpenTogether(PairedActivities, PairedLead, action, reason)
    BY <1>5 DEF OpenPair
  <2>5. QED
    BY <2>2, <2>3, <2>4, OpenTogetherKeepsInv
<1>6. ASSUME ClosePair
      PROVE  LifecycleInv'
  <2>1. CloseTogether(PairedActivities) /\ PairedActivities # {}
    BY <1>6 DEF ClosePair, CloseTogether
  <2>2. PairedActivities \in SUBSET Activities
    BY <2>1, PairedAssumption
  <2>3. QED
    BY <2>1, <2>2, PairLeavesStage, CloseTogetherKeepsInv
<1>7. ASSUME EndEventDay
      PROVE  LifecycleInv'
  <2>1. PICK read \in ending \cup {Seen} : Ended(read) /\ ending' \subseteq ending
    BY <1>7 DEF EndEventDay
  <2>2. read \in [completed : BOOLEAN, idle : BOOLEAN]
    BY SeenIsTyped DEF LifecycleInv, TypeOK
  <2>3. QED
    BY <2>1, <2>2, EndedKeepsInv
<1>8. ASSUME UNCHANGED <<currentActivity, activityStatus, leftCurrent>>, TypeOK'
      PROVE  LifecycleInv'
  BY <1>8 DEF LifecycleInv, OneStageOpen, CurrentActivityIsOpen, StageOrder, OpenActivities
<1>9. ASSUME NEW a \in Activities, PublishAssignments(a)
      PROVE  LifecycleInv'
  BY <1>8, <1>9 DEF PublishAssignments, LifecycleInv, TypeOK, ReuseTargets
<1>10. ASSUME NEW status \in JourneyStatuses, UpdateJourney(status)
       PROVE  LifecycleInv'
  BY <1>8, <1>10 DEF UpdateJourney, LifecycleInv, TypeOK
<1>11. CASE StartEventDay
  BY <1>8, <1>11 DEF StartEventDay, LifecycleInv, TypeOK, JourneyStatuses
<1>12. CASE BeginEnd
  BY <1>8, <1>12, SeenIsTyped DEF BeginEnd, LifecycleInv, TypeOK
<1>13. CASE ForgetEnd
  BY <1>8, <1>13 DEF ForgetEnd, LifecycleInv, TypeOK
<1>14. CASE UNCHANGED vars
  BY <1>8, <1>14 DEF vars, LifecycleInv, TypeOK
<1>15. QED
  BY <1>1, <1>2, <1>3, <1>4, <1>5, <1>6, <1>7, <1>9, <1>10, <1>11, <1>12, <1>13, <1>14 DEF Next

-----------------------------------------------------------------------------
(* The lifecycle keeps its invariant for every accepted definition and every *)
(* sequence of admin requests.                                               *)
THEOREM LifecycleInvariant == Spec => []LifecycleInv
  BY InitEstablishesLifecycle, LifecycleStep, PTL DEF Spec

(* Type correctness of the lifecycle.                                        *)
THEOREM TypeCorrect == Spec => []TypeOK
<1>1. LifecycleInv => TypeOK
  BY DEF LifecycleInv
<1>2. QED
  BY <1>1, LifecycleInvariant, PTL

(* All the activities open at once belong to one parallel group, or to the   *)
(* stage that the paired endpoint makes of its activities and their groups,  *)
(* although activity_action compares with one other open activity only.      *)
THEOREM EvaluatorsSeeOneStage == Spec => []OneStageOpen
<1>1. LifecycleInv => OneStageOpen
  BY DEF LifecycleInv
<1>2. QED
  BY <1>1, LifecycleInvariant, PTL

(* Journey.current_activity names an open activity exactly while one is open, *)
(* but for an end of the day that overlapped an opening, and for definitions *)
(* whose paired activities are part of a larger stage.                       *)
THEOREM CurrentActivityIsRight == Spec => []CurrentActivityIsOpen
<1>1. LifecycleInv => CurrentActivityIsOpen
  BY DEF LifecycleInv
<1>2. QED
  BY <1>1, LifecycleInvariant, PTL

(* While an activity is open its predecessor outside its stage is closed,    *)
(* but for predecessors of the paired activities other than "negotiation",   *)
(* which the paired endpoint does not ask for.                               *)
THEOREM StagesRunInOrder == Spec => []StageOrder
<1>1. LifecycleInv => StageOrder
  BY DEF LifecycleInv
<1>2. QED
  BY <1>1, LifecycleInvariant, PTL

-----------------------------------------------------------------------------
(***************************************************************************)
(* The protection of the event.                                            *)
(***************************************************************************)

(* A dispatch that is still to be made is of an activation of its own, which *)
(* GitHub knows nothing of; an activation that has not begun has no monitor. *)
DispatchesAreFresh ==
    /\ \A d \in dispatching : d.activation <= activations /\ monitors[d.activation] = "none"
    /\ \A d, e \in dispatching : d.activation = e.activation => d = e
    /\ \A a \in 1..MaxActivations : a > activations => monitors[a] = "none"

(* A read that is going to write "active" has seen the monitor of the        *)
(* activation it read, and one that is going to write a run writes that      *)
(* activation's.                                                             *)
ReadsSawTheMonitor ==
    \A j \in Journees :
        /\ "status" \in reading[j].columns /\ reading[j].status = "active"
            => reading[j].activation # 0 /\ monitors[reading[j].activation] \in Listed
        /\ "run" \in reading[j].columns => reading[j].run = reading[j].activation

(* An active row names the activation it was told of.                        *)
ActiveIsActivated ==
    \A j \in Journees \ mixed : protection[j].status = "active" => protection[j].activation # 0

ProtectionInv ==
    /\ TypeOKProtection
    /\ DispatchesAreFresh
    /\ ReadsSawTheMonitor
    /\ ActiveIsActivated
    /\ ActiveWasMonitored

(* What is true of every row that is not mixed: it is active only on a       *)
(* monitor that GitHub lists, and links to no other activation's run.        *)
RowIsTrue(p) ==
    /\ p.status = "active" => p.activation # 0 /\ monitors[p.activation] \in Listed
    /\ p.run \in {0, p.activation}

LEMMA RowsAreTrue ==
    /\ ProtectionInv => \A j \in Journees \ mixed : RowIsTrue(protection[j])
    /\ (\A j \in Journees \ mixed : RowIsTrue(protection[j]))
           => ActiveIsActivated /\ ActiveWasMonitored
  BY DEF ProtectionInv, RowIsTrue, ActiveIsActivated, ActiveWasMonitored

LEMMA InitProtectionInv == InitProtection => ProtectionInv
<1> SUFFICES ASSUME InitProtection
             PROVE  ProtectionInv
  OBVIOUS
<1> USE ProtectionAssumption
<1>1. NoProtection \in Protections /\ NoRead \in Reads
  BY DEF NoProtection, Protections, NoRead, Reads
<1>2. TypeOKProtection
  <2>1. journee \in [Journees -> JourneeStatuses]
    BY DEF InitProtection, JourneeStatuses
  <2>2. protection \in [Journees -> Protections] /\ reading \in [Journees -> Reads]
    BY <1>1 DEF InitProtection
  <2>3. dispatching = {} /\ mixed = {}
    BY DEF InitProtection
  <2>4. monitors \in [1..MaxActivations -> Listed \cup {"none", "accepted"}]
    BY DEF InitProtection
  <2>5. handling \in [Handlers -> Requests \cup {Idle}]
    BY DEF InitProtection
  <2>6. activations \in 0..MaxActivations /\ failures \in 0..MaxFailures
    BY DEF InitProtection
  <2>7. QED
    BY <2>1, <2>2, <2>3, <2>4, <2>5, <2>6 DEF TypeOKProtection
<1>3. DispatchesAreFresh
  BY DEF InitProtection, DispatchesAreFresh
<1>4. ReadsSawTheMonitor
  BY DEF InitProtection, ReadsSawTheMonitor, NoRead
<1>5. \A j \in Journees : protection[j].status = "inactive" /\ protection[j].run = 0
  BY DEF InitProtection, NoProtection
<1>6. QED
  BY <1>2, <1>3, <1>4, <1>5 DEF ProtectionInv, ActiveIsActivated, ActiveWasMonitored

(* Reading the status leaves a row of the same type, says "active" only of a *)
(* run that it saw running, and links to the run of the activation it read.  *)
LEMMA UpdateIsRead ==
    ASSUME NEW p \in Protections, NEW run \in Listed \cup {"none", "unavailable"},
           p.status \notin {"inactive", "stopped", "completed"}
    PROVE  /\ Update(p, run) \in Reads
           /\ Update(p, run).activation = p.activation
           /\ "status" \in Update(p, run).columns /\ Update(p, run).status = "active"
                => run = "running"
           /\ "run" \in Update(p, run).columns => Update(p, run).run = p.activation
<1>1. SyncedStatus(p, run) \in {"starting", "active", "incident", "completed"}
  BY DEF SyncedStatus, Protections, Listed
<1>2. SyncedRun(p, run) \in 0..MaxActivations
  BY DEF SyncedRun, Protections
<1>3. SyncedStatus(p, run) = "active" /\ SyncedStatus(p, run) # p.status => run = "running"
  BY DEF SyncedStatus, Protections, Listed
<1>4. SyncedRun(p, run) # p.run => SyncedRun(p, run) = p.activation
  BY DEF SyncedRun
<1>5. QED
  BY <1>1, <1>2, <1>3, <1>4 DEF Update, Reads, Protections

(* Marking a row changes its status or its age and nothing else.             *)
LEMMA MarkedIsTyped ==
    ASSUME protection \in [Journees -> Protections], NEW j \in Journees, NEW rows,
           rows \in {protection, [protection EXCEPT ![j].status = "incident"]}
    PROVE  /\ rows \in [Journees -> Protections]
           /\ \A k \in Journees : /\ rows[k].activation = protection[k].activation
                                  /\ rows[k].run = protection[k].run
                                  /\ rows[k].status \in {protection[k].status, "incident"}
<1>1. CASE rows = protection
  BY <1>1
<1>2. CASE rows = [protection EXCEPT ![j].status = "incident"]
  <2>1. [protection[j] EXCEPT !.status = "incident"] \in Protections
    BY DEF Protections
  <2>2. QED
    BY <1>2, <2>1 DEF Protections
<1>3. QED
  BY <1>1, <1>2

LEMMA AgedIsTyped ==
    ASSUME protection \in [Journees -> Protections], NEW j \in Journees,
           NEW age \in {"late", "over"}, NEW rows,
           rows = [protection EXCEPT ![j].age = age]
    PROVE  /\ rows \in [Journees -> Protections]
           /\ \A k \in Journees : /\ rows[k].activation = protection[k].activation
                                  /\ rows[k].run = protection[k].run
                                  /\ rows[k].status = protection[k].status
<1>1. [protection[j] EXCEPT !.age = age] \in Protections
  BY DEF Protections
<1>2. QED
  BY <1>1 DEF Protections

(* What a cancellation does to the monitors never unlists a run, and leaves  *)
(* what is still to be dispatched alone.                                     *)
LEMMA CancelKeepsRuns ==
    ASSUME TypeOKProtection, NEW j \in Journees, CancelMonitor(j)
    PROVE  /\ monitors' \in [1..MaxActivations -> Listed \cup {"none", "accepted"}]
           /\ \A a \in 1..MaxActivations : monitors[a] \in Listed => monitors'[a] \in Listed
           /\ \A a \in 1..MaxActivations : monitors[a] = "none" => monitors'[a] = "none"
           /\ failures' \in 0..MaxFailures
<1>1. failures' \in 0..MaxFailures
  BY ProtectionAssumption DEF TypeOKProtection, CancelMonitor, Failing
<1>2. \/ monitors' = monitors
      \/ \E run \in 1..MaxActivations :
            monitors[run] = "running" /\ monitors' = [monitors EXCEPT ![run] = "cancelled"]
  <2> DEFINE run == IF protection[j].run # 0 THEN protection[j].run
                    ELSE RunOf(protection[j].activation)
  <2>1. run \in 0..MaxActivations
    BY DEF TypeOKProtection, Protections, RunOf
  <2>2. \/ monitors' = monitors
        \/ run # 0 /\ monitors[run] = "running" /\ monitors' = [monitors EXCEPT ![run] = "cancelled"]
    BY DEF CancelMonitor
  <2> HIDE DEF run
  <2>3. QED
    BY <2>1, <2>2, ProtectionAssumption
<1>3. QED
  BY <1>1, <1>2 DEF TypeOKProtection, Listed

(* A step that leaves the rows, the reads and the dispatches alone.          *)
LEMMA MonitorsKeepInv ==
    ASSUME ProtectionInv, TypeOKProtection',
           UNCHANGED <<protection, reading, mixed, activations>>,
           dispatching' \subseteq dispatching,
           \A a \in 1..MaxActivations : monitors[a] \in Listed => monitors'[a] \in Listed,
           \A a \in 1..MaxActivations : monitors[a] = "none" => monitors'[a] = "none"
    PROVE  ProtectionInv'
<1> USE DEF ProtectionInv
<1>1. DispatchesAreFresh'
  BY DEF DispatchesAreFresh, TypeOKProtection
<1>2. ReadsSawTheMonitor'
  BY DEF ReadsSawTheMonitor, TypeOKProtection, Reads
<1>3. ActiveIsActivated'
  BY DEF ActiveIsActivated
<1>4. ActiveWasMonitored'
  BY DEF ActiveWasMonitored, ActiveIsActivated, TypeOKProtection, Protections
<1>5. QED
  BY <1>1, <1>2, <1>3, <1>4

(* A start or a restart begins a fresh activation. A row in which it leaves  *)
(* what another request wrote is mixed.                                      *)
LEMMA BegunKeepsInv ==
    ASSUME ProtectionInv, NEW j \in Journees, NEW row, NEW whole, Begun(j, row, whole),
           whole => row.status = "starting" /\ row.run = 0,
           activations + 1 \in 1..MaxActivations => row \in Protections,
           journee' \in [Journees -> JourneeStatuses],
           handling' \in [Handlers -> Requests \cup {Idle}],
           UNCHANGED <<monitors, reading, failures>>
    PROVE  ProtectionInv'
<1> USE ProtectionAssumption DEF ProtectionInv
<1> DEFINE new == [journee |-> j, activation |-> activations + 1]
<1>1. /\ activations + 1 \in 1..MaxActivations /\ activations' = activations + 1
      /\ protection' = [protection EXCEPT ![j] = row] /\ row \in Protections
      /\ dispatching' = dispatching \cup {new}
      /\ new \in [journee : Journees, activation : 1..MaxActivations]
      /\ mixed' = (IF whole THEN mixed \ {j} ELSE mixed \cup {j})
  BY DEF TypeOKProtection, Begun
<1>2. TypeOKProtection'
  BY <1>1 DEF TypeOKProtection
<1>3. DispatchesAreFresh'
  <2>1. \A d \in dispatching : d.activation \in 1..MaxActivations /\ d.activation <= activations
    BY DEF TypeOKProtection, DispatchesAreFresh
  <2>2. new.activation = activations + 1 /\ monitors[new.activation] = "none"
    BY <1>1 DEF DispatchesAreFresh, TypeOKProtection
  <2> HIDE DEF new
  <2>3. \A d \in dispatching' : d = new \/ d \in dispatching
    BY <1>1
  <2>4. \A d \in dispatching' : d.activation <= activations' /\ monitors'[d.activation] = "none"
    BY <1>1, <2>1, <2>2, <2>3 DEF DispatchesAreFresh, TypeOKProtection
  <2>5. \A d, e \in dispatching' : d.activation = e.activation => d = e
    BY <1>1, <2>1, <2>2, <2>3 DEF DispatchesAreFresh, TypeOKProtection
  <2>6. \A a \in 1..MaxActivations : a > activations' => monitors'[a] = "none"
    BY <1>1 DEF DispatchesAreFresh, TypeOKProtection
  <2>7. QED
    BY <2>4, <2>5, <2>6 DEF DispatchesAreFresh
<1>4. ReadsSawTheMonitor'
  BY DEF ReadsSawTheMonitor
<1>5. \A k \in Journees \ mixed' : \/ k = j /\ protection'[k].status = "starting"
                                                /\ protection'[k].run = 0
                                   \/ k \notin mixed /\ protection'[k] = protection[k]
  BY <1>1 DEF TypeOKProtection
<1>6. ActiveIsActivated' /\ ActiveWasMonitored'
  BY <1>5 DEF ActiveIsActivated, ActiveWasMonitored
<1>7. QED
  BY <1>2, <1>3, <1>4, <1>6

LEMMA StartKeepsInv ==
    ASSUME ProtectionInv, NEW j \in Journees, StartProtection(j)
    PROVE  ProtectionInv'
<1>1. /\ Begun(j, Activated(protection[j]), TRUE) /\ UNCHANGED <<monitors, reading, handling, failures>>
      /\ journee' \in [Journees -> JourneeStatuses]
  BY DEF StartProtection, ProtectionInv, TypeOKProtection, JourneeStatuses
<1>2. activations + 1 \in 1..MaxActivations => Activated(protection[j]) \in Protections
  BY ProtectionAssumption DEF Activated, Protections
<1>3. handling' \in [Handlers -> Requests \cup {Idle}]
  BY <1>1 DEF ProtectionInv, TypeOKProtection
<1>4. Activated(protection[j]).status = "starting" /\ Activated(protection[j]).run = 0
  BY DEF Activated
<1>5. QED
  BY <1>1, <1>2, <1>3, <1>4, BegunKeepsInv

(* A handler that has read and not committed holds a request.                *)
LEMMA HandlingIsRequest ==
    ASSUME TypeOKProtection, NEW h \in Handlers, handling[h].kind \in {"restart", "end"}
    PROVE  handling[h] \in Requests /\ handling[h].journee \in Journees
<1>1. handling[h] \in Requests \cup {Idle} /\ handling[h] # Idle
  BY DEF TypeOKProtection, Idle
<1>2. QED
  BY <1>1 DEF Requests

LEMMA RestartKeepsInv ==
    ASSUME ProtectionInv, NEW h \in Handlers, RestartProtection(h)
    PROVE  ProtectionInv'
<1> DEFINE j == handling[h].journee
           fresh == Activated(protection[j])
           over == Overwritten(protection[j], handling[h].columns, fresh.status, fresh.run)
           row == [over EXCEPT !.activation = fresh.activation, !.age = fresh.age]
           whole == /\ protection[j].status # "starting" => "status" \in handling[h].columns
                    /\ protection[j].run # 0 => "run" \in handling[h].columns
<1>1. j \in Journees /\ protection[j] \in Protections
  BY HandlingIsRequest DEF RestartProtection, ProtectionInv, TypeOKProtection
<1>2. Begun(j, row, whole) /\ UNCHANGED <<journee, monitors, reading, failures>>
      /\ handling' = [handling EXCEPT ![h] = Idle]
  BY DEF RestartProtection
<1> HIDE DEF j
<1>3. fresh = [status |-> "starting", activation |-> activations + 1, run |-> 0, age |-> "new"]
  BY DEF Activated
<1>4. over \in Protections /\ (whole => over.status = "starting" /\ over.run = 0)
  <2>1. over = [status |-> IF "status" \in handling[h].columns THEN "starting"
                           ELSE protection[j].status,
                activation |-> protection[j].activation,
                run |-> IF "run" \in handling[h].columns THEN 0 ELSE protection[j].run,
                age |-> protection[j].age]
    BY <1>3 DEF Overwritten, over
  <2> HIDE DEF over, j
  <2>2. QED
    BY <1>1, <2>1, ProtectionAssumption DEF Protections
<1> HIDE DEF over, whole
<1>5. activations + 1 \in 1..MaxActivations => row \in Protections
  <2> SUFFICES ASSUME activations + 1 \in 1..MaxActivations
               PROVE  row \in Protections
    OBVIOUS
  <2>1. fresh.activation \in 0..MaxActivations /\ fresh.age \in {"new", "late", "over"}
    BY <1>3, ProtectionAssumption
  <2> HIDE DEF fresh
  <2>2. [over EXCEPT !.activation = fresh.activation] \in Protections
    BY <1>4, <2>1 DEF Protections
  <2>3. QED
    BY <2>1, <2>2 DEF Protections
<1>6. handling' \in [Handlers -> Requests \cup {Idle}] /\ journee' \in [Journees -> JourneeStatuses]
  BY <1>2 DEF ProtectionInv, TypeOKProtection
<1>7. whole => row.status = "starting" /\ row.run = 0
  BY <1>4 DEF Protections
<1> HIDE DEF row, j
<1>8. QED
  BY <1>1, <1>2, <1>5, <1>6, <1>7, BegunKeepsInv

(* The dispatch is of a fresh activation: it hides no monitor that a read or *)
(* a row has been told of.                                                   *)
LEMMA DispatchKeepsInv ==
    ASSUME ProtectionInv, NEW d \in dispatching, Dispatch(d)
    PROVE  ProtectionInv'
<1> USE ProtectionAssumption DEF ProtectionInv
<1> DEFINE a == d.activation
<1>1. /\ a \in 1..MaxActivations /\ a <= activations /\ monitors[a] = "none" /\ d.journee \in Journees
      /\ dispatching' = dispatching \ {d}
      /\ monitors' \in {monitors, [monitors EXCEPT ![a] = "accepted"]}
      /\ protection' \in {protection, [protection EXCEPT ![d.journee].status = "incident"]}
      /\ failures' \in 0..MaxFailures
      /\ UNCHANGED <<journee, reading, handling, mixed, activations>>
  <2>1. a \in 1..MaxActivations /\ a <= activations /\ monitors[a] = "none" /\ d.journee \in Journees
    BY DEF DispatchesAreFresh, TypeOKProtection
  <2>2. QED
    BY <2>1 DEF Dispatch, Failing, TypeOKProtection
<1>2. \A e \in dispatching' : e \in dispatching /\ e.activation # a
                              /\ e.activation \in 1..MaxActivations
  BY <1>1 DEF DispatchesAreFresh, TypeOKProtection
<1> HIDE DEF a
<1>3. /\ \A b \in 1..MaxActivations : monitors[b] \in Listed => monitors'[b] = monitors[b]
      /\ \A b \in 1..MaxActivations : b # a => monitors'[b] = monitors[b]
      /\ monitors' \in [1..MaxActivations -> Listed \cup {"none", "accepted"}]
  BY <1>1 DEF TypeOKProtection, Listed
<1>4. /\ protection' \in [Journees -> Protections]
      /\ \A k \in Journees : /\ protection'[k].activation = protection[k].activation
                             /\ protection'[k].run = protection[k].run
                             /\ protection'[k].status \in {protection[k].status, "incident"}
  <2>1. protection \in [Journees -> Protections]
    BY DEF TypeOKProtection
  <2>2. QED
    BY <1>1, <2>1, MarkedIsTyped
<1>5. TypeOKProtection'
  BY <1>1, <1>3, <1>4 DEF TypeOKProtection
<1>6. DispatchesAreFresh'
  BY <1>1, <1>2, <1>3 DEF DispatchesAreFresh, TypeOKProtection
<1>7. ReadsSawTheMonitor'
  BY <1>1, <1>3 DEF ReadsSawTheMonitor, TypeOKProtection, Reads
<1>8. ActiveIsActivated'
  BY <1>1, <1>4 DEF ActiveIsActivated
<1>9. ActiveWasMonitored'
  <2>1. \A k \in Journees : protection[k].activation \in 0..MaxActivations
    BY DEF TypeOKProtection, Protections
  <2>2. QED
    BY <1>1, <1>3, <1>4, <2>1 DEF ActiveWasMonitored, ActiveIsActivated
<1>10. QED
  BY <1>5, <1>6, <1>7, <1>8, <1>9

LEMMA MonitorKeepsInv ==
    ASSUME ProtectionInv, NEW a \in 1..MaxActivations, MonitorMoves(a)
    PROVE  ProtectionInv'
<1> USE ProtectionAssumption DEF ProtectionInv
<1>1. /\ UNCHANGED <<journee, protection, dispatching, reading, handling, mixed,
                     activations, failures>>
      /\ monitors[a] # "none"
      /\ \E move \in Listed : monitors' = [monitors EXCEPT ![a] = move]
  BY DEF MonitorMoves, Listed
<1>2. /\ monitors' \in [1..MaxActivations -> Listed \cup {"none", "accepted"}]
      /\ \A b \in 1..MaxActivations : monitors[b] \in Listed => monitors'[b] \in Listed
      /\ \A b \in 1..MaxActivations : monitors[b] = "none" => monitors'[b] = "none"
  BY <1>1 DEF TypeOKProtection
<1>3. TypeOKProtection'
  BY <1>1, <1>2 DEF TypeOKProtection
<1>4. QED
  BY <1>1, <1>2, <1>3, MonitorsKeepInv

LEMMA BeginReadKeepsInv ==
    ASSUME ProtectionInv, NEW j \in Journees, BeginRead(j)
    PROVE  ProtectionInv'
<1> USE ProtectionAssumption DEF ProtectionInv
<1> DEFINE p == protection[j]
<1>1. PICK run \in Listed \cup {"none", "unavailable"} :
         /\ reading' = [reading EXCEPT ![j] = Update(p, run)]
         /\ run = "running" => p.activation # 0 /\ monitors[p.activation] \in Listed
  <2>1. CASE reading' = [reading EXCEPT ![j] = Update(p, "unavailable")]
    BY <2>1 DEF Listed
  <2>2. CASE reading' = [reading EXCEPT ![j] =
                 Update(p, IF RunOf(p.activation) = 0 THEN "none" ELSE monitors[p.activation])]
    <3>1. CASE RunOf(p.activation) = 0
      BY <2>2, <3>1 DEF Listed
    <3>2. CASE RunOf(p.activation) # 0
      <4>1. p.activation # 0 /\ monitors[p.activation] \in Listed
        BY <3>2 DEF RunOf
      <4>2. reading' = [reading EXCEPT ![j] = Update(p, monitors[p.activation])]
        BY <2>2, <3>2
      <4>3. QED
        BY <4>1, <4>2
    <3>3. QED
      BY <3>1, <3>2
  <2>3. QED
    BY <2>1, <2>2 DEF BeginRead
<1>2. /\ p \in Protections /\ p.status \notin {"inactive", "stopped", "completed"}
      /\ UNCHANGED <<journee, protection, dispatching, monitors, handling, mixed, activations>>
      /\ failures' \in 0..MaxFailures
  BY DEF BeginRead, TypeOKProtection, Failing
<1> HIDE DEF p
<1>3. /\ Update(p, run) \in Reads
      /\ Update(p, run).activation = p.activation
      /\ "status" \in Update(p, run).columns /\ Update(p, run).status = "active" => run = "running"
      /\ "run" \in Update(p, run).columns => Update(p, run).run = p.activation
  BY <1>2, UpdateIsRead
<1>4. TypeOKProtection'
  BY <1>1, <1>2, <1>3 DEF TypeOKProtection
<1>5. DispatchesAreFresh' /\ ActiveIsActivated' /\ ActiveWasMonitored'
  BY <1>2 DEF DispatchesAreFresh, ActiveIsActivated, ActiveWasMonitored
<1>6. ReadsSawTheMonitor'
  BY <1>1, <1>2, <1>3 DEF ReadsSawTheMonitor, TypeOKProtection
<1>7. QED
  BY <1>4, <1>5, <1>6

(* A read that commits on the activation it read leaves the row "active"     *)
(* only if that activation's monitor was seen, and links to its run.         *)
LEMMA EndReadKeepsInv ==
    ASSUME ProtectionInv, NEW j \in Journees, EndRead(j)
    PROVE  ProtectionInv'
<1> USE ProtectionAssumption DEF ProtectionInv
<1> DEFINE q == Overwritten(protection[j], reading[j].columns, reading[j].status, reading[j].run)
<1>1. /\ protection' = [protection EXCEPT ![j] = q]
      /\ reading' = [reading EXCEPT ![j] = NoRead]
      /\ UNCHANGED <<journee, dispatching, monitors, handling, activations, failures>>
      /\ protection[j] \in Protections /\ reading[j] \in Reads
  BY DEF EndRead, TypeOKProtection
<1>2. /\ mixed \subseteq mixed' /\ mixed' \subseteq Journees
      /\ j \notin mixed' => \/ reading[j].columns = {}
                            \/ protection[j].activation = reading[j].activation
  BY DEF EndRead, TypeOKProtection
<1>3. /\ q \in Protections /\ q.activation = protection[j].activation
      /\ q.status = (IF "status" \in reading[j].columns THEN reading[j].status
                     ELSE protection[j].status)
      /\ q.run = (IF "run" \in reading[j].columns THEN reading[j].run ELSE protection[j].run)
  <2>1. /\ reading[j].status \in {"inactive", "starting", "active", "incident", "stopped", "completed"}
        /\ reading[j].run \in 0..MaxActivations
    BY <1>1 DEF Reads
  <2>2. QED
    BY <1>1, <2>1 DEF Overwritten, Protections
<1> HIDE DEF q
<1>4. NoRead \in Reads /\ NoRead.columns = {}
  BY DEF NoRead, Reads
<1>5. TypeOKProtection'
  BY <1>1, <1>2, <1>3, <1>4 DEF TypeOKProtection
<1>6. DispatchesAreFresh'
  BY <1>1 DEF DispatchesAreFresh
<1>7. ReadsSawTheMonitor'
  BY <1>1, <1>4 DEF ReadsSawTheMonitor, TypeOKProtection
<1>8. j \notin mixed' => RowIsTrue(q)
  <2> SUFFICES ASSUME j \notin mixed'
               PROVE  RowIsTrue(q)
    OBVIOUS
  <2>1. RowIsTrue(protection[j])
    BY <1>2, RowsAreTrue
  <2>2. CASE reading[j].columns = {}
    BY <1>3, <2>1, <2>2 DEF RowIsTrue
  <2>3. CASE protection[j].activation = reading[j].activation
    BY <1>3, <2>1, <2>3 DEF RowIsTrue, ReadsSawTheMonitor
  <2>4. QED
    BY <1>2, <2>2, <2>3
<1>9. ASSUME NEW k \in Journees \ mixed'
      PROVE  RowIsTrue(protection'[k])
  <2>1. CASE k = j
    BY <1>1, <1>8, <1>9, <2>1 DEF TypeOKProtection
  <2>2. CASE k # j
    BY <1>1, <1>2, <1>9, <2>2, RowsAreTrue DEF TypeOKProtection
  <2>3. QED
    BY <2>1, <2>2
<1>10. ActiveIsActivated' /\ ActiveWasMonitored'
  BY <1>1, <1>9 DEF RowIsTrue, ActiveIsActivated, ActiveWasMonitored
<1>11. QED
  BY <1>5, <1>6, <1>7, <1>10

(* A request that asks GitHub to cancel a monitor writes no row yet.         *)
LEMMA HandlingKeepsInv ==
    ASSUME ProtectionInv, NEW h \in Handlers, NEW j \in Journees,
           BeginRestart(h, j) \/ BeginEndProtection(h, j)
    PROVE  ProtectionInv'
<1>1. PICK kind \in {"restart", "end"}, columns \in SUBSET {"status", "run", "journee"} :
         BeginHandling(h, kind, j, columns)
  <2>1. CASE BeginRestart(h, j)
    BY <2>1 DEF BeginRestart
  <2>2. CASE BeginEndProtection(h, j)
    BY <2>2 DEF BeginEndProtection
  <2>3. QED
    BY <2>1, <2>2
<1>2. /\ CancelMonitor(j)
      /\ UNCHANGED <<journee, protection, dispatching, reading, mixed, activations>>
      /\ handling' = [handling EXCEPT ![h] = [kind |-> kind, journee |-> j, columns |-> columns]]
  BY <1>1 DEF BeginHandling
<1>3. [kind |-> kind, journee |-> j, columns |-> columns] \in Requests
  BY DEF Requests
<1>4. /\ monitors' \in [1..MaxActivations -> Listed \cup {"none", "accepted"}]
      /\ \A a \in 1..MaxActivations : monitors[a] \in Listed => monitors'[a] \in Listed
      /\ \A a \in 1..MaxActivations : monitors[a] = "none" => monitors'[a] = "none"
      /\ failures' \in 0..MaxFailures
  BY <1>2, CancelKeepsRuns DEF ProtectionInv
<1>5. TypeOKProtection'
  BY <1>2, <1>3, <1>4 DEF ProtectionInv, TypeOKProtection
<1>6. QED
  BY <1>2, <1>4, <1>5, MonitorsKeepInv

(* Stopping a row makes none active and leaves its run and activation.       *)
LEMMA EndProtectionKeepsInv ==
    ASSUME ProtectionInv, NEW h \in Handlers, EndProtection(h)
    PROVE  ProtectionInv'
<1> USE DEF ProtectionInv
<1> DEFINE j == handling[h].journee
           q == Overwritten(protection[j], handling[h].columns, "stopped", 0)
<1>1. /\ j \in Journees /\ protection[j] \in Protections
      /\ handling[h].columns \subseteq {"status", "run", "journee"}
  BY HandlingIsRequest DEF EndProtection, TypeOKProtection, Requests
<1>2. /\ protection' = [protection EXCEPT ![j] = q]
      /\ handling' = [handling EXCEPT ![h] = Idle]
      /\ UNCHANGED <<dispatching, monitors, reading, mixed, activations, failures>>
      /\ journee' = [journee EXCEPT ![j] =
                        IF "journee" \in handling[h].columns THEN "completed" ELSE @]
  BY DEF EndProtection
<1>3. /\ q \in Protections /\ q.activation = protection[j].activation
      /\ q.run = protection[j].run \/ q.run = 0
      /\ q.status \in {protection[j].status, "stopped"}
  <2>1. 0 \in 0..MaxActivations
    BY ProtectionAssumption
  <2>2. QED
    BY <1>1, <2>1 DEF Overwritten, Protections
<1>4. journee' \in [Journees -> JourneeStatuses]
  BY <1>1, <1>2 DEF TypeOKProtection, JourneeStatuses
<1> HIDE DEF q, j
<1>5. TypeOKProtection'
  BY <1>1, <1>2, <1>3, <1>4 DEF TypeOKProtection
<1>6. DispatchesAreFresh' /\ ReadsSawTheMonitor'
  BY <1>2 DEF DispatchesAreFresh, ReadsSawTheMonitor
<1>7. \A k \in Journees : /\ protection'[k].activation = protection[k].activation
                          /\ protection'[k].run \in {0, protection[k].run}
                          /\ protection'[k].status \in {protection[k].status, "stopped"}
  BY <1>1, <1>2, <1>3 DEF TypeOKProtection
<1>8. ActiveIsActivated' /\ ActiveWasMonitored'
  BY <1>2, <1>7 DEF ActiveIsActivated, ActiveWasMonitored
<1>9. QED
  BY <1>5, <1>6, <1>8

(* Steps that age a row, or change the Journee.                              *)
LEMMA AgingKeepsInv ==
    ASSUME ProtectionInv, NEW j \in Journees, TwoMinutes(j) \/ Expire(j)
    PROVE  ProtectionInv'
<1> USE ProtectionAssumption DEF ProtectionInv
<1>1. PICK to \in {"late", "over"} : protection' = [protection EXCEPT ![j].age = to]
  BY DEF TwoMinutes, Expire, Aging
<1>2. UNCHANGED <<journee, dispatching, monitors, reading, handling, mixed, activations, failures>>
  BY DEF TwoMinutes, Expire, Aging
<1>3. /\ protection' \in [Journees -> Protections]
      /\ \A k \in Journees : /\ protection'[k].activation = protection[k].activation
                             /\ protection'[k].run = protection[k].run
                             /\ protection'[k].status = protection[k].status
  <2>1. protection \in [Journees -> Protections]
    BY DEF TypeOKProtection
  <2>2. to \in {"late", "over"} /\ protection' = [protection EXCEPT ![j].age = to]
    BY <1>1
  <2>3. QED
    BY <2>1, <2>2, AgedIsTyped, SMTT(30)
<1>4. TypeOKProtection'
  BY <1>2, <1>3 DEF TypeOKProtection
<1>5. DispatchesAreFresh' /\ ReadsSawTheMonitor' /\ ActiveIsActivated' /\ ActiveWasMonitored'
  BY <1>2, <1>3 DEF DispatchesAreFresh, ReadsSawTheMonitor, ActiveIsActivated, ActiveWasMonitored
<1>6. QED
  BY <1>4, <1>5

LEMMA JourneeKeepsInv ==
    ASSUME ProtectionInv, NEW j \in Journees,
           EndUnprotected(j) \/ \E status \in {"draft", "completed"} : UpdateStatus(j, status)
    PROVE  ProtectionInv'
<1>1. /\ UNCHANGED <<protection, dispatching, monitors, reading, handling, mixed,
                     activations, failures>>
      /\ journee' \in [Journees -> JourneeStatuses]
  BY DEF EndUnprotected, UpdateStatus, ProtectionInv, TypeOKProtection, JourneeStatuses
<1>2. QED
  BY <1>1 DEF ProtectionInv, TypeOKProtection, DispatchesAreFresh, ReadsSawTheMonitor,
              ActiveIsActivated, ActiveWasMonitored

(* A killed process leaves what it committed.                                *)
LEMMA CrashKeepsInv ==
    ASSUME ProtectionInv, Crash
    PROVE  ProtectionInv'
<1> USE ProtectionAssumption DEF ProtectionInv
<1>1. /\ UNCHANGED <<journee, protection, monitors, mixed, activations>>
      /\ failures' \in 0..MaxFailures
      /\ dispatching' \subseteq dispatching
      /\ reading' \in [Journees -> Reads]
      /\ \A j \in Journees : reading'[j] \in {reading[j], NoRead}
      /\ handling' \in [Handlers -> Requests \cup {Idle}]
  <2>1. NoRead \in Reads
    BY DEF NoRead, Reads
  <2>2. QED
    BY <2>1 DEF Crash, Failing, TypeOKProtection
<1>2. TypeOKProtection'
  BY <1>1 DEF TypeOKProtection
<1>3. DispatchesAreFresh' /\ ActiveIsActivated' /\ ActiveWasMonitored'
  BY <1>1 DEF DispatchesAreFresh, ActiveIsActivated, ActiveWasMonitored
<1>4. ReadsSawTheMonitor'
  <2>1. NoRead.columns = {}
    BY DEF NoRead
  <2>2. QED
    BY <1>1, <2>1 DEF ReadsSawTheMonitor
<1>5. QED
  BY <1>2, <1>3, <1>4

LEMMA ProtectionStep == ProtectionInv /\ [NextProtection]_protectionVars => ProtectionInv'
<1> SUFFICES ASSUME ProtectionInv, [NextProtection]_protectionVars
             PROVE  ProtectionInv'
  OBVIOUS
<1>1. CASE UNCHANGED protectionVars
  BY <1>1 DEF protectionVars, ProtectionInv, TypeOKProtection, DispatchesAreFresh,
              ReadsSawTheMonitor, ActiveIsActivated, ActiveWasMonitored
<1>2. CASE NextProtection
  BY <1>2, StartKeepsInv, JourneeKeepsInv, DispatchKeepsInv, CrashKeepsInv, MonitorKeepsInv,
     BeginReadKeepsInv, EndReadKeepsInv, HandlingKeepsInv, RestartKeepsInv,
     EndProtectionKeepsInv, AgingKeepsInv DEF NextProtection
<1>3. QED
  BY <1>1, <1>2

LEMMA ProtectionInvariant ==
    InitProtection /\ [][NextProtection]_protectionVars => []ProtectionInv
BY InitProtectionInv, ProtectionStep, PTL

(* The protection, its reads, its requests and GitHub's monitors are type    *)
(* correct for any number of Journees, handlers, activations, failures and   *)
(* crashes.                                                                  *)
THEOREM ProtectionTypeCorrect == SpecProtection => []TypeOKProtection
<1>1. ProtectionInv => TypeOKProtection
  BY DEF ProtectionInv
<1>2. QED
  BY <1>1, ProtectionInvariant, PTL DEF SpecProtection

(* "Protection is running" is only said of a Journee whose present activation *)
(* has had a monitor at GitHub, and the run it links to is that activation's, *)
(* but for the mixed rows that the property names.                            *)
THEOREM ActiveHasHadAMonitor == SpecProtection => []ActiveWasMonitored
<1>1. ProtectionInv => ActiveWasMonitored
  BY DEF ProtectionInv
<1>2. QED
  BY <1>1, ProtectionInvariant, PTL DEF SpecProtection

-----------------------------------------------------------------------------
(***************************************************************************)
(* The attendance of a recruit.                                            *)
(***************************************************************************)

(* The parts of the type that do not belong to one page's queue.             *)
RowsTyped ==
    /\ recruit \in Rows
    /\ draft \in [Devices -> Rows]
    /\ poll \in [Devices -> [answered : BOOLEAN, row : Rows]]
    /\ form = NoForm \/ (form.read \in Rows /\ form.written \in Rows)
    /\ typed \in 0..MaxTyped /\ forms \in 0..MaxForms /\ lost \in 0..MaxLost

QueueTyped(q) ==
    /\ q.entry \in BOOLEAN /\ q.timer \in BOOLEAN
    /\ q.retries \in 0..(MaxRetries + 1)
    /\ Wellformed(q.changes)

RequestTyped(r) ==
    /\ r.kind \in {"none", "patch", "reload"}
    /\ r.answer \in {"none", "saved", "conflict", "missing", "invalid", "lost"}
    /\ Wellformed(r.sent)
    /\ r.base \in Nat /\ r.current \in BOOLEAN
    /\ r.answer = "saved" => r.saved \in Nat \ {0}

(* Every typed value that no patch has carried is still queued, or in the    *)
(* patch that is in flight and has not been applied.                         *)
Carried(q, r, u) ==
    \A f \in DOMAIN u :
        \/ f \in DOMAIN q.changes /\ q.changes[f] = u[f]
        \/ /\ f \notin DOMAIN q.changes
           /\ f \in DOMAIN r.sent /\ r.sent[f] = u[f]
           /\ r.kind = "patch" /\ r.answer # "saved"

(* A closed entry has nothing queued and nothing in flight; only a patch is  *)
(* answered.                                                                 *)
Closed(q, r) ==
    /\ ~q.entry => q.changes = Nothing /\ r.kind = "none"
    /\ r.answer # "none" => r.kind = "patch"

(* A timer that is set while a patch is in flight was set by typing, which   *)
(* begins the retries anew: they never exceed the limit by more than one.    *)
Retrying(q, r) ==
    /\ r.kind = "patch" /\ q.timer => q.retries = 0
    /\ q.retries > MaxRetries => r.kind = "none" /\ ~q.timer

DeviceInv(q, r, u) ==
    /\ QueueTyped(q)
    /\ RequestTyped(r)
    /\ u = [f \in DOMAIN u |-> u[f]]
    /\ Carried(q, r, u)
    /\ Closed(q, r)
    /\ Retrying(q, r)

AttendanceInv ==
    /\ RowsTyped
    /\ queue = [d \in Devices |-> queue[d]]
    /\ request = [d \in Devices |-> request[d]]
    /\ unaccepted = [d \in Devices |-> unaccepted[d]]
    /\ \A d \in Devices : DeviceInv(queue[d], request[d], unaccepted[d])

-----------------------------------------------------------------------------
(* The operators on changes.                                                 *)

LEMMA SpreadIsWellformed ==
    ASSUME NEW older, NEW newer, Wellformed(older), Wellformed(newer)
    PROVE  Wellformed(Spread(older, newer))
  BY DEF Wellformed, Spread

LEMMA SpreadValues ==
    ASSUME NEW older, NEW newer
    PROVE  /\ DOMAIN Spread(older, newer) = DOMAIN older \cup DOMAIN newer
           /\ \A f \in DOMAIN newer : Spread(older, newer)[f] = newer[f]
           /\ \A f \in DOMAIN older \ DOMAIN newer : Spread(older, newer)[f] = older[f]
           /\ Spread(older, newer) = [f \in DOMAIN Spread(older, newer) |-> Spread(older, newer)[f]]
  BY DEF Spread

LEMMA ApplyIsRow ==
    ASSUME NEW item \in Rows, NEW changes, Wellformed(changes)
    PROVE  Apply(item, changes) \in Rows
<1>1. /\ Field(changes, "present", item.present) \in BOOLEAN
      /\ Field(changes, "arrival", item.arrival) \in Nat
      /\ Field(changes, "note", item.note) \in Nat
  BY DEF Field, Wellformed, Rows
<1>2. QED
  BY <1>1 DEF Apply, Rows

LEMMA PatchedIsRow ==
    ASSUME recruit \in Rows, NEW changes, Wellformed(changes)
    PROVE  Patched(changes) \in Rows
<1>1. /\ Field(changes, "present", recruit.present) \in BOOLEAN
      /\ Field(changes, "arrival", recruit.arrival) \in Nat
      /\ Field(changes, "note", recruit.note) \in Nat
  BY DEF Field, Wellformed, Rows
<1>2. QED
  BY <1>1 DEF Patched, Rewritten, Rows

LEMMA NothingIsWellformed == Wellformed(Nothing) /\ DOMAIN Nothing = {}
  BY DEF Wellformed, Nothing

(* Steps of one device's page.                                               *)
LEMMA OneDevice ==
    ASSUME AttendanceInv, RowsTyped', NEW d \in Devices, NEW q, NEW r, NEW u,
           queue' = [queue EXCEPT ![d] = q], request' = [request EXCEPT ![d] = r],
           unaccepted' = [unaccepted EXCEPT ![d] = u], DeviceInv(q, r, u)
    PROVE  AttendanceInv'
<1>1. \A k \in Devices : /\ queue'[k] = IF k = d THEN q ELSE queue[k]
                         /\ request'[k] = IF k = d THEN r ELSE request[k]
                         /\ unaccepted'[k] = IF k = d THEN u ELSE unaccepted[k]
  BY DEF AttendanceInv
<1>2. /\ queue' = [k \in Devices |-> queue'[k]]
      /\ request' = [k \in Devices |-> request'[k]]
      /\ unaccepted' = [k \in Devices |-> unaccepted'[k]]
  BY DEF AttendanceInv
<1>3. \A k \in Devices : DeviceInv(queue'[k], request'[k], unaccepted'[k])
  BY <1>1 DEF AttendanceInv
<1>4. QED
  BY <1>2, <1>3 DEF AttendanceInv

(* What does not touch the queues, the requests and the history.             *)
LEMMA NoDevice ==
    ASSUME AttendanceInv, RowsTyped', UNCHANGED <<queue, request, unaccepted>>
    PROVE  AttendanceInv'
  BY DEF AttendanceInv

LEMMA Unchanged ==
    ASSUME AttendanceInv, NEW d \in Devices
    PROVE  /\ queue = [queue EXCEPT ![d] = queue[d]]
           /\ request = [request EXCEPT ![d] = request[d]]
           /\ unaccepted = [unaccepted EXCEPT ![d] = unaccepted[d]]
  BY DEF AttendanceInv

LEMMA InitAttendanceInv == InitAttendance => AttendanceInv
<1> SUFFICES ASSUME NEW listed \in {"active", "inactive"}, Opened(listed)
             PROVE  AttendanceInv
  BY DEF InitAttendance
<1>1. RowsTyped
  <2>1. recruit \in Rows /\ draft \in [Devices -> Rows]
    BY DEF Opened, Rows
  <2>2. NoPoll \in [answered : BOOLEAN, row : Rows]
    BY DEF NoPoll, NewRecruit, Rows
  <2>3. poll \in [Devices -> [answered : BOOLEAN, row : Rows]]
    BY <2>2 DEF Opened
  <2>4. typed \in 0..MaxTyped /\ forms \in 0..MaxForms /\ lost \in 0..MaxLost
    BY AttendanceAssumption DEF Opened
  <2>5. QED
    BY <2>1, <2>3, <2>4 DEF Opened, RowsTyped
<1>2. DeviceInv(NewQueue, NoRequest, Nothing)
  BY NothingIsWellformed DEF DeviceInv, NewQueue, NoRequest, QueueTyped, RequestTyped, Carried, Closed,
                             Retrying, MaxRetries, Nothing
<1>3. QED
  BY <1>1, <1>2 DEF Opened, AttendanceInv

-----------------------------------------------------------------------------
LEMMA TypeKeepsInv ==
    ASSUME AttendanceInv, NEW d \in Devices, NEW changes, Wellformed(changes), Type(d, changes)
    PROVE  AttendanceInv'
<1> DEFINE q == [entry |-> TRUE, changes |-> Spread(queue[d].changes, changes), timer |-> TRUE,
                 retries |-> 0]
           r == request[d]
           u == Spread(unaccepted[d], changes)
<1>1. DeviceInv(queue[d], r, unaccepted[d])
  BY DEF AttendanceInv
<1>2. RowsTyped'
  <2>1. draft' = [draft EXCEPT ![d] = Apply(draft[d], changes)] /\ Apply(draft[d], changes) \in Rows
    BY ApplyIsRow DEF Type, AttendanceInv, RowsTyped
  <2>2. draft' \in [Devices -> Rows]
    BY <2>1 DEF AttendanceInv, RowsTyped
  <2>3. typed' \in 0..MaxTyped
    BY AttendanceAssumption DEF Type, AttendanceInv, RowsTyped
  <2>4. QED
    BY <2>2, <2>3 DEF Type, AttendanceInv, RowsTyped
<1>3. QueueTyped(q)
  BY <1>1, SpreadIsWellformed DEF DeviceInv, QueueTyped, MaxRetries
<1>m. /\ q.entry /\ q.timer /\ q.retries = 0
      /\ q.changes = Spread(queue[d].changes, changes) /\ u = Spread(unaccepted[d], changes)
  OBVIOUS
<1> HIDE DEF q, u
<1>s. /\ DOMAIN q.changes = DOMAIN queue[d].changes \cup DOMAIN changes
      /\ DOMAIN u = DOMAIN unaccepted[d] \cup DOMAIN changes
      /\ \A f \in DOMAIN changes : q.changes[f] = changes[f] /\ u[f] = changes[f]
      /\ \A f \in DOMAIN queue[d].changes \ DOMAIN changes : q.changes[f] = queue[d].changes[f]
      /\ \A f \in DOMAIN unaccepted[d] \ DOMAIN changes : u[f] = unaccepted[d][f]
  BY <1>m DEF Spread
<1>4. Carried(q, r, u)
  <2> SUFFICES ASSUME NEW f \in DOMAIN u
               PROVE  \/ f \in DOMAIN q.changes /\ q.changes[f] = u[f]
                      \/ /\ f \notin DOMAIN q.changes
                         /\ f \in DOMAIN r.sent /\ r.sent[f] = u[f]
                         /\ r.kind = "patch" /\ r.answer # "saved"
    BY DEF Carried
  <2>1. CASE f \in DOMAIN changes
    BY <1>s, <2>1
  <2>2. CASE f \notin DOMAIN changes
    <3>1. f \in DOMAIN unaccepted[d] /\ u[f] = unaccepted[d][f]
      BY <1>s, <2>2
    <3>2. /\ f \in DOMAIN q.changes <=> f \in DOMAIN queue[d].changes
          /\ f \in DOMAIN q.changes => q.changes[f] = queue[d].changes[f]
      BY <1>s, <2>2
    <3>3. QED
      BY <1>1, <3>1, <3>2 DEF DeviceInv, Carried
  <2>3. QED
    BY <2>1, <2>2
<1>5. DeviceInv(q, r, u)
  <2>1. u = [f \in DOMAIN u |-> u[f]]
    BY <1>m, SpreadValues
  <2>2. Closed(q, r) /\ Retrying(q, r)
    BY <1>1, <1>m DEF DeviceInv, Closed, Retrying, MaxRetries
  <2>3. QED
    BY <1>1, <1>3, <1>4, <2>1, <2>2 DEF DeviceInv
<1>6. queue' = [queue EXCEPT ![d] = q] /\ request' = [request EXCEPT ![d] = r]
      /\ unaccepted' = [unaccepted EXCEPT ![d] = u]
  BY Unchanged DEF Type, q, u
<1> HIDE DEF r
<1>7. QED
  BY <1>2, <1>5, <1>6, OneDevice

LEMMA TypingKeepsInv ==
    ASSUME AttendanceInv, NEW d \in Devices, NEW time \in {0, typed + 1},
           TogglePresent(d) \/ SetArrival(d, time) \/ TypeNote(d)
    PROVE  AttendanceInv'
<1>1. typed + 1 \in Nat /\ time \in Nat
  BY DEF AttendanceInv, RowsTyped
<1>2. CASE TogglePresent(d)
  <2> DEFINE present == ~draft[d].present
             changes == [present |-> present, arrival |-> IF present THEN typed + 1 ELSE 0]
  <2>1. changes.present \in BOOLEAN /\ changes.arrival \in Nat /\ DOMAIN changes = {"present", "arrival"}
    BY <1>1
  <2>2. Wellformed(changes)
    BY <2>1 DEF Wellformed
  <2>3. QED
    BY <1>2, <2>2, TypeKeepsInv DEF TogglePresent
<1>3. CASE SetArrival(d, time)
  <2>1. Wellformed([arrival |-> time])
    BY <1>1 DEF Wellformed
  <2>2. QED
    BY <1>3, <2>1, TypeKeepsInv DEF SetArrival
<1>4. CASE TypeNote(d)
  <2>1. Wellformed([note |-> typed + 1])
    BY <1>1 DEF Wellformed
  <2>2. QED
    BY <1>4, <2>1, TypeKeepsInv DEF TypeNote
<1>5. QED
  BY <1>2, <1>3, <1>4

LEMMA FireKeepsInv ==
    ASSUME AttendanceInv, NEW d \in Devices, FireTimer(d)
    PROVE  AttendanceInv'
<1>1. DeviceInv(queue[d], request[d], unaccepted[d])
  BY DEF AttendanceInv
<1>2. RowsTyped'
  BY DEF FireTimer, AttendanceInv, RowsTyped
<1>3. queue[d].timer /\ unaccepted' = [unaccepted EXCEPT ![d] = unaccepted[d]]
  BY Unchanged DEF FireTimer
<1> DEFINE sends == queue[d].entry /\ draft[d].listed = "active" /\ request[d].kind = "none"
                    /\ queue[d].changes # Nothing
<1>4. CASE sends
  <2> DEFINE q == [entry |-> queue[d].entry, changes |-> Nothing, timer |-> FALSE,
                   retries |-> queue[d].retries]
             r == [kind |-> "patch", sent |-> queue[d].changes, base |-> draft[d].version,
                   answer |-> "none", saved |-> 0, current |-> TRUE]
  <2>1. queue' = [queue EXCEPT ![d] = q] /\ request' = [request EXCEPT ![d] = r]
    BY <1>4 DEF FireTimer
  <2>2. draft[d].version \in Nat
    BY DEF AttendanceInv, RowsTyped, Rows
  <2>3. QueueTyped(q) /\ RequestTyped(r)
    BY <1>1, <2>2, NothingIsWellformed DEF DeviceInv, QueueTyped, RequestTyped
  <2>4. Carried(q, r, unaccepted[d])
    BY <1>1, <1>4, NothingIsWellformed DEF DeviceInv, Carried
  <2>5. Closed(q, r) /\ Retrying(q, r)
    BY <1>1, <1>3, <1>4 DEF DeviceInv, Closed, Retrying
  <2> HIDE DEF q, r
  <2>6. QED
    BY <1>1, <1>2, <1>3, <2>1, <2>3, <2>4, <2>5, OneDevice DEF DeviceInv
<1>5. CASE ~sends
  <2> DEFINE q == [entry |-> queue[d].entry, changes |-> queue[d].changes, timer |-> FALSE,
                   retries |-> queue[d].retries]
  <2>1. queue' = [queue EXCEPT ![d] = q] /\ request' = [request EXCEPT ![d] = request[d]]
    BY <1>5, Unchanged DEF FireTimer
  <2>2. DeviceInv(q, request[d], unaccepted[d])
    BY <1>1 DEF DeviceInv, QueueTyped, Carried, Closed, Retrying
  <2> HIDE DEF q
  <2>3. QED
    BY <1>2, <1>3, <2>1, <2>2, OneDevice
<1>6. QED
  BY <1>4, <1>5

(* A patch that is applied carried its values; what was typed over them      *)
(* meanwhile is still queued.                                                *)
LEMMA ServeKeepsInv ==
    ASSUME AttendanceInv, NEW d \in Devices, ServePatch(d)
    PROVE  AttendanceInv'
<1> DEFINE answer == Answer(request[d].sent, request[d].base)
           r == [kind |-> "patch", sent |-> request[d].sent, base |-> request[d].base,
                 answer |-> answer, saved |-> recruit'.version, current |-> request[d].current]
<1>1. DeviceInv(queue[d], request[d], unaccepted[d]) /\ request[d].kind = "patch"
  BY DEF AttendanceInv, ServePatch
<1>2. answer \in {"missing", "invalid", "conflict", "saved"}
  BY DEF Answer
<1>3. RowsTyped'
  <2>1. Wellformed(request[d].sent)
    BY <1>1 DEF DeviceInv, RequestTyped
  <2>2. recruit' \in Rows
    BY <2>1, PatchedIsRow DEF ServePatch, AttendanceInv, RowsTyped
  <2>3. QED
    BY <2>2 DEF ServePatch, AttendanceInv, RowsTyped
<1>4. queue' = [queue EXCEPT ![d] = queue[d]] /\ request' = [request EXCEPT ![d] = r]
  BY Unchanged DEF ServePatch
<1> HIDE DEF answer
<1>5. RequestTyped(r) /\ Closed(queue[d], r) /\ Retrying(queue[d], r)
  <2>1. recruit'.version \in Nat \ {0}
    BY <1>3 DEF RowsTyped, Rows
  <2>2. QED
    BY <1>1, <1>2, <2>1 DEF DeviceInv, RequestTyped, Closed, Retrying
<1>6. CASE answer = "saved"
  <2> DEFINE u == Without(unaccepted[d], request[d].sent)
  <2>1. unaccepted' = [unaccepted EXCEPT ![d] = u]
    BY <1>6 DEF ServePatch, answer
  <2>2. /\ DOMAIN u = {f \in DOMAIN unaccepted[d] :
                          ~(f \in DOMAIN request[d].sent /\ request[d].sent[f] = unaccepted[d][f])}
        /\ \A f \in DOMAIN u : u[f] = unaccepted[d][f]
        /\ u = [f \in DOMAIN u |-> u[f]]
    BY DEF Without
  <2> HIDE DEF u
  <2>3. Carried(queue[d], r, u)
    BY <1>1, <2>2 DEF DeviceInv, Carried
  <2> HIDE DEF r
  <2>4. QED
    BY <1>1, <1>3, <1>4, <1>5, <2>1, <2>2, <2>3, OneDevice DEF DeviceInv
<1>7. CASE answer # "saved"
  <2>1. unaccepted' = [unaccepted EXCEPT ![d] = unaccepted[d]]
    BY <1>7, Unchanged DEF ServePatch, answer
  <2>2. Carried(queue[d], r, unaccepted[d])
    BY <1>1, <1>7 DEF DeviceInv, Carried
  <2> HIDE DEF r
  <2>3. QED
    BY <1>1, <1>3, <1>4, <1>5, <2>1, <2>2, OneDevice DEF DeviceInv
<1>8. QED
  BY <1>6, <1>7

(* The end of a request that leaves every unaccepted value in the queue.     *)
LEMMA FinishedKeepsInv ==
    ASSUME AttendanceInv, RowsTyped', NEW d \in Devices, NEW changes, NEW retries \in 0..(MaxRetries + 1),
           Finished(d, changes, retries), UNCHANGED unaccepted,
           Wellformed(changes),
           \A f \in DOMAIN unaccepted[d] : f \in DOMAIN changes /\ changes[f] = unaccepted[d][f],
           retries > MaxRetries => ~queue[d].timer
    PROVE  AttendanceInv'
<1> DEFINE q == [entry |-> changes # Nothing, changes |-> changes,
                 timer |-> queue[d].timer \/ (changes # Nothing /\ retries < MaxRetries),
                 retries |-> retries]
<1>1. DeviceInv(queue[d], request[d], unaccepted[d])
  BY DEF AttendanceInv
<1>2. queue' = [queue EXCEPT ![d] = q] /\ request' = [request EXCEPT ![d] = NoRequest]
      /\ unaccepted' = [unaccepted EXCEPT ![d] = unaccepted[d]]
  BY Unchanged DEF Finished
<1>3. q.entry \in BOOLEAN /\ q.timer \in BOOLEAN
  BY <1>1 DEF DeviceInv, QueueTyped
<1>4. QueueTyped(q)
  BY <1>3 DEF QueueTyped
<1>5. RequestTyped(NoRequest) /\ NoRequest.kind = "none" /\ NoRequest.answer = "none"
  BY NothingIsWellformed DEF NoRequest, RequestTyped
<1>6. Carried(q, NoRequest, unaccepted[d])
  BY DEF Carried
<1>7. (~q.entry => q.changes = Nothing) /\ (q.retries > MaxRetries => ~q.timer)
  <2>1. retries > MaxRetries => ~(retries < MaxRetries)
    BY DEF MaxRetries
  <2>2. QED
    BY <2>1
<1>8. Closed(q, NoRequest) /\ Retrying(q, NoRequest)
  BY <1>5, <1>7 DEF Closed, Retrying
<1> HIDE DEF q
<1>9. QED
  BY <1>1, <1>2, <1>4, <1>5, <1>6, <1>8, OneDevice DEF DeviceInv

(* What is put back into the queue covers what the patch carried.            *)
LEMMA RequeuedCarries ==
    ASSUME NEW d \in Devices, DeviceInv(queue[d], request[d], unaccepted[d])
    PROVE  /\ Wellformed(Requeued(d))
           /\ \A f \in DOMAIN unaccepted[d] :
                f \in DOMAIN Requeued(d) /\ Requeued(d)[f] = unaccepted[d][f]
<1>1. Wellformed(Requeued(d))
  BY SpreadIsWellformed DEF DeviceInv, QueueTyped, RequestTyped, Requeued
<1>2. /\ DOMAIN Requeued(d) = DOMAIN request[d].sent \cup DOMAIN queue[d].changes
      /\ \A f \in DOMAIN queue[d].changes : Requeued(d)[f] = queue[d].changes[f]
      /\ \A f \in DOMAIN request[d].sent \ DOMAIN queue[d].changes :
            Requeued(d)[f] = request[d].sent[f]
  BY DEF Requeued, Spread
<1>3. QED
  BY <1>1, <1>2 DEF DeviceInv, Carried

LEMMA RecordedIsTyped ==
    ASSUME AttendanceInv, NEW d \in Devices, NEW row \in Rows, Recorded(d, row)
    PROVE  draft' \in [Devices -> Rows]
  BY DEF AttendanceInv, RowsTyped, Recorded

LEMMA HandleSavedKeepsInv ==
    ASSUME AttendanceInv, NEW d \in Devices, HandleSaved(d)
    PROVE  AttendanceInv'
<1>1. DeviceInv(queue[d], request[d], unaccepted[d])
  BY DEF AttendanceInv
<1>2. request[d].saved \in Nat \ {0}
  BY <1>1 DEF HandleSaved, DeviceInv, RequestTyped
<1>3. draft[d] \in Rows
  BY DEF AttendanceInv, RowsTyped
<1>4. [present |-> draft[d].present, arrival |-> draft[d].arrival, note |-> draft[d].note,
       photo |-> draft[d].photo, listed |-> draft[d].listed, version |-> request[d].saved] \in Rows
  BY <1>2, <1>3 DEF Rows
<1>5. RowsTyped'
  <2>1. draft' \in [Devices -> Rows]
    BY <1>4, RecordedIsTyped DEF HandleSaved
  <2>2. QED
    BY <2>1 DEF HandleSaved, AttendanceInv, RowsTyped
<1>6. \A f \in DOMAIN unaccepted[d] :
         f \in DOMAIN queue[d].changes /\ queue[d].changes[f] = unaccepted[d][f]
  BY <1>1 DEF HandleSaved, DeviceInv, Carried
<1>7. Wellformed(queue[d].changes) /\ 0 \in 0..(MaxRetries + 1) /\ ~(0 > MaxRetries)
  BY <1>1 DEF DeviceInv, QueueTyped, MaxRetries
<1>8. Finished(d, queue[d].changes, 0) /\ UNCHANGED unaccepted
  BY DEF HandleSaved
<1>9. QED
  BY <1>5, <1>6, <1>7, <1>8, FinishedKeepsInv

LEMMA HandleConflictKeepsInv ==
    ASSUME AttendanceInv, NEW d \in Devices, HandleConflict(d)
    PROVE  AttendanceInv'
<1> DEFINE q == [entry |-> queue[d].entry, changes |-> Requeued(d), timer |-> queue[d].timer,
                 retries |-> queue[d].retries + 1]
           r == [kind |-> "reload", sent |-> Nothing, base |-> 0, answer |-> "none", saved |-> 0,
                 current |-> request[d].current]
<1>1. DeviceInv(queue[d], request[d], unaccepted[d])
  BY DEF AttendanceInv
<1>2. RowsTyped'
  BY DEF HandleConflict, AttendanceInv, RowsTyped
<1>3. queue' = [queue EXCEPT ![d] = q] /\ request' = [request EXCEPT ![d] = r]
      /\ unaccepted' = [unaccepted EXCEPT ![d] = unaccepted[d]]
  BY Unchanged DEF HandleConflict
<1>4. queue[d].retries + 1 \in 0..MaxRetries
  BY <1>1 DEF HandleConflict, DeviceInv, QueueTyped, MaxRetries
<1>5. /\ Wellformed(Requeued(d))
      /\ \A f \in DOMAIN unaccepted[d] :
            f \in DOMAIN Requeued(d) /\ Requeued(d)[f] = unaccepted[d][f]
  BY <1>1, RequeuedCarries
<1>6. QueueTyped(q)
  BY <1>1, <1>4, <1>5 DEF DeviceInv, QueueTyped, MaxRetries
<1>7. RequestTyped(r)
  BY <1>1, NothingIsWellformed DEF DeviceInv, RequestTyped
<1>8. Carried(q, r, unaccepted[d])
  BY <1>5 DEF Carried
<1>9. Closed(q, r) /\ Retrying(q, r)
  <2>1. queue[d].entry
    BY <1>1 DEF HandleConflict, DeviceInv, Closed
  <2>2. ~(q.retries > MaxRetries)
    BY <1>4 DEF MaxRetries
  <2>3. QED
    BY <2>1, <2>2 DEF Closed, Retrying
<1> HIDE DEF q, r
<1>10. QED
  BY <1>1, <1>2, <1>3, <1>6, <1>7, <1>8, <1>9, OneDevice DEF DeviceInv

LEMMA HandleFailureKeepsInv ==
    ASSUME AttendanceInv, NEW d \in Devices, HandleFailure(d)
    PROVE  AttendanceInv'
<1>1. DeviceInv(queue[d], request[d], unaccepted[d])
  BY DEF AttendanceInv
<1>2. RowsTyped'
  BY DEF HandleFailure, AttendanceInv, RowsTyped
<1>3. request[d].kind = "patch"
  BY <1>1 DEF HandleFailure, DeviceInv, Closed
<1>4. queue[d].retries + 1 \in 0..(MaxRetries + 1) /\ (queue[d].retries + 1 > MaxRetries => ~queue[d].timer)
  BY <1>1, <1>3 DEF DeviceInv, QueueTyped, Retrying, MaxRetries
<1>5. /\ Wellformed(Requeued(d))
      /\ \A f \in DOMAIN unaccepted[d] :
            f \in DOMAIN Requeued(d) /\ Requeued(d)[f] = unaccepted[d][f]
  BY <1>1, RequeuedCarries
<1>6. Finished(d, Requeued(d), queue[d].retries + 1) /\ UNCHANGED unaccepted
  BY DEF HandleFailure
<1>7. QED
  BY <1>2, <1>4, <1>5, <1>6, FinishedKeepsInv

(* A reload begins with everything back in the queue, and ends so.           *)
LEMMA ReloadEnds ==
    ASSUME AttendanceInv, RowsTyped', NEW d \in Devices, request[d].kind = "reload", UNCHANGED unaccepted,
           NEW retries \in {queue[d].retries, MaxRetries},
           Finished(d, queue[d].changes, retries)
    PROVE  AttendanceInv'
<1>1. DeviceInv(queue[d], request[d], unaccepted[d])
  BY DEF AttendanceInv
<1>2. \A f \in DOMAIN unaccepted[d] :
         f \in DOMAIN queue[d].changes /\ queue[d].changes[f] = unaccepted[d][f]
  BY <1>1 DEF DeviceInv, Carried
<1>3. retries \in 0..(MaxRetries + 1) /\ ~(retries > MaxRetries) /\ Wellformed(queue[d].changes)
  BY <1>1 DEF DeviceInv, QueueTyped, Retrying, MaxRetries
<1>4. QED
  BY <1>2, <1>3, FinishedKeepsInv

LEMMA ReloadKeepsInv ==
    ASSUME AttendanceInv, NEW d \in Devices, Reload(d)
    PROVE  AttendanceInv'
<1>1. DeviceInv(queue[d], request[d], unaccepted[d]) /\ recruit \in Rows
  BY DEF AttendanceInv, RowsTyped
<1>2. draft' \in [Devices -> Rows]
  <2>1. CASE recruit.listed = "active"
    <3>1. Apply(recruit, queue[d].changes) \in Rows
      BY <1>1, ApplyIsRow DEF DeviceInv, QueueTyped
    <3>2. QED
      BY <2>1, <3>1, RecordedIsTyped DEF Reload
  <2>2. CASE recruit.listed # "active"
    BY <2>2 DEF Reload, AttendanceInv, RowsTyped
  <2>3. QED
    BY <2>1, <2>2
<1>3. RowsTyped'
  BY <1>2 DEF Reload, Finished, AttendanceInv, RowsTyped
<1>4. /\ request[d].kind = "reload" /\ UNCHANGED unaccepted
      /\ \E retries \in {queue[d].retries, MaxRetries} : Finished(d, queue[d].changes, retries)
  BY DEF Reload
<1>5. QED
  BY <1>3, <1>4, ReloadEnds

LEMMA LoseKeepsInv ==
    ASSUME AttendanceInv, NEW d \in Devices, Lose(d)
    PROVE  AttendanceInv'
<1>1. DeviceInv(queue[d], request[d], unaccepted[d])
  BY DEF AttendanceInv
<1>2. RowsTyped'
  BY AttendanceAssumption DEF Lose, Finished, AttendanceInv, RowsTyped
<1>3. CASE request[d].kind = "reload" /\ Finished(d, queue[d].changes, MaxRetries)
  BY <1>2, <1>3, ReloadEnds DEF Lose
<1>4. CASE request[d].kind # "reload" \/ ~Finished(d, queue[d].changes, MaxRetries)
  <2> DEFINE r == [kind |-> "patch", sent |-> request[d].sent, base |-> request[d].base, answer |-> "lost",
                   saved |-> request[d].saved, current |-> request[d].current]
  <2>1. /\ request[d].kind = "patch" /\ request' = [request EXCEPT ![d] = r]
        /\ queue' = [queue EXCEPT ![d] = queue[d]]
        /\ unaccepted' = [unaccepted EXCEPT ![d] = unaccepted[d]]
    BY <1>4, Unchanged DEF Lose
  <2>2. RequestTyped(r) /\ Closed(queue[d], r) /\ Retrying(queue[d], r)
    BY <1>1, <2>1 DEF DeviceInv, RequestTyped, Closed, Retrying
  <2>3. Carried(queue[d], r, unaccepted[d])
    BY <1>1, <2>1 DEF DeviceInv, Carried
  <2> HIDE DEF r
  <2>4. QED
    BY <1>1, <1>2, <2>1, <2>2, <2>3, OneDevice DEF DeviceInv
<1>5. QED
  BY <1>3, <1>4

LEMMA StartPollKeepsInv ==
    ASSUME AttendanceInv, NEW d \in Devices, StartPoll(d)
    PROVE  AttendanceInv'
<1>1. [answered |-> TRUE, row |-> recruit] \in [answered : BOOLEAN, row : Rows]
  BY DEF AttendanceInv, RowsTyped
<1>2. RowsTyped'
  BY <1>1 DEF StartPoll, AttendanceInv, RowsTyped
<1>3. QED
  BY <1>2, NoDevice DEF StartPoll

LEMMA EndPollKeepsInv ==
    ASSUME AttendanceInv, NEW d \in Devices, EndPoll(d)
    PROVE  AttendanceInv'
<1>1. DeviceInv(queue[d], request[d], unaccepted[d])
  BY DEF AttendanceInv
<1>2. RowsTyped'
  <2>1. NoPoll \in [answered : BOOLEAN, row : Rows]
    BY DEF NoPoll, NewRecruit, Rows
  <2>2. poll[d].row \in Rows
    BY DEF AttendanceInv, RowsTyped
  <2>3. QED
    BY <2>1, <2>2 DEF EndPoll, AttendanceInv, RowsTyped
<1> DEFINE r == [kind |-> request[d].kind, sent |-> request[d].sent, base |-> request[d].base,
                 answer |-> request[d].answer, saved |-> request[d].saved, current |-> FALSE]
<1>3. CASE request' = request
  BY <1>2, <1>3, NoDevice DEF EndPoll
<1>4. CASE request' = [request EXCEPT ![d] = r]
  <2>1. DeviceInv(queue[d], r, unaccepted[d])
    BY <1>1 DEF DeviceInv, RequestTyped, Carried, Closed, Retrying
  <2>2. queue' = [queue EXCEPT ![d] = queue[d]] /\ unaccepted' = [unaccepted EXCEPT ![d] = unaccepted[d]]
    BY Unchanged DEF EndPoll
  <2> HIDE DEF r
  <2>3. QED
    BY <1>2, <1>4, <2>1, <2>2, OneDevice
<1>5. QED
  BY <1>3, <1>4 DEF EndPoll

-----------------------------------------------------------------------------
(* The forms only touch the row.                                             *)

LEMMA BeginKeepsInv ==
    ASSUME AttendanceInv, NEW kind, NEW written \in Rows, Begin(kind, written)
    PROVE  AttendanceInv'
<1>1. form'.read \in Rows /\ form'.written \in Rows
  BY DEF Begin, AttendanceInv, RowsTyped
<1>2. RowsTyped'
  BY <1>1, AttendanceAssumption DEF Begin, AttendanceInv, RowsTyped
<1>3. QED
  BY <1>2, NoDevice DEF Begin

LEMMA RewrittenIsRow ==
    ASSUME recruit \in Rows, NEW present \in BOOLEAN, NEW arrival \in Nat, NEW note \in Nat,
           NEW photo \in BOOLEAN, NEW listed \in {"active", "inactive", "deleted"}
    PROVE  Rewritten(present, arrival, note, photo, listed) \in Rows
  BY DEF Rewritten, Rows

LEMMA FormsKeepInv ==
    ASSUME AttendanceInv,
           \/ \E present \in BOOLEAN, listed \in {"active", "inactive"} :
                 BeginBatch(present, recruit.arrival, recruit.note, listed)
           \/ BeginUpload
           \/ BeginUploadFromAttendance
           \/ \E namesakes \in 0..1 : BeginBulkUpload(namesakes)
           \/ BeginPhotoRemoval
           \/ \E referenced \in BOOLEAN : BeginRemove(referenced)
           \/ \E referenced \in BOOLEAN : BeginRemoveFromAttendance(referenced)
           \/ BeginRestore
    PROVE  AttendanceInv'
<1>1. /\ recruit \in Rows /\ recruit.present \in BOOLEAN /\ recruit.arrival \in Nat
      /\ recruit.note \in Nat /\ recruit.photo \in BOOLEAN
      /\ recruit.listed \in {"active", "inactive", "deleted"}
  BY DEF AttendanceInv, RowsTyped, Rows
<1>2. \A photo \in BOOLEAN : Photographed(photo) \in Rows
  BY <1>1, RewrittenIsRow DEF Photographed
<1>3. ASSUME NEW present \in BOOLEAN, NEW listed \in {"active", "inactive"},
             BeginBatch(present, recruit.arrival, recruit.note, listed)
      PROVE  AttendanceInv'
  <2> DEFINE arrival == IF present THEN recruit.arrival ELSE 0
  <2>1. arrival \in Nat /\ listed \in {"active", "inactive", "deleted"}
    BY <1>1
  <2>2. Begin("batch", Rewritten(present, arrival, recruit.note, recruit.photo, listed))
    BY <1>3 DEF BeginBatch
  <2> HIDE DEF arrival
  <2>3. QED
    BY <1>1, <2>1, <2>2, RewrittenIsRow, BeginKeepsInv
<1>4. CASE BeginUpload \/ BeginUploadFromAttendance
           \/ (\E namesakes \in 0..1 : BeginBulkUpload(namesakes)) \/ BeginPhotoRemoval
  <2>1. \E photo \in BOOLEAN : Begin("photo", Photographed(photo))
    BY <1>4 DEF BeginUpload, BeginUploadFromAttendance, BeginBulkUpload, BeginPhotoRemoval
  <2>2. QED
    BY <1>2, <2>1, BeginKeepsInv
<1>5. ASSUME NEW referenced \in BOOLEAN,
             BeginRemove(referenced) \/ BeginRemoveFromAttendance(referenced)
      PROVE  AttendanceInv'
  <2>1. \A arrival \in Nat : Removed(referenced, arrival) \in Rows
    <3>1. (IF referenced THEN "inactive" ELSE "deleted") \in {"active", "inactive", "deleted"}
      OBVIOUS
    <3>2. QED
      BY <1>1, <3>1, RewrittenIsRow DEF Removed
  <2>2. \E arrival \in Nat : Begin("remove", Removed(referenced, arrival))
    BY <1>1, <1>5 DEF BeginRemove, BeginRemoveFromAttendance
  <2>3. QED
    BY <2>1, <2>2, BeginKeepsInv
<1>6. CASE BeginRestore
  <2>1. Rewritten(FALSE, 0, recruit.note, recruit.photo, "active") \in Rows
    BY <1>1 DEF Rewritten, Rows
  <2>2. QED
    BY <1>6, <2>1, BeginKeepsInv DEF BeginRestore
<1>7. QED
  BY <1>3, <1>4, <1>5, <1>6

LEMMA CommitFormKeepsInv ==
    ASSUME AttendanceInv, CommitForm
    PROVE  AttendanceInv'
<1>1. recruit \in Rows /\ form.read \in Rows /\ form.written \in Rows
  BY DEF CommitForm, AttendanceInv, RowsTyped
<1>2. recruit' \in Rows
  <2>1. CASE recruit.listed = "deleted"
    BY <1>1, <2>1 DEF CommitForm
  <2>2. CASE recruit.listed # "deleted"
    <3> DEFINE r == form.read
               w == form.written
    <3>1. /\ Column(r.present, w.present, recruit.present) \in BOOLEAN
          /\ Column(r.arrival, w.arrival, recruit.arrival) \in Nat
          /\ Column(r.note, w.note, recruit.note) \in Nat
          /\ Column(r.photo, w.photo, recruit.photo) \in BOOLEAN
          /\ Column(r.listed, w.listed, recruit.listed) \in {"active", "inactive", "deleted"}
          /\ Column(r.version, w.version, recruit.version) \in Nat \ {0}
      BY <1>1 DEF Column, Rows
    <3>2. QED
      BY <2>2, <3>1 DEF CommitForm, Rows
  <2>3. QED
    BY <2>1, <2>2
<1>3. RowsTyped'
  BY <1>2 DEF CommitForm, AttendanceInv, RowsTyped
<1>4. QED
  BY <1>3, NoDevice DEF CommitForm

LEMMA AttendanceStep == AttendanceInv /\ [NextAttendance]_attendanceVars => AttendanceInv'
<1> SUFFICES ASSUME AttendanceInv, [NextAttendance]_attendanceVars
             PROVE  AttendanceInv'
  OBVIOUS
<1>1. CASE UNCHANGED attendanceVars
  BY <1>1, NoDevice DEF attendanceVars, AttendanceInv, RowsTyped
<1>2. CASE NextAttendance
  BY <1>2, TypingKeepsInv, FireKeepsInv, ServeKeepsInv, HandleSavedKeepsInv, HandleConflictKeepsInv,
     HandleFailureKeepsInv, ReloadKeepsInv, LoseKeepsInv, StartPollKeepsInv, EndPollKeepsInv,
     FormsKeepInv, CommitFormKeepsInv DEF NextAttendance
<1>3. QED
  BY <1>1, <1>2

LEMMA AttendanceInvariant ==
    InitAttendance /\ [][NextAttendance]_attendanceVars => []AttendanceInv
  BY InitAttendanceInv, AttendanceStep, PTL

LEMMA AttendanceInvTypes == AttendanceInv => TypeOKAttendance
  BY DEF AttendanceInv, RowsTyped, DeviceInv, QueueTyped, RequestTyped, TypeOKAttendance

LEMMA AttendanceInvSaves == AttendanceInv => SavedWasAccepted
<1> SUFFICES ASSUME AttendanceInv, NEW d \in Devices, ~queue[d].entry
             PROVE  unaccepted[d] = Nothing
  BY DEF SavedWasAccepted
<1>1. DeviceInv(queue[d], request[d], unaccepted[d])
  BY DEF AttendanceInv
<1>2. queue[d].changes = Nothing /\ request[d].kind = "none"
  BY <1>1 DEF DeviceInv, Closed
<1>3. DOMAIN unaccepted[d] = {}
  BY <1>1, <1>2, NothingIsWellformed DEF DeviceInv, Carried
<1>4. QED
  BY <1>1, <1>3 DEF DeviceInv, Nothing

(* Rows, pages, queues and requests are type correct for any number of pages, *)
(* fields typed, forms and lost answers.                                     *)
THEOREM AttendanceTypeCorrect == SpecAttendance => []TypeOKAttendance
BY AttendanceInvariant, AttendanceInvTypes, PTL DEF SpecAttendance

(* A page that has nothing left to save has typed nothing the server has not *)
(* accepted, whatever conflicted, was lost, retried or polled in between.    *)
THEOREM SavedMeansAccepted == SpecAttendance => []SavedWasAccepted
BY AttendanceInvariant, AttendanceInvSaves, PTL DEF SpecAttendance

(***************************************************************************)
(* The day as a whole.                                                     *)
(***************************************************************************)

DayInv ==
    /\ scene \in {"lifecycle", "attendance", "protection"}
    /\ LifecycleInv /\ AttendanceInv /\ ProtectionInv

LEMMA InitDayInv == InitDay => DayInv
<1> SUFFICES ASSUME InitDay
             PROVE  DayInv
  OBVIOUS
<1>1. InitAttendance
  BY DEF InitDay, InitAttendance
<1>2. QED
  BY <1>1, InitEstablishesLifecycle, InitAttendanceInv, InitProtectionInv DEF InitDay, DayInv

LEMMA DayStep == DayInv /\ [NextDay]_dayVars => DayInv'
<1> SUFFICES ASSUME DayInv, [NextDay]_dayVars
             PROVE  DayInv'
  OBVIOUS
<1>1. [Next]_vars /\ [NextAttendance]_attendanceVars /\ [NextProtection]_protectionVars
  BY DEF NextDay, LifecycleScene, AttendanceScene, ProtectionScene, dayVars
<1>2. scene' = scene
  BY DEF NextDay, LifecycleScene, AttendanceScene, ProtectionScene, dayVars
<1>3. LifecycleInv' /\ AttendanceInv' /\ ProtectionInv'
  BY <1>1, LifecycleStep, AttendanceStep, ProtectionStep DEF DayInv
<1>4. QED
  BY <1>2, <1>3 DEF DayInv

(* The three components keep their invariants in one day: no step of one     *)
(* touches what another keeps.                                               *)
THEOREM DayInvariant == SpecDay => []DayInv
BY InitDayInv, DayStep, PTL DEF SpecDay

(* Whichever of the three is busy is type correct.                           *)
THEOREM DayTypeCorrect == SpecDay => []TypeOKDay
<1>1. DayInv => TypeOKDay
  BY AttendanceInvTypes DEF DayInv, LifecycleInv, ProtectionInv, TypeOKDay
<1>2. QED
  BY <1>1, DayInvariant, PTL

(* What the components promise one by one holds of the day as a whole.       *)
THEOREM DayIsSafe ==
    SpecDay => [](/\ OneStageOpen /\ CurrentActivityIsOpen /\ StageOrder
                  /\ SavedWasAccepted /\ ActiveWasMonitored)
<1>1. DayInv => /\ OneStageOpen /\ CurrentActivityIsOpen /\ StageOrder
                /\ SavedWasAccepted /\ ActiveWasMonitored
  BY AttendanceInvSaves DEF DayInv, LifecycleInv, ProtectionInv
<1>2. QED
  BY <1>1, DayInvariant, PTL
===============================================================================
