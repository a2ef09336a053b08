--------------------------- MODULE EvaluationRounds ---------------------------
(***************************************************************************)
(* Assignment rounds and the evaluations made on them. The admin prepares  *)
(* a preview round of an activity (a set of evaluator-recruit pairs),      *)
(* edits it and publishes it; publishing supersedes the published round,   *)
(* moves its evaluations to the same pairs of the new one and copies the   *)
(* round to the activities that reuse it. Evaluators save drafts and       *)
(* submit on the published round of an open activity; closing an activity  *)
(* locks what was submitted, opening it again unlocks it. The lifecycle of *)
(* the activities is ActivityControl's. Each handler is one transaction.   *)
(***************************************************************************)
EXTENDS JourneeDefinition, Naturals

CONSTANTS
    Reasons, MaxEnding,    \* see ActivityControl
    Pairs,             \* the (evaluator, recruit) pairs of the roster
    MaxRounds          \* bound: rounds created per activity

ASSUME RoundsAssumption == MaxRounds \in Nat /\ Reasons \subseteq BOOLEAN

VARIABLES
    journeyStatus, currentActivity, activityStatus, reopenAudits,
    ending, leftCurrent,
    currentRound,      \* ActivityState.assignment_round_id, as the round's
                       \* version; 0 while it is None
    latest,            \* max(AssignmentRound.version) of each activity
    roundStatus,       \* AssignmentRound.status, "none" before creation
    pairs,             \* the pairs of the round's Assignment rows
    work               \* EvaluationSubmission.status on the assignment of a
                       \* pair in a round, "none" without a submission

controlVars == <<journeyStatus, currentActivity, activityStatus, reopenAudits,
                 ending, leftCurrent>>
roundVars == <<currentRound, latest, roundStatus, pairs>>
vars == <<controlVars, roundVars, work>>

Control == INSTANCE ActivityControl
             WITH assigned <- {a \in Activities : currentRound[a] # 0}

Versions == 1..MaxRounds
RoundStatuses == {"none", "preview", "published", "superseded"}
WorkStatuses == {"none", "draft", "submitted", "locked"}

TypeOK ==
    /\ Control!TypeOK
    /\ currentRound \in [Activities -> 0..MaxRounds]
    /\ latest \in [Activities -> 0..MaxRounds]
    /\ roundStatus \in [Activities -> [Versions -> RoundStatuses]]
    /\ pairs \in [Activities -> [Versions -> SUBSET Pairs]]
    /\ work \in [Activities -> [Versions -> [Pairs -> WorkStatuses]]]

Init ==
    /\ currentRound = [a \in Activities |-> 0]
    /\ latest = [a \in Activities |-> 0]
    /\ roundStatus = [a \in Activities |-> [v \in Versions |-> "none"]]
    /\ pairs = [a \in Activities |-> [v \in Versions |-> {}]]
    /\ work = [a \in Activities |-> [v \in Versions |-> [p \in Pairs |-> "none"]]]
    /\ Control!Init

-----------------------------------------------------------------------------
(* The evaluations that results and the republication check look at.        *)
Counting == {"submitted", "locked"}

(* The published round of an activity, found by its status; 0 for none.     *)
PublishedRound(a) ==
    IF \E v \in Versions : roundStatus[a][v] = "published"
    THEN CHOOSE v \in Versions : roundStatus[a][v] = "published"
    ELSE 0

(* Mutant: locked evaluations are forgotten, only submitted ones protect.   *)
BlockedMut(a, kept) ==
    /\ PublishedRound(a) # 0
    /\ \E p \in Pairs \ kept : work[a][PublishedRound(a)][p] = "submitted"

(* A round with the given pairs would drop an evaluation that counts.       *)
Blocked(a, kept) ==
    /\ PublishedRound(a) # 0
    /\ \E p \in Pairs \ kept : work[a][PublishedRound(a)][p] \in Counting

(* Mutant: drafts stay behind on the old round.                             *)
MovedMut(a, old, new, kept) ==
    [v \in Versions |-> [p \in Pairs |->
        IF old = 0 \/ p \notin kept \/ work[a][old][p] \notin Counting THEN work[a][v][p]
        ELSE IF v = new THEN work[a][old][p]
        ELSE IF v = old THEN "none"
        ELSE work[a][v][p]]]

(* A submission whose pair is kept moves to the pair's new assignment; one  *)
(* whose pair is dropped stays on the round it was made on.                 *)
Moved(a, old, new, kept) ==
    [v \in Versions |-> [p \in Pairs |->
        IF old # 0 /\ p \in kept /\ v = new THEN work[a][old][p]
        ELSE IF old # 0 /\ p \in kept /\ v = old THEN "none"
        ELSE work[a][v][p]]]

(* Statuses of an activity's rounds when those in `replaced' give way to a  *)
(* round v with the given status.                                           *)
Replacing(a, replaced, v, status) ==
    [w \in Versions |->
        IF w = v THEN status
        ELSE IF roundStatus[a][w] \in replaced THEN "superseded"
        ELSE roundStatus[a][w]]

-----------------------------------------------------------------------------
(* A new working round takes the next version and replaces older previews.  *)
NewPreview(a, ps) ==
    LET v == latest[a] + 1 IN
    /\ latest[a] < MaxRounds
    /\ ReuseFrom[a] = NoActivity
    /\ latest' = [latest EXCEPT ![a] = v]
    /\ roundStatus' = [roundStatus EXCEPT ![a] = Replacing(a, {"preview"}, v, "preview")]
    /\ pairs' = [pairs EXCEPT ![a][v] = ps]
    /\ UNCHANGED <<controlVars, currentRound, work>>

(* create_assignment_preview: whichever pairs the generator proposes.       *)
CreatePreview(a) == \E ps \in SUBSET Pairs : NewPreview(a, ps)

(* edit_published_assignments starts from the published round's pairs.      *)
EditPublished(a) ==
    /\ PublishedRound(a) # 0
    /\ NewPreview(a, pairs[a][PublishedRound(a)])

(* Mutant: the published round itself may be edited.                        *)
EditPreviewMut(a, v, ps) ==
    /\ roundStatus[a][v] \in {"preview", "published"}
    /\ ReuseFrom[a] = NoActivity
    /\ pairs' = [pairs EXCEPT ![a][v] = ps]
    /\ UNCHANGED <<controlVars, currentRound, latest, roundStatus, work>>

(* edit_assignment_preview: the admin may write any set of pairs.           *)
EditPreview(a, v, ps) ==
    /\ roundStatus[a][v] = "preview"
    /\ ReuseFrom[a] = NoActivity
    /\ pairs' = [pairs EXCEPT ![a][v] = ps]
    /\ UNCHANGED <<controlVars, currentRound, latest, roundStatus, work>>

(* The round that becomes current when round v of activity a is published:  *)
(* v itself, and a new round of each activity that reuses a's assignments.  *)
Incoming(a, v, b) == IF b = a THEN v ELSE latest[b] + 1

(* Mutant: the copy of a reuse target is published beside the old copy.     *)
OutgoingMut(a, b) == IF b = a THEN {"published"} ELSE {"preview"}

(* A reuse target's working rounds are superseded along with its published. *)
Outgoing(a, b) == IF b = a THEN {"published"} ELSE {"published", "preview"}

(* publish_assignment_round.                                                *)
Publish(a, v) ==
    LET boards == {a} \cup ReuseTargets(a)
        kept == pairs[a][v]
    IN
    /\ ReuseFrom[a] = NoActivity
    /\ roundStatus[a][v] = "preview"
    /\ \A b \in boards : ~Blocked(b, kept)
    /\ \A b \in ReuseTargets(a) : latest[b] < MaxRounds
    /\ work' = [b \in Activities |->
                   IF b \in boards
                   THEN Moved(b, PublishedRound(b), Incoming(a, v, b), kept)
                   ELSE work[b]]
    /\ roundStatus' = [b \in Activities |->
                   IF b \in boards
                   THEN Replacing(b, Outgoing(a, b), Incoming(a, v, b), "published")
                   ELSE roundStatus[b]]
    /\ pairs' = [b \in Activities |->
                   IF b \in ReuseTargets(a)
                   THEN [pairs[b] EXCEPT ![Incoming(a, v, b)] = kept]
                   ELSE pairs[b]]
    /\ currentRound' = [b \in Activities |->
                   IF b \in boards THEN Incoming(a, v, b) ELSE currentRound[b]]
    /\ latest' = [b \in Activities |->
                   IF b \in ReuseTargets(a) THEN Incoming(a, v, b) ELSE latest[b]]
    /\ UNCHANGED controlVars

-----------------------------------------------------------------------------
(* _assigned_task: an evaluator of an active Journee reaches the pair's     *)
(* assignment in the published round that the activity points at.           *)
Reachable(a, p) ==
    /\ journeyStatus = "active"
    /\ currentRound[a] # 0
    /\ roundStatus[a][currentRound[a]] = "published"
    /\ p \in pairs[a][currentRound[a]]

(* The status save_submission leaves.                                       *)
SavedStatus(submit) == IF submit THEN "submitted" ELSE "draft"

(* save_task_draft and submit_task.                                         *)
SaveTask(a, p, submit) ==
    /\ Reachable(a, p)
    /\ activityStatus[a] = "open"
    /\ work' = [work EXCEPT ![a][currentRound[a]][p] = SavedStatus(submit)]
    /\ UNCHANGED <<controlVars, roundVars>>

(* simulate_open_activity_evaluations (test tools): some of the unsubmitted *)
(* assignments of the current round are submitted.                          *)
SimulateEvaluations(a, ps) ==
    /\ activityStatus[a] = "open"
    /\ currentRound[a] # 0
    /\ roundStatus[a][currentRound[a]] = "published"
    /\ ps \subseteq pairs[a][currentRound[a]]
    /\ ps # {}
    /\ \A p \in ps : work[a][currentRound[a]][p] \notin Counting
    /\ work' = [work EXCEPT ![a][currentRound[a]] =
                   [p \in Pairs |-> IF p \in ps THEN "submitted" ELSE @[p]]]
    /\ UNCHANGED <<controlVars, roundVars>>

(* correct_submission: any submission of the Journee, on whatever round.    *)
CorrectSubmission(a, v, p) ==
    /\ work[a][v][p] # "none"
    /\ work' = [work EXCEPT ![a][v][p] =
                   IF activityStatus[a] = "closed" THEN "locked" ELSE "submitted"]
    /\ UNCHANGED <<controlVars, roundVars>>

-----------------------------------------------------------------------------
(* The UPDATE statements of the lifecycle handlers: every submission of the *)
(* activities, whichever round it is on.                                    *)
Relabel(codes, from, to) ==
    work' = [a \in Activities |-> [v \in Versions |-> [p \in Pairs |->
                IF a \in codes /\ work[a][v][p] = from THEN to ELSE work[a][v][p]]]]

(* Mutant: the activity's status is written on its evaluations.             *)
UnlockMut(codes) == Relabel(codes, "locked", "open")

Unlock(codes) == Relabel(codes, "locked", "submitted")
Lock(codes) == Relabel(codes, "submitted", "locked")

OpenActivity(a, action, reason) ==
    UNCHANGED roundVars /\ Control!OpenActivity(a, action, reason) /\ Unlock({a})

CloseActivity(a) ==
    UNCHANGED roundVars /\ Control!CloseActivity(a) /\ Lock({a})

(* Mutant: a group opens without looking at what must come before it.       *)
OpenGroupMut(g, action, reason) ==
    /\ UNCHANGED roundVars
    /\ Control!OpenTogether(GroupMembers(g), g, action, reason)
    /\ Unlock(GroupMembers(g))

OpenGroup(g, action, reason) ==
    UNCHANGED roundVars /\ Control!OpenGroup(g, action, reason) /\ Unlock(GroupMembers(g))

CloseGroup(g) ==
    UNCHANGED roundVars /\ Control!CloseGroup(g) /\ Lock(GroupMembers(g))

(* Mutant: only the lead's evaluations are unlocked.                        *)
OpenPairMut(action, reason) ==
    UNCHANGED roundVars /\ Control!OpenPair(action, reason) /\ Unlock({PairedLead})

OpenPair(action, reason) ==
    UNCHANGED roundVars /\ Control!OpenPair(action, reason) /\ Unlock(PairedActivities)

ClosePair ==
    UNCHANGED roundVars /\ Control!ClosePair /\ Lock(PairedActivities)

UpdateJourney(status) ==
    UNCHANGED roundVars /\ Control!UpdateJourney(status) /\ UNCHANGED work

StartEventDay ==
    UNCHANGED roundVars /\ Control!StartEventDay /\ UNCHANGED work

BeginEnd ==
    UNCHANGED roundVars /\ Control!BeginEnd /\ UNCHANGED work

ForgetEnd ==
    UNCHANGED roundVars /\ Control!ForgetEnd /\ UNCHANGED work

(* end_event_day closes what is open and locks nothing.                     *)
EndEventDay ==
    UNCHANGED roundVars /\ Control!EndEventDay /\ UNCHANGED work

-----------------------------------------------------------------------------
RoundStep ==
    \/ \E a \in Activities : CreatePreview(a)
    \/ \E a \in Activities : EditPublished(a)
    \/ \E a \in Activities, v \in Versions, ps \in SUBSET Pairs : EditPreview(a, v, ps)
    \/ \E a \in Activities, v \in Versions : Publish(a, v)

EvaluationStep ==
    \/ \E a \in Activities, p \in Pairs, submit \in BOOLEAN : SaveTask(a, p, submit)
    \/ \E a \in Activities, ps \in SUBSET Pairs : SimulateEvaluations(a, ps)
    \/ \E a \in Activities, v \in Versions, p \in Pairs : CorrectSubmission(a, v, p)

ControlStep ==
    \/ \E a \in Activities, action \in Control!Actions, reason \in Reasons :
          OpenActivity(a, action, reason)
    \/ \E a \in Activities : CloseActivity(a)
    \/ \E g \in ParallelGroups, action \in Control!Actions, reason \in Reasons :
          OpenGroup(g, action, reason)
    \/ \E g \in ParallelGroups : CloseGroup(g)
    \/ \E action \in Control!Actions, reason \in Reasons : OpenPair(action, reason)
    \/ ClosePair
    \/ \E status \in Control!JourneyStatuses : UpdateJourney(status)
    \/ StartEventDay
    \/ BeginEnd
    \/ EndEventDay
    \/ ForgetEnd

Next == RoundStep \/ EvaluationStep \/ ControlStep

Spec == Init /\ [][Next]_vars

-----------------------------------------------------------------------------
(* "Only the published IDs referenced by activity state are evaluator-      *)
(* visible" (docs/ARCHITECTURE.md): the round an activity points at and the *)
(* round found by its published status are always the same one, also for    *)
(* the activities whose rounds are copies.                                  *)
PublishedIsCurrent ==
    \A a \in Activities, v \in Versions :
        roundStatus[a][v] = "published" <=> currentRound[a] = v

(* "Simulation creates an exact copy of Skills": an activity that reuses    *)
(* another's assignments has a current round exactly when the source has    *)
(* one, with the same pairs, however previews and publications interleave.  *)
MirrorsSource ==
    \A t \in Activities : ReuseFrom[t] # NoActivity =>
        LET s == ReuseFrom[t] IN
        /\ (currentRound[t] = 0) = (currentRound[s] = 0)
        /\ currentRound[s] # 0 =>
              pairs[t][currentRound[t]] = pairs[s][currentRound[s]]

(* A locked evaluation belongs to a closed activity: no sequence of single, *)
(* grouped and paired open and close requests, corrections and              *)
(* publications leaves an evaluation locked in an open activity.            *)
LockedOnlyWhenClosed ==
    \A a \in Activities, v \in Versions, p \in Pairs :
        work[a][v][p] = "locked" => activityStatus[a] = "closed"

(* Every submission row sits on an assignment of its own round, and that    *)
(* round was published at some time.                                        *)
WorkOnAssignments ==
    \A a \in Activities, v \in Versions, p \in Pairs :
        work[a][v][p] # "none" =>
            /\ p \in pairs[a][v]
            /\ roundStatus[a][v] \in {"published", "superseded"}

(* The evaluation of a pair that results count for an activity.             *)
Counts(a, p) ==
    /\ currentRound[a] # 0
    /\ p \in pairs[a][currentRound[a]]
    /\ work[a][currentRound[a]][p] \in Counting

(* A submitted evaluation stops counting only when its evaluator, in an     *)
(* open activity, saves a draft over it: no publication, edit, opening,     *)
(* closing, correction or end of the day takes it out of the results.       *)
SubmittedWorkKept ==
    [][\A a \in Activities, p \in Pairs :
          (Counts(a, p) /\ ~Counts(a, p)') =>
              /\ activityStatus[a] = "open"
              /\ currentRound'[a] = currentRound[a]
              /\ work'[a][currentRound[a]][p] = "draft"]_vars

-----------------------------------------------------------------------------
(* The rounds as the boards of EvaluationBoard.                             *)
BoardOf(a) == IF currentRound[a] = 0 THEN {} ELSE pairs[a][currentRound[a]]

ProgressOf(a, p) ==
    IF currentRound[a] = 0 THEN "none"
    ELSE IF work[a][currentRound[a]][p] \in Counting THEN "done"
    ELSE work[a][currentRound[a]][p]

Board == INSTANCE EvaluationBoard
           WITH board <- [a \in Activities |-> BoardOf(a)],
                progress <- [a \in Activities |-> [p \in Pairs |-> ProgressOf(a, p)]],
                open <- Control!OpenActivities

(* Versioned rounds and moved submissions implement one board per activity  *)
(* whose republication never drops finished work, mirrors included.         *)
ImplementsBoard == Board!Spec

(* Towards the activities, the rounds only ever publish: ActivityControl    *)
(* and what is proved of it hold of the composition.                        *)
ImplementsControl == Control!Spec
=============================================================================
