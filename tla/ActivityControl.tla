---------------------------- MODULE ActivityControl ----------------------------
(***************************************************************************)
(* The lifecycle of a Journee and of its activities: the admin opens,      *)
(* closes and reopens activities one at a time or a whole parallel group,  *)
(* changes the Journee's status, and ends the event day. A handler is one  *)
(* transaction and one step, except the end of the day, which waits for    *)
(* GitHub between reading the Journee and writing it. Refusals (4xx)       *)
(* change nothing and are no step here. The refusal that depends on the    *)
(* other Journees is in ActiveJournee.                                     *)
(***************************************************************************)
EXTENDS JourneeDefinition, FiniteSets, Naturals

CONSTANTS
    Reasons,           \* what an admin types: TRUE a reason, FALSE a blank
    MaxEnding          \* bound: different states that waiting ends of the day have read

ASSUME ReasonsAssumption == Reasons \subseteq BOOLEAN

VARIABLES
    journeyStatus,     \* Journey.status
    currentActivity,   \* Journey.current_activity
    activityStatus,    \* ActivityState.status of each activity
    assigned,          \* activities whose assignment_round_id is set
    reopenAudits,      \* what AuditEvent.reason held (TRUE: some text) on the
                       \* rows recorded as a closed activity became open
    ending,            \* what the ends of the day that wait have read; several
                       \* may have read the same
    leftCurrent        \* history: the last change of the activities was an end
                       \* of the day that had read no current activity and
                       \* left there what had come in while it waited

vars == <<journeyStatus, currentActivity, activityStatus, assigned, reopenAudits,
          ending, leftCurrent>>

JourneyStatuses == {"draft", "ready", "active", "completed", "archived"}
ActivityStatuses == {"not_started", "open", "closed"}

TypeOK ==
    /\ journeyStatus \in JourneyStatuses
    /\ currentActivity \in References
    /\ activityStatus \in [Activities -> ActivityStatuses]
    /\ assigned \subseteq Activities
    /\ reopenAudits \subseteq BOOLEAN
    /\ ending \subseteq [completed : BOOLEAN, idle : BOOLEAN]
    /\ leftCurrent \in BOOLEAN

Init ==
    /\ journeyStatus = "draft"
    /\ currentActivity = NoActivity
    /\ activityStatus = [a \in Activities |-> "not_started"]
    /\ assigned = {}
    /\ reopenAudits = {}
    /\ ending = {}
    /\ leftCurrent = FALSE

-----------------------------------------------------------------------------
OpenActivities == {a \in Activities : activityStatus[a] = "open"}

(* Mutant: a predecessor that never opened does not hold its successor back. *)
PredecessorClosedMut(a) ==
    Predecessor[a] # NoActivity => activityStatus[Predecessor[a]] # "open"

PredecessorClosed(a) ==
    Predecessor[a] # NoActivity => activityStatus[Predecessor[a]] = "closed"

(* Mutant: two activities without a group compare as equal groups.          *)
CanRunTogetherMut(a, another) == ParallelGroup[a] = ParallelGroup[another]

(* activity_action looks at one other open activity, whichever the query    *)
(* returns, and tolerates it only when both belong to one parallel group.   *)
CanRunTogether(a, another) == SameGroup(a, another)

(* Only the actions named "reopen" insist on a reason.                      *)
ReasonAccepted(action, reason) == action = "reopen" => reason

(* The audit row of a step that opens the activities of codes.              *)
AuditOpening(codes, reason) ==
    reopenAudits' = IF \E a \in codes : activityStatus[a] = "closed"
                    THEN reopenAudits \cup {reason}
                    ELSE reopenAudits

SetStatus(codes, status) ==
    activityStatus' = [a \in Activities |->
                          IF a \in codes THEN status ELSE activityStatus[a]]

-----------------------------------------------------------------------------
(* activity_action, "open" and "reopen": the current status of the activity *)
(* itself is not looked at.                                                 *)
OpenActivity(a, action, reason) ==
    /\ ReasonAccepted(action, reason)
    /\ a \in assigned
    /\ PredecessorClosed(a)
    /\ \/ /\ OpenActivities \ {a} = {}
          /\ currentActivity' = a
       \/ \E another \in OpenActivities \ {a} :
              /\ CanRunTogether(a, another)
              /\ currentActivity' = another
    /\ SetStatus({a}, "open")
    /\ journeyStatus' = "active"
    /\ AuditOpening({a}, reason)
    /\ leftCurrent' = FALSE
    /\ UNCHANGED <<assigned, ending>>

(* Mutant: closing one activity of a group forgets the ones still open.     *)
CloseActivityMut(a) ==
    /\ activityStatus[a] = "open"
    /\ SetStatus({a}, "closed")
    /\ currentActivity' = NoActivity
    /\ leftCurrent' = FALSE
    /\ UNCHANGED <<journeyStatus, assigned, reopenAudits, ending>>

(* activity_action, "close".                                                *)
CloseActivity(a) ==
    /\ activityStatus[a] = "open"
    /\ SetStatus({a}, "closed")
    /\ \/ /\ OpenActivities \ {a} = {}
          /\ currentActivity' = NoActivity
       \/ currentActivity' \in OpenActivities \ {a}
    /\ leftCurrent' = FALSE
    /\ UNCHANGED <<journeyStatus, assigned, reopenAudits, ending>>

(* What the grouped endpoints share when they open: no activity outside the *)
(* group may be open, and the whole group opens at once.                    *)
OpenTogether(codes, lead, action, reason) ==
    /\ ReasonAccepted(action, reason)
    /\ codes \subseteq assigned
    /\ OpenActivities \subseteq codes
    /\ SetStatus(codes, "open")
    /\ currentActivity' = lead
    /\ journeyStatus' = "active"
    /\ AuditOpening(codes, reason)
    /\ leftCurrent' = FALSE
    /\ UNCHANGED <<assigned, ending>>

CloseTogether(codes) ==
    /\ codes \cap OpenActivities # {}
    /\ SetStatus(codes \cap OpenActivities, "closed")
    /\ currentActivity' = NoActivity
    /\ leftCurrent' = FALSE
    /\ UNCHANGED <<journeyStatus, assigned, reopenAudits, ending>>

(* parallel_activity_action.                                                *)
OpenGroup(g, action, reason) ==
    /\ \A a \in GroupMembers(g) : PredecessorClosed(a)
    /\ OpenTogether(GroupMembers(g), g, action, reason)

CloseGroup(g) == CloseTogether(GroupMembers(g))

(* paired_skills_simulation_action: the groups and the predecessors of the   *)
(* paired activities are not looked at.                                     *)
OpenPair(action, reason) ==
    /\ PairedActivities # {} /\ PairedGate # NoActivity
    /\ activityStatus[PairedGate] = "closed"
    /\ OpenTogether(PairedActivities, PairedLead, action, reason)

ClosePair == CloseTogether(PairedActivities)

-----------------------------------------------------------------------------
(* publish_assignment_round gives the activity and its reuse targets a      *)
(* current round.                                                           *)
PublishAssignments(a) ==
    /\ ReuseFrom[a] = NoActivity
    /\ assigned' = assigned \cup {a} \cup ReuseTargets(a)
    /\ UNCHANGED <<journeyStatus, currentActivity, activityStatus, reopenAudits,
                   ending, leftCurrent>>

(* update_journey: any status, whatever the activities are doing.           *)
UpdateJourney(status) ==
    /\ journeyStatus' = status
    /\ UNCHANGED <<currentActivity, activityStatus, assigned, reopenAudits,
                   ending, leftCurrent>>

(* start_event_day_protection, as far as the Journee is concerned.          *)
StartEventDay ==
    /\ journeyStatus \notin {"completed", "archived"}
    /\ journeyStatus' = "active"
    /\ UNCHANGED <<currentActivity, activityStatus, assigned, reopenAudits,
                   ending, leftCurrent>>

(* end_event_day. The Journee is read before the handler waits for GitHub,  *)
(* the open activities after it; the commit writes the columns of the       *)
(* Journee whose value differs from the one that was read.                  *)
Seen == [completed |-> journeyStatus = "completed", idle |-> currentActivity = NoActivity]

BeginEnd ==
    /\ Cardinality(ending) < MaxEnding
    /\ ending' = ending \cup {Seen}
    /\ UNCHANGED <<journeyStatus, currentActivity, activityStatus, assigned,
                   reopenAudits, leftCurrent>>

(* Mutant: the activities' word for the end used for the Journee.           *)
EndedMut(read) ==
    /\ SetStatus(OpenActivities, "closed")
    /\ journeyStatus' = "closed"
    /\ currentActivity' = NoActivity
    /\ leftCurrent' = FALSE
    /\ UNCHANGED <<assigned, reopenAudits>>

Ended(read) ==
    /\ SetStatus(OpenActivities, "closed")
    /\ journeyStatus' = IF read.completed THEN journeyStatus ELSE "completed"
    /\ currentActivity' = IF read.idle THEN currentActivity ELSE NoActivity
    /\ leftCurrent' = (currentActivity' # NoActivity)
    /\ UNCHANGED <<assigned, reopenAudits>>

(* A Journee without protection has nothing to wait for; a request whose    *)
(* process dies while it waits is only forgotten.                           *)
EndEventDay ==
    \/ Ended(Seen) /\ UNCHANGED ending
    \/ \E read \in ending : Ended(read) /\ ending' \in {ending, ending \ {read}}

ForgetEnd ==
    /\ \E read \in ending : ending' = ending \ {read}
    /\ UNCHANGED <<journeyStatus, currentActivity, activityStatus, assigned,
                   reopenAudits, leftCurrent>>

-----------------------------------------------------------------------------
Actions == {"open", "reopen"}

Next ==
    \/ \E a \in Activities, action \in Actions, reason \in Reasons :
          OpenActivity(a, action, reason)
    \/ \E a \in Activities : CloseActivity(a)
    \/ \E g \in ParallelGroups, action \in Actions, reason \in Reasons :
          OpenGroup(g, action, reason)
    \/ \E g \in ParallelGroups : CloseGroup(g)
    \/ \E action \in Actions, reason \in Reasons : OpenPair(action, reason)
    \/ ClosePair
    \/ \E a \in Activities : PublishAssignments(a)
    \/ \E status \in JourneyStatuses : UpdateJourney(status)
    \/ StartEventDay
    \/ BeginEnd
    \/ EndEventDay
    \/ ForgetEnd

Spec == Init /\ [][Next]_vars

-----------------------------------------------------------------------------
(* Evaluators are led to one stage of the day: whatever sequence of single, *)
(* grouped and paired actions the admins used, all the activities that are  *)
(* open at once belong to one parallel group, although activity_action      *)
(* compares with only one of the other open activities. The paired endpoint *)
(* makes its activities one stage with their groups, whatever those are.    *)
OneStageOpen ==
    \A a, b \in OpenActivities : OneStage(a, b)

(* Journey.current_activity, which the evaluator home page and the live     *)
(* dashboard follow, names an open activity exactly while one is open. Two  *)
(* exceptions: a grouped endpoint clears it although, in a definition whose *)
(* paired activities are not exactly one group, others of the paired stage  *)
(* are open still; and an end of the day that overlapped an opening closes  *)
(* what was opened and leaves it current.                                   *)
CurrentActivityIsOpen ==
    \/ currentActivity \in OpenActivities
    \/ /\ currentActivity = NoActivity
       /\ OpenActivities = {} \/ (OpenActivities \subseteq PairedStage /\ ~PairStandsAlone)
    \/ leftCurrent /\ OpenActivities = {}

(* The order of the day: while an activity is open the activity it must     *)
(* follow stays closed, so no admin can slip back to an earlier stage and   *)
(* leave a later one open. A predecessor of the same stage is exempt (its   *)
(* endpoint opens both together), and the paired activities, for which the  *)
(* paired endpoint asks for no predecessor but "negotiation".               *)
StageOrder ==
    \A a \in OpenActivities :
        \/ Predecessor[a] = NoActivity
        \/ OneStage(a, Predecessor[a])
        \/ a \in PairedActivities /\ Predecessor[a] # PairedGate
        \/ activityStatus[Predecessor[a]] = "closed"

(* "Reopening requires an audit reason" (runbooks/EVENT_DAY.md): no closed  *)
(* activity becomes open again with a blank reason in the audit trail.      *)
ReopeningHasReason == FALSE \notin reopenAudits
=============================================================================
