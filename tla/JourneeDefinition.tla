--------------------------- MODULE JourneeDefinition ---------------------------
(***************************************************************************)
(* The published assessment definition of one recruitment workspace, as    *)
(* far as the event-day workflow depends on it: which activities exist,    *)
(* which activity must be closed before another opens, which activity      *)
(* reuses the assignments of another, and which activities run together.   *)
(* The definition is data validated by app/assessment_config.py and is     *)
(* constant while a Journee runs.                                          *)
(***************************************************************************)
CONSTANTS
    Activities,        \* keys of the enabled activities
    NoActivity,        \* the empty reference ("" or None in the code)
    Predecessor,       \* AssignmentPolicy.predecessor of each activity
    ReuseFrom,         \* AssignmentPolicy.reuseAssignmentsFrom
    ParallelGroup,     \* AssignmentPolicy.parallelGroup; a group is named by
                       \* its first activity in definition order
    PairedActivities,  \* {"skills", "simulation"} of the paired endpoint
    PairedLead,        \* "skills", what that endpoint makes current
    PairedGate         \* "negotiation", what it requires closed

References == Activities \cup {NoActivity}

(* What validate_definition guarantees: references name enabled activities, *)
(* reuse never chains, no activity depends on itself (the code refuses      *)
(* longer cycles too, which nothing here needs).                            *)
ASSUME DefinitionAssumption ==
    /\ NoActivity \notin Activities
    /\ Predecessor \in [Activities -> References]
    /\ \A a \in Activities : Predecessor[a] # a
    /\ ReuseFrom \in [Activities -> References]
    /\ \A a \in Activities :
          ReuseFrom[a] # NoActivity => ReuseFrom[ReuseFrom[a]] = NoActivity
    /\ ParallelGroup \in [Activities -> References]
    /\ \A a \in Activities :
          ParallelGroup[a] # NoActivity
              => ParallelGroup[ParallelGroup[a]] = ParallelGroup[a]

(* The paired endpoint has its activities written into it. In the bundled   *)
(* definition they are a whole parallel group with one predecessor, but     *)
(* validate_definition asks for neither: any groups and predecessors will   *)
(* do. A definition without both of them leaves PairedActivities empty (the *)
(* endpoint answers 404), one without "negotiation" has PairedGate empty    *)
(* (it answers 409).                                                        *)
ASSUME PairedAssumption ==
    PairedActivities # {} =>
        /\ PairedActivities \subseteq Activities
        /\ PairedLead \in PairedActivities
        /\ PairedGate \in References \ PairedActivities

(* Two activities the admin may have open at the same time.                 *)
SameGroup(a, b) ==
    ParallelGroup[a] # NoActivity /\ ParallelGroup[a] = ParallelGroup[b]

GroupMembers(g) == {a \in Activities : ParallelGroup[a] = g}

(* A group endpoint needs at least two members: one besides its lead.       *)
ParallelGroups ==
    {g \in Activities :
        /\ ParallelGroup[g] = g
        /\ \E a \in GroupMembers(g) : a # g}

(* The activities whose rounds are copies of a's rounds.                    *)
ReuseTargets(a) == {t \in Activities : ReuseFrom[t] = a}

(* What may be open together with the paired activities: themselves, and    *)
(* whatever shares a parallel group with one of them.                       *)
PairedStage ==
    {a \in Activities : \E p \in PairedActivities : a = p \/ SameGroup(a, p)}

OneStage(a, b) == a = b \/ SameGroup(a, b) \/ {a, b} \subseteq PairedStage

(* As in the bundled definition: no group endpoint closes some of the paired *)
(* activities without the others, or others with them.                      *)
PairStandsAlone ==
    \A g \in ParallelGroups :
        GroupMembers(g) \cap PairedActivities # {} => GroupMembers(g) = PairedActivities
=============================================================================
