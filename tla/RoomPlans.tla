------------------------------- MODULE RoomPlans -------------------------------
(***************************************************************************)
(* Room plans of one Journee and the settings they are generated from: who *)
(* is present, who is available for which activity, who is mandatory in    *)
(* which room, how many rooms there are. Activity Second follows First and *)
(* may copy its rooms. A handler is one step; what the random generators   *)
(* choose is any outcome their rules allow (Pairing has the rules).        *)
(***************************************************************************)
EXTENDS Naturals, Sequences, FiniteSets, FiniteSetsExt

CONSTANTS
    Recruits, Evaluators,
    First, Second,     \* two room activities; First precedes Second
    MaxRooms,          \* bound: rooms an admin asks for
    MaxPlans,          \* bound: room plans created
    MaxSettings,       \* bound: changes of attendance, availability, mandatory rooms and counts
    MaxEdits           \* bound: edits of working plans

ASSUME RoomsAssumption ==
    /\ First # Second
    /\ MaxRooms \in Nat \ {0} /\ MaxPlans \in Nat /\ MaxSettings \in Nat
    /\ MaxEdits \in Nat

VARIABLES
    attending,         \* recruits that are active and present
    staff,             \* evaluators that are active and present
    journeyRooms,      \* journeys.room_count
    operation,         \* activity_operations: [rooms, version], if created
    available,         \* activity_evaluator_availability
    mandatory,         \* activity_mandatory_evaluators
    legacyMandatory,   \* mandatory_room_evaluators of the Journee
    plans,             \* room_plans with their members, by version
    settings, edits    \* counters for the bounds

roomsVars == <<attending, staff, journeyRooms, operation, available, mandatory,
               legacyMandatory, plans, settings, edits>>

RoomActivities == {First, Second}
NoOperation == [rooms |-> 0, version |-> 0]
Empty == [x \in {} |-> 0]
Before(a) == IF a = Second THEN {First} ELSE {}
PartialRooms(people) == UNION {[p -> 1..MaxRooms] : p \in SUBSET people}

InitRooms ==
    /\ attending = Recruits
    /\ staff = Evaluators
    /\ journeyRooms = 1
    /\ operation = [a \in RoomActivities |-> NoOperation]
    /\ available = [a \in RoomActivities |-> Empty]
    /\ mandatory = [a \in RoomActivities |-> Empty]
    /\ legacyMandatory = Empty
    /\ plans = <<>>
    /\ settings = 0 /\ edits = 0

-----------------------------------------------------------------------------
(* ensure_activity_operation: every handler first creates what is missing   *)
(* of the activity and of those before it.                                  *)

Ensured(a) ==
    [b \in RoomActivities |->
        IF operation[b] # NoOperation \/ b \notin {a} \cup Before(a) THEN operation[b]
        ELSE [rooms |-> IF b = Second /\ operation[First] # NoOperation
                        THEN operation[First].rooms ELSE journeyRooms,
              version |-> 1]]

(* _sync_activity_availability: taken from the activity before, or from     *)
(* attendance.                                                              *)
Synced(a) ==
    LET first == [e \in Evaluators |->
                     IF e \in DOMAIN available[First] THEN available[First][e] ELSE e \in staff]
    IN [b \in RoomActivities |->
           CASE b \notin {a} \cup Before(a) -> available[b]
             [] b = First /\ b \in {a} \cup Before(a) -> first
             [] OTHER -> [e \in Evaluators |->
                             IF e \in DOMAIN available[b] THEN available[b][e] ELSE first[e]]]

Ensure(a) == operation' = Ensured(a) /\ available' = Synced(a)

(* The number of rooms of an activity is changed.                           *)
Counted(a, n) ==
    [Ensured(a) EXCEPT ![a] = [rooms |-> n, version |-> Ensured(a)[a].version + 1]]

Free(a) == {e \in Evaluators : Synced(a)[a][e]}

Latest(a, status) ==
    LET of == {i \in DOMAIN plans : plans[i].activity = a /\ plans[i].status = status}
    IN IF of = {} THEN 0 ELSE Max(of)

Current(a) == IF Latest(a, "preview") # 0 THEN Latest(a, "preview")
              ELSE Latest(a, "published")

Source(a) == IF Latest(First, "published") # 0 THEN Latest(First, "published")
             ELSE Latest(First, "preview")

-----------------------------------------------------------------------------
(* What the generators may return.                                          *)

Placed(rooms, p) == [r \in DOMAIN rooms \cap p |-> rooms[r]]

(* generate_room_plan deals shuffled recruits out to the rooms in turn.     *)
Dealt(people, n) ==
    {f \in [people -> 1..n] :
        \A room \in 1..n :
            Cardinality({r \in people : f[r] = room})
                = Cardinality({i \in 0..(Cardinality(people) - 1) : i % n = room - 1})}

(* mode "recruits": each unlocked recruit in turn to the emptiest room.     *)
Refilled(people, lockedRooms, n) ==
    LET load == [room \in 1..n |->
                    Cardinality({r \in DOMAIN lockedRooms : lockedRooms[r] = room})]
        loose == people \ DOMAIN lockedRooms
        Emptiest(counts) == CHOOSE room \in 1..n : \A k \in 1..n :
                               counts[room] < counts[k] \/ (counts[room] = counts[k] /\ room <= k)
        after[k \in 0..Cardinality(loose)] ==
            IF k = 0 THEN load
            ELSE [after[k - 1] EXCEPT ![Emptiest(after[k - 1])] = @ + 1]
    IN {f \in [people -> 1..MaxRooms] :
           /\ \A r \in people \cap DOMAIN lockedRooms : f[r] = lockedRooms[r]
           /\ \A r \in loose : f[r] <= n
           /\ \A room \in 1..n :
                 Cardinality({r \in loose : f[r] = room})
                     = after[Cardinality(loose)][room] - load[room]}

(* distribute_evaluators_to_rooms: mandatory, then locked, then the others. *)
Seated(free, must, locked, n) ==
    LET musts == {e \in DOMAIN must \cap free : must[e] <= n}
        locks == {e \in DOMAIN locked \cap free : locked[e] <= n} \ musts
    IN {f \in [free -> 1..n] : /\ \A e \in musts : f[e] = must[e]
                               /\ \A e \in locks : f[e] = locked[e]}

-----------------------------------------------------------------------------
(* A new working plan supersedes the one before it, whose members are not   *)
(* read again and are left out.                                             *)

Plan(a, status, revision, recruits, evaluators) ==
    [activity |-> a, status |-> status, revision |-> revision,
     recruits |-> recruits, evaluators |-> evaluators]

Dropped(plan) == Plan(plan.activity, "superseded", 1, Empty, Empty)

Superseded(a, status) ==
    [i \in DOMAIN plans |->
        IF plans[i].activity = a /\ plans[i].status = status THEN Dropped(plans[i])
        ELSE plans[i]]

Working(a, recruits, evaluators) ==
    Append(Superseded(a, "preview"), Plan(a, "preview", 1, recruits, evaluators))

WithLocks(rooms, locks) == [r \in DOMAIN rooms |-> [room |-> rooms[r], locked |-> r \in locks]]

Members(rooms, must, locks) ==
    [e \in DOMAIN rooms |-> [room |-> rooms[e], mandatory |-> e \in must, locked |-> e \in locks]]

Rooms(members) == [p \in DOMAIN members |-> members[p].room]
LockedIn(members) == {p \in DOMAIN members : members[p].locked}

SeatedMust(a, n) == {e \in DOMAIN mandatory[a] \cap Free(a) : mandatory[a][e] <= n}

SameSettings == UNCHANGED <<attending, staff, journeyRooms, mandatory,
                            legacyMandatory, settings>>
UnchangedSettings == SameSettings /\ UNCHANGED edits

(* create_room_preview.                                                     *)
PreviewFull(a) ==
    LET n == Ensured(a)[a].rooms IN
    /\ Len(plans) < MaxPlans
    /\ attending # {} /\ n <= Cardinality(attending)
    /\ \E f \in Dealt(attending, n) :
          \E g \in Seated(Free(a), mandatory[a], Empty, n) :
             plans' = Working(a, WithLocks(f, {}), Members(g, SeatedMust(a, n), {}))
    /\ Ensure(a) /\ UnchangedSettings

(* mode "full", unless the rooms of the activity before are there to copy.  *)
PreviewActivityRooms(a) ==
    /\ Current(a) # 0 \/ a = First \/ Source(a) = 0
    /\ PreviewFull(a)

(* rooms/preview of the older page, for the first activity.                 *)
PreviewRooms == PreviewFull(First)

(* create_activity_room_preview: the half that is kept comes from the       *)
(* current plan, as far as its people are still there.                      *)
KeptRecruits(a) == IF Current(a) = 0 THEN Empty
                   ELSE Placed(Rooms(plans[Current(a)].recruits), attending)

(* Mutant: locks are read from the rooms' members only in working plans.    *)
RecruitLocksMut(a) ==
    IF Latest(a, "preview") = 0 THEN {}
    ELSE LockedIn(plans[Latest(a, "preview")].recruits) \cap attending

RecruitLocks(a) == IF Current(a) = 0 THEN {}
                   ELSE LockedIn(plans[Current(a)].recruits) \cap attending

KeptEvaluators(a) == IF Current(a) = 0 THEN Empty
                     ELSE Placed(Rooms(plans[Current(a)].evaluators), Free(a))

EvaluatorLocks(a) ==
    IF Current(a) = 0 THEN {}
    ELSE {e \in LockedIn(plans[Current(a)].evaluators) \cap Free(a) :
             ~plans[Current(a)].evaluators[e].mandatory}

PreviewRecruits(a) ==
    LET locks == RecruitLocks(a)
        seats == KeptEvaluators(a)
        must == {e \in DOMAIN seats \cap DOMAIN mandatory[a] : seats[e] = mandatory[a][e]}
    IN
    /\ Len(plans) < MaxPlans
    /\ attending # {}
    /\ \E f \in Refilled(attending, Placed(KeptRecruits(a), locks), Ensured(a)[a].rooms) :
          plans' = Working(a, WithLocks(f, locks), Members(seats, must, EvaluatorLocks(a)))
    /\ Ensure(a) /\ UnchangedSettings

PreviewEvaluators(a) ==
    LET n == Ensured(a)[a].rooms
        rooms == KeptRecruits(a)
        locks == EvaluatorLocks(a)
    IN
    /\ Len(plans) < MaxPlans
    /\ rooms # Empty /\ DOMAIN rooms = attending
    /\ \E g \in Seated(Free(a), mandatory[a], Placed(KeptEvaluators(a), locks), n) :
          plans' = Working(a, WithLocks(rooms, RecruitLocks(a)),
                           Members(g, SeatedMust(a, n), locks))
    /\ Ensure(a) /\ UnchangedSettings

(* mode "copy_recruits", and what "full" means before Second has a plan.    *)
CopyRecruits ==
    LET n == Ensured(Second)[Second].rooms
        rooms == Placed(Rooms(plans[Source(Second)].recruits), attending)
    IN
    /\ Len(plans) < MaxPlans
    /\ Source(Second) # 0
    /\ rooms # Empty /\ DOMAIN rooms = attending
    /\ \E g \in Seated(Free(Second), mandatory[Second], Empty, n) :
          plans' = Working(Second, WithLocks(rooms, DOMAIN rooms),
                           Members(g, SeatedMust(Second, n), EvaluatorLocks(Second)))
    /\ Ensure(Second) /\ UnchangedSettings

(* mode "copy_full" takes over the rooms, the locks, the mandatory rooms    *)
(* and the number of rooms of the activity before.                          *)
CopyFull ==
    LET source == plans[Source(Second)]
        rooms == Placed(Rooms(source.recruits), attending)
        seats == Placed(Rooms(source.evaluators), Free(Second))
        must == Placed(mandatory[First], Free(Second))
        locks == {e \in LockedIn(source.evaluators) \cap Free(Second) :
                     ~source.evaluators[e].mandatory}
    IN
    /\ Len(plans) < MaxPlans
    /\ Source(Second) # 0
    /\ rooms # Empty
    /\ plans' = Working(Second, WithLocks(rooms, LockedIn(source.recruits) \cap attending),
                        Members(seats, DOMAIN must, locks))
    /\ mandatory' = [mandatory EXCEPT ![Second] = must]
    /\ operation' = Counted(Second, Ensured(Second)[First].rooms)
    /\ available' = Synced(Second)
    /\ UNCHANGED <<attending, staff, journeyRooms, legacyMandatory, settings, edits>>

-----------------------------------------------------------------------------
(* edit_published_activity_rooms: a working copy of the published plan.     *)
EditPublishedRooms(a) ==
    LET i == Latest(a, "published") IN
    /\ Len(plans) < MaxPlans
    /\ i # 0
    /\ plans' = Working(a, plans[i].recruits, plans[i].evaluators)
    /\ UNCHANGED <<operation, available>> /\ UnchangedSettings

(* update_activity_room_preview: people may be left without a room; a seat  *)
(* in a mandatory room is never locked.                                     *)
EditRooms(i, rooms, locks, seats, seatLocks) ==
    LET a == plans[i].activity
        must == {e \in DOMAIN seats \cap DOMAIN mandatory[a] : seats[e] = mandatory[a][e]}
        n == Ensured(a)[a].rooms
    IN
    /\ plans[i].status = "preview"
    /\ edits < MaxEdits /\ edits' = edits + 1
    /\ \A r \in DOMAIN rooms : rooms[r] <= n
    /\ \A e \in DOMAIN seats : seats[e] <= n
    /\ plans' = [plans EXCEPT ![i] =
                    Plan(a, "preview", plans[i].revision + 1, WithLocks(rooms, locks),
                         Members(seats, must, seatLocks \ must))]
    /\ Ensure(a) /\ SameSettings

(* Inputs: one person is moved, left without a room (0), locked or unlocked. *)
EditOne(i, p, room, lock) ==
    LET Moved(rooms) ==
            IF room = 0 THEN Placed(rooms, DOMAIN rooms \ {p})
            ELSE [q \in DOMAIN rooms \cup {p} |-> IF q = p THEN room ELSE rooms[q]]
        Relocked(locks) == IF lock /\ room # 0 THEN locks \cup {p} ELSE locks \ {p}
        rooms == Rooms(plans[i].recruits)
        locks == LockedIn(plans[i].recruits)
        seats == Rooms(plans[i].evaluators)
        seatLocks == LockedIn(plans[i].evaluators)
    IN
    \/ p \in Recruits /\ EditRooms(i, Moved(rooms), Relocked(locks), seats, seatLocks)
    \/ p \in Evaluators /\ EditRooms(i, rooms, locks, Moved(seats), Relocked(seatLocks))

(* edit_room_preview of the older page: everyone present, exactly once; the *)
(* Journee's mandatory evaluators where they must be.                       *)
EditAllRooms(i, rooms, seats) ==
    /\ plans[i].status = "preview"
    /\ edits < MaxEdits /\ edits' = edits + 1
    /\ DOMAIN rooms = attending /\ DOMAIN seats = staff
    /\ \A r \in DOMAIN rooms : rooms[r] <= journeyRooms
    /\ \A e \in DOMAIN seats : seats[e] <= journeyRooms
    /\ \A e \in DOMAIN legacyMandatory : e \in staff /\ seats[e] = legacyMandatory[e]
    /\ plans' = [plans EXCEPT ![i] =
                    Plan(plans[i].activity, "preview", plans[i].revision, WithLocks(rooms, {}),
                         Members(seats, DOMAIN legacyMandatory, {}))]
    /\ UNCHANGED <<operation, available>> /\ SameSettings

(* publish_room_plan, behind three handlers; the first one also refuses a   *)
(* plan of another activity, or one edited since the page read it.          *)
PublishRoomPlan(i) ==
    /\ plans[i].status = "preview"
    /\ plans' = [Superseded(plans[i].activity, "published") EXCEPT ![i] =
                    Plan(plans[i].activity, "published", plans[i].revision,
                         plans[i].recruits, plans[i].evaluators)]
    /\ UNCHANGED <<operation, available>> /\ UnchangedSettings

PublishActivityRooms(a, i, base) ==
    /\ plans[i].activity = a /\ base \in {0, plans[i].revision}
    /\ PublishRoomPlan(i)

ConfirmRoomPlan(i) == PublishRoomPlan(i)

OverrideRoomPlan(i, reason) == reason # "" /\ PublishRoomPlan(i)

ClearWorkingPlan(a) ==
    /\ Latest(a, "preview") # 0
    /\ plans' = Superseded(a, "preview")
    /\ UNCHANGED <<operation, available>> /\ UnchangedSettings

-----------------------------------------------------------------------------
(* Settings.                                                                *)
Setting == settings < MaxSettings /\ settings' = settings + 1 /\ UNCHANGED edits

(* Attendance, as far as the generators read it: one person comes or goes.  *)
Toggled(people, p) == IF p \in people THEN people \ {p} ELSE people \cup {p}

Attend(p) ==
    /\ Setting
    /\ attending' = IF p \in Recruits THEN Toggled(attending, p) ELSE attending
    /\ staff' = IF p \in Evaluators THEN Toggled(staff, p) ELSE staff
    /\ UNCHANGED <<journeyRooms, operation, available, mandatory, legacyMandatory, plans>>

(* update_activity_availability; a reset copies the activity before.        *)
SetAvailability(a, free) ==
    /\ Setting
    /\ operation' = Ensured(a)
    /\ available' = [Synced(a) EXCEPT ![a] = [e \in Evaluators |-> e \in free]]
    /\ UNCHANGED <<attending, staff, journeyRooms, mandatory, legacyMandatory, plans>>

ResetAvailability(a) ==
    SetAvailability(a, IF a = First THEN staff ELSE Free(First))

SetMandatory(a, must) ==
    /\ Setting
    /\ \A e \in DOMAIN must : must[e] <= Ensured(a)[a].rooms
    /\ mandatory' = [mandatory EXCEPT ![a] = must]
    /\ Ensure(a)
    /\ UNCHANGED <<attending, staff, journeyRooms, legacyMandatory, plans>>

(* update_activity_room_count leaves the plans as they are.                 *)
SetRoomCount(a, n) ==
    /\ Setting
    /\ operation' = Counted(a, n)
    /\ available' = Synced(a)
    /\ UNCHANGED <<attending, staff, journeyRooms, mandatory, legacyMandatory, plans>>

(* change_room_count of the Journee supersedes every plan.                  *)
ChangeRoomCount(n) ==
    /\ Setting
    /\ n # journeyRooms
    /\ attending # {} => n <= Cardinality(attending)
    /\ \A e \in DOMAIN legacyMandatory : legacyMandatory[e] <= n
    /\ journeyRooms' = n
    /\ plans' = [i \in DOMAIN plans |-> Dropped(plans[i])]
    /\ UNCHANGED <<attending, staff, operation, available, mandatory, legacyMandatory>>

SaveMandatoryRooms(must) ==
    /\ Setting
    /\ \A i \in DOMAIN plans : plans[i].status # "published"
    /\ \A e \in DOMAIN must : must[e] <= journeyRooms
    /\ legacyMandatory' = must
    /\ UNCHANGED <<attending, staff, journeyRooms, operation, available, mandatory, plans>>

-----------------------------------------------------------------------------
NextRooms ==
    \/ \E a \in RoomActivities : PreviewActivityRooms(a)
    \/ PreviewRooms
    \/ \E a \in RoomActivities : PreviewRecruits(a)
    \/ \E a \in RoomActivities : PreviewEvaluators(a)
    \/ CopyRecruits
    \/ CopyFull
    \/ \E a \in RoomActivities : EditPublishedRooms(a)
    \/ \E i \in DOMAIN plans, p \in Recruits \cup Evaluators, room \in 0..MaxRooms, lock \in BOOLEAN :
          EditOne(i, p, room, lock)
    \/ \E i \in DOMAIN plans, rooms \in [attending -> 1..MaxRooms], seats \in [staff -> 1..MaxRooms] :
          EditAllRooms(i, rooms, seats)
    \/ \E a \in RoomActivities, i \in DOMAIN plans, base \in 0..(MaxEdits + 1) :
          PublishActivityRooms(a, i, base)
    \/ \E i \in DOMAIN plans : ConfirmRoomPlan(i)
    \/ \E i \in DOMAIN plans, reason \in {"", "reason"} : OverrideRoomPlan(i, reason)
    \/ \E a \in RoomActivities : ClearWorkingPlan(a)
    \/ \E p \in Recruits \cup Evaluators : Attend(p)
    \/ \E a \in RoomActivities, free \in SUBSET Evaluators : SetAvailability(a, free)
    \/ \E a \in RoomActivities : ResetAvailability(a)
    \/ \E a \in RoomActivities, must \in PartialRooms(Evaluators) : SetMandatory(a, must)
    \/ \E a \in RoomActivities, n \in 1..MaxRooms : SetRoomCount(a, n)
    \/ \E n \in 1..MaxRooms : ChangeRoomCount(n)
    \/ \E must \in PartialRooms(Evaluators) : SaveMandatoryRooms(must)

SpecRooms == InitRooms /\ [][NextRooms]_roomsVars

-----------------------------------------------------------------------------
RecruitRooms == UNION {[p -> [room : 1..MaxRooms, locked : BOOLEAN]] : p \in SUBSET Recruits}
EvaluatorRooms == UNION {[p -> [room : 1..MaxRooms, mandatory : BOOLEAN, locked : BOOLEAN]] :
                             p \in SUBSET Evaluators}

Plans == [activity : RoomActivities, status : {"preview", "published", "superseded"},
          revision : 1..(MaxEdits + 1), recruits : RecruitRooms, evaluators : EvaluatorRooms]

TypeOKRooms ==
    /\ attending \subseteq Recruits /\ staff \subseteq Evaluators
    /\ journeyRooms \in 1..MaxRooms
    /\ operation \in [RoomActivities -> [rooms : 0..MaxRooms, version : Nat]]
    /\ \A a \in RoomActivities : DOMAIN available[a] \in {{}, Evaluators}
    /\ mandatory \in [RoomActivities -> PartialRooms(Evaluators)]
    /\ legacyMandatory \in PartialRooms(Evaluators)
    /\ plans \in Seq(Plans) /\ Len(plans) <= MaxPlans
    /\ settings \in 0..MaxSettings /\ edits \in 0..MaxEdits

(* What a step that generates half of a plan again does to its locks.       *)
KeepsLocks ==
    Len(plans') > Len(plans) => \A a \in RoomActivities :
        LET new == plans'[Len(plans')]
            old == plans[Current(a)]
        IN (/\ PreviewRecruits(a) \/ PreviewEvaluators(a)
            /\ Current(a) # 0)
           => /\ \A r \in LockedIn(old.recruits) \cap attending :
                    new.recruits[r] = old.recruits[r]
              /\ \A e \in LockedIn(old.evaluators) \cap Free(a) :
                    \/ old.evaluators[e].room > operation'[a].rooms
                    \/ e \in DOMAIN mandatory[a] \/ old.evaluators[e].mandatory
                    \/ new.evaluators[e] = old.evaluators[e]

(* Who is locked to a room stays there when half of the plan is generated   *)
(* again, whatever happened to the settings and to the plan since: the      *)
(* recruits that are still present, and the evaluators that are available,  *)
(* unless their room is gone, or they have become mandatory, or were so in  *)
(* the plan (whose locks then do not count).                                *)
LocksKept == [][KeepsLocks]_roomsVars
=============================================================================
