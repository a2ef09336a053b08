------------------------------ MODULE MCEventDay ------------------------------
(***************************************************************************)
(* What the admin's dashboard and the attendance pages do on the day: the   *)
(* lifecycle of the activities, the protection of the event and the         *)
(* attendance of a recruit share no state (the refusal that depends on the  *)
(* other Journees is in ActiveJournee). Each is a scene, chosen at the      *)
(* start, in which its module alone takes steps.                            *)
(***************************************************************************)
EXTENDS MCActivityControl, Attendance, EventDayProtection

VARIABLE scene

dayVars == <<vars, attendanceVars, protectionVars, scene>>

InitDay ==
    /\ scene \in {"lifecycle", "attendance", "protection"}
    /\ Init
    /\ IF scene = "attendance" THEN InitAttendance ELSE Opened("active")
    /\ InitProtection

LifecycleScene ==
    /\ scene = "lifecycle" /\ Next
    /\ UNCHANGED <<attendanceVars, protectionVars, scene>>

AttendanceScene ==
    /\ scene = "attendance" /\ NextAttendance
    /\ UNCHANGED <<vars, protectionVars, scene>>

ProtectionScene ==
    /\ scene = "protection" /\ NextProtection
    /\ UNCHANGED <<vars, attendanceVars, scene>>

NextDay == LifecycleScene \/ AttendanceScene \/ ProtectionScene

(* The fairness of the two parts that have one, in their scenes.            *)
FairDay ==
    /\ \A d \in Devices : WF_attendanceVars(scene = "attendance" /\ Serviced(d))
    /\ \A j \in Journees : /\ WF_protectionVars(scene = "protection" /\ Polled(j))
                           /\ WF_protectionVars(scene = "protection" /\ TwoMinutes(j))

SpecDay == InitDay /\ [][NextDay]_dayVars /\ FairDay

(* The part whose scene it is is type correct; the others are at rest.      *)
TypeOKDay ==
    CASE scene = "lifecycle" -> TypeOK
      [] scene = "attendance" -> TypeOKAttendance
      [] scene = "protection" -> TypeOKProtection
=============================================================================
