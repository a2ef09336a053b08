----------------------------- MODULE ActiveJournee -----------------------------
(***************************************************************************)
(* Which Journee is active. Five handlers make one active: each reads      *)
(* whether another one is, and writes at its commit; nothing in the schema *)
(* keeps two from being active.                                            *)
(***************************************************************************)
EXTENDS Naturals

CONSTANTS
    ActiveJournees,    \* the Journees of the workspace
    MaxChanges         \* bound: status changes

ASSUME ActiveAssumption == MaxChanges \in Nat

VARIABLES
    state,             \* journeys.status and journeys.version
    handler,           \* per Journee: the handler that has checked and not committed
    overlapped,        \* history: two such handlers, of two Journees, at once
    changes

activeVars == <<state, handler, overlapped, changes>>

NoHandler == [kind |-> "none", version |-> 0]

InitActive ==
    /\ state = [j \in ActiveJournees |-> [status |-> "draft", version |-> 1]]
    /\ handler = [j \in ActiveJournees |-> NoHandler]
    /\ overlapped = FALSE
    /\ changes = 0

(* Mutant: an archived Journee is not looked at, an active one is allowed.  *)
NoOtherActiveMut(j) == \A k \in ActiveJournees \ {j} : state[k].status # "archived"

NoOtherActive(j) == \A k \in ActiveJournees \ {j} : state[k].status # "active"

BeginActivation(j, kind) ==
    /\ changes < MaxChanges
    /\ handler[j] = NoHandler /\ state[j].status # "deleted"
    /\ NoOtherActive(j)
    /\ handler' = [handler EXCEPT ![j] = [kind |-> kind, version |-> state[j].version]]
    /\ overlapped' = (overlapped \/ \E k \in ActiveJournees \ {j} : handler[k] # NoHandler)
    /\ changes' = changes + 1
    /\ UNCHANGED state

(* update_journey with status active; base_version, if the page sends one   *)
(* (0 is none), is compared with the row the handler reads.                 *)
BeginUpdate(j, base) == base \in {0, state[j].version} /\ BeginActivation(j, "update")

(* activity_action, parallel_activity_action and                            *)
(* paired_skills_simulation_action; none of them looks at the status of the *)
(* Journee itself.                                                          *)
BeginOpening(j) == BeginActivation(j, "open")

BeginProtection(j) ==
    state[j].status \notin {"completed", "archived"} /\ BeginActivation(j, "protect")

(* The version written is the one read, plus one; a row deleted meanwhile   *)
(* fails the commit.                                                        *)
Commit(j) ==
    /\ handler[j] # NoHandler
    /\ state' = IF state[j].status = "deleted" THEN state
                ELSE [state EXCEPT ![j] = [status |-> "active", version |-> handler[j].version + 1]]
    /\ handler' = [handler EXCEPT ![j] = NoHandler]
    /\ UNCHANGED <<overlapped, changes>>

(* update_journey with another status, and the end of the event day.        *)
LeaveActive(j, status) ==
    /\ changes < MaxChanges
    /\ status # state[j].status /\ state[j].status # "deleted"
    /\ state' = [state EXCEPT ![j] = [status |-> status, version |-> @.version + 1]]
    /\ changes' = changes + 1
    /\ UNCHANGED <<handler, overlapped>>

(* delete_empty_draft deletes a Journee in any status.                      *)
Delete(j) == LeaveActive(j, "deleted")

NextActive ==
    \/ \E j \in ActiveJournees, base \in 0..(MaxChanges + 1) : BeginUpdate(j, base)
    \/ \E j \in ActiveJournees : BeginOpening(j)
    \/ \E j \in ActiveJournees : BeginProtection(j)
    \/ \E j \in ActiveJournees : Commit(j)
    \/ \E j \in ActiveJournees, status \in {"draft", "completed", "archived"} : LeaveActive(j, status)
    \/ \E j \in ActiveJournees : Delete(j)

SpecActive == InitActive /\ [][NextActive]_activeVars

TypeOKActive ==
    /\ state \in [ActiveJournees -> [status : {"draft", "active", "completed", "archived", "deleted"},
                                     version : 1..(MaxChanges + 1)]]
    /\ handler \in [ActiveJournees -> [kind : {"none", "update", "open", "protect"},
                                       version : 0..(MaxChanges + 1)]]

(* The evaluators' link resolves to one Journee: PLAN.md says "the server   *)
(* allows at most one Active Journee". It does as long as no two handlers   *)
(* that activate different Journees overlap, in every order of the five     *)
(* handlers and of leaving; two that overlap can both pass the check.       *)
SingleActiveUnlessOverlapped ==
    \A j, k \in ActiveJournees :
        state[j].status = "active" /\ state[k].status = "active" => j = k \/ overlapped
=============================================================================
