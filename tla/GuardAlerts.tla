------------------------------ MODULE GuardAlerts ------------------------------
(***************************************************************************)
(* scripts/event_day_guard.py: a run probes the application in cycles,     *)
(* mails an outage and its recovery, and keeps what it knows in a file the *)
(* next run reads. Mail fails, saving the file fails, runs are killed at   *)
(* any point, and the file may be lost between runs.                       *)
(***************************************************************************)
EXTENDS Naturals

CONSTANTS
    RetryCount,        \* --retry-count
    MaxOutages,        \* bound: times the application goes down
    MaxMailFailures,   \* bound: mails not delivered
    MaxKills           \* bound: runs killed, saves that fail, and files lost

ASSUME GuardAssumption ==
    /\ RetryCount \in Nat \ {0}
    /\ MaxOutages \in Nat /\ MaxMailFailures \in Nat /\ MaxKills \in Nat

VARIABLES
    up,                \* whether the application answers its health checks
    guard,             \* the running guard: step, attempts left, endpoints failed, state
    file,              \* the state file, or NoFile
    announced,         \* history: what the last mail delivered said
    unsaved,           \* history: a delivery changed what was announced, and no
                       \* save has succeeded since
    forgotten,         \* history: a run ended like that, or the file was lost
    outages, mailFailures, kills

guardVars == <<up, guard, file, announced, unsaved, forgotten, outages, mailFailures, kills>>

NewState == [status |-> "none", pending |-> "none", recent |-> FALSE]
NoFile == [status |-> "nothing"]
Idle == [step |-> "stopped", endpoint |-> "live", attempt |-> 0, healthy |-> TRUE, state |-> NewState]

InitGuard ==
    /\ up = TRUE
    /\ guard = Idle
    /\ file = NoFile
    /\ announced = "none"
    /\ unsaved = FALSE /\ forgotten = FALSE
    /\ outages = 0 /\ mailFailures = 0 /\ kills = 0

-----------------------------------------------------------------------------
(* EmailAlertMonitor(): a readable file of this application is taken over.  *)
StartGuard ==
    /\ guard.step = "stopped"
    /\ guard' = [Idle EXCEPT !.step = "probing",
                    !.state = IF file = NoFile THEN NewState ELSE file]
    /\ UNCHANGED <<up, file, announced, unsaved, forgotten, outages, mailFailures, kills>>

(* check_cycle: each endpoint until it answers or the attempts are used up. *)
Probe ==
    LET last == guard.attempt + 1 = RetryCount
        next == IF guard.endpoint = "live" THEN "probing" ELSE "observing"
    IN
    /\ guard.step = "probing"
    /\ guard' = IF up \/ last
                THEN [guard EXCEPT !.step = next, !.endpoint = IF @ = "live" THEN "ready" ELSE "live",
                         !.attempt = 0, !.healthy = @ /\ up]
                ELSE [guard EXCEPT !.attempt = @ + 1]
    /\ UNCHANGED <<up, file, announced, unsaved, forgotten, outages, mailFailures, kills>>

(* Mutant: a message still unsent is kept when the state changes again.     *)
ObservedMut(s, state) ==
    IF s.status = state THEN s
    ELSE [status |-> state, recent |-> FALSE,
          pending |-> IF s.pending # "none" THEN s.pending
                      ELSE IF s.status # "none" \/ state = "outage" THEN state ELSE "none"]

(* observe: the first healthy reading is not a recovery.                    *)
Observed(s, state) ==
    IF s.status = state THEN s
    ELSE [status |-> state, recent |-> FALSE,
          pending |-> IF s.status # "none" \/ state = "outage" THEN state ELSE "none"]

Observe ==
    /\ guard.step = "observing"
    /\ guard' = [guard EXCEPT !.step = "mailing", !.healthy = TRUE,
                    !.state = Observed(@, IF guard.healthy THEN "healthy" ELSE "outage")]
    /\ UNCHANGED <<up, file, announced, unsaved, forgotten, outages, mailFailures, kills>>

(* At most one attempt in five minutes; a failure leaves it pending. The    *)
(* server may have taken a mail whose sending fails.                        *)
SendMail ==
    /\ guard.step = "mailing"
    /\ guard.state.pending # "none" /\ ~guard.state.recent
    /\ \/ /\ guard' = [guard EXCEPT !.step = "saving",
                                    !.state = [@ EXCEPT !.pending = "none", !.recent = TRUE]]
          /\ announced' = guard.state.pending
          /\ UNCHANGED mailFailures
       \/ /\ mailFailures < MaxMailFailures
          /\ mailFailures' = mailFailures + 1
          /\ guard' = [guard EXCEPT !.step = "saving", !.state = [@ EXCEPT !.recent = TRUE]]
          /\ announced' \in {announced, guard.state.pending}
    /\ unsaved' = (unsaved \/ announced' # announced)
    /\ UNCHANGED <<up, file, forgotten, outages, kills>>

SkipMail ==
    /\ guard.step = "mailing"
    /\ guard.state.pending = "none" \/ guard.state.recent
    /\ guard' = [guard EXCEPT !.step = "saving"]
    /\ UNCHANGED <<up, file, announced, unsaved, forgotten, outages, mailFailures, kills>>

(* What the end of a run does to what it has announced.                     *)
RunEnds == forgotten' = (forgotten \/ unsaved) /\ unsaved' = FALSE

(* A temporary file is moved over the old one; an error leaves the old one. *)
(* Then the next cycle or the end of the run.                               *)
Save ==
    /\ guard.step = "saving"
    /\ \/ /\ file' = guard.state /\ UNCHANGED kills
          /\ guard' \in {[guard EXCEPT !.step = "probing"], Idle}
          /\ unsaved' = FALSE /\ UNCHANGED forgotten
       \/ /\ kills < MaxKills /\ kills' = kills + 1
          /\ UNCHANGED file
          /\ \/ guard' = [guard EXCEPT !.step = "probing"] /\ UNCHANGED <<unsaved, forgotten>>
             \/ guard' = Idle /\ RunEnds
    /\ UNCHANGED <<up, announced, outages, mailFailures>>

(* The interval passes: five minutes after the last attempt.                *)
FiveMinutes ==
    /\ guard.step = "probing" /\ guard.state.recent
    /\ guard' = [guard EXCEPT !.state = [@ EXCEPT !.recent = FALSE]]
    /\ UNCHANGED <<up, file, announced, unsaved, forgotten, outages, mailFailures, kills>>

Kill ==
    /\ guard.step # "stopped"
    /\ kills < MaxKills /\ kills' = kills + 1
    /\ guard' = Idle
    /\ RunEnds
    /\ UNCHANGED <<up, file, announced, outages, mailFailures>>

(* The cache that carries the file from one run to the next misses.         *)
LoseFile ==
    /\ guard.step = "stopped" /\ file # NoFile
    /\ kills < MaxKills /\ kills' = kills + 1
    /\ file' = NoFile /\ forgotten' = TRUE
    /\ UNCHANGED <<up, guard, announced, unsaved, outages, mailFailures>>

GoDown ==
    /\ up /\ outages < MaxOutages
    /\ up' = FALSE /\ outages' = outages + 1
    /\ UNCHANGED <<guard, file, announced, unsaved, forgotten, mailFailures, kills>>

ComeUp ==
    /\ ~up /\ up' = TRUE
    /\ UNCHANGED <<guard, file, announced, unsaved, forgotten, outages, mailFailures, kills>>

NextGuard ==
    \/ StartGuard \/ Probe \/ Observe \/ SendMail \/ SkipMail \/ Save
    \/ FiveMinutes \/ Kill \/ LoseFile \/ GoDown \/ ComeUp

SpecGuard == InitGuard /\ [][NextGuard]_guardVars

-----------------------------------------------------------------------------
States == [status : {"none", "healthy", "outage"}, pending : {"none", "healthy", "outage"},
           recent : BOOLEAN]

TypeOKGuard ==
    /\ up \in BOOLEAN /\ unsaved \in BOOLEAN /\ forgotten \in BOOLEAN
    /\ guard \in [step : {"stopped", "probing", "observing", "mailing", "saving"},
                  endpoint : {"live", "ready"}, attempt : 0..(RetryCount - 1),
                  healthy : BOOLEAN, state : States]
    /\ file = NoFile \/ file \in States
    /\ announced \in {"none", "healthy", "outage"}

(* The last mail delivered is what the guard knows, or the correction is    *)
(* pending: no outage stays announced after its recovery was seen, and no   *)
(* recovery is announced in place of an outage, over mail failures and      *)
(* restarts. Only a run that ends, killed or not, with no successful save   *)
(* since the mail, or a lost file, can break it.                            *)
AnnouncedIsKnown ==
    ~forgotten /\ guard.step \in {"mailing", "saving"} /\ announced # "none"
    => guard.state.pending \in {"none", guard.state.status}
       /\ (guard.state.pending = "none" => announced = guard.state.status)
=============================================================================
