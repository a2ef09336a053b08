-------------------------- MODULE EventDayProtection --------------------------
(***************************************************************************)
(* Event-day protection: one row per Journee and the monitors that run at  *)
(* GitHub for its activations. The requests for the status, for a restart  *)
(* and for the end read the row, wait for GitHub and commit; a commit      *)
(* writes the columns whose value differs from the one that was read,      *)
(* whatever was written meanwhile. What GitHub says of an activation       *)
(* depends on no row, so reading the row and asking GitHub are one step    *)
(* and the commit is another. The start asks GitHub after its commit.      *)
(***************************************************************************)
EXTENDS Naturals

CONSTANTS
    Journees,
    Handlers,          \* bound: restarts and ends that wait for GitHub at once
    MaxActivations,    \* bound: protections started or restarted
    MaxFailures        \* bound: GitHub calls that fail, and processes killed

ASSUME ProtectionAssumption == MaxActivations \in Nat /\ MaxFailures \in Nat

VARIABLES
    journee,           \* journeys.status
    protection,        \* event_day_protections, one per Journee
    dispatching,       \* activations committed and not dispatched yet
    monitors,          \* the workflow runs at GitHub, by activation
    reading,           \* per Journee, a status read that has GitHub's answer
                       \* and has not committed
    handling,          \* the restarts and ends that have not committed
    mixed,             \* history: rows in which a commit left, or wrote, the
                       \* status or the run of another activation
    activations, failures

protectionVars == <<journee, protection, dispatching, monitors, reading, handling,
                    mixed, activations, failures>>

NoProtection == [status |-> "inactive", activation |-> 0, run |-> 0, age |-> "new"]
NoRead == [activation |-> 0, status |-> "inactive", run |-> 0, columns |-> {}]
Idle == [kind |-> "none"]
Listed == {"running", "succeeded", "failed", "cancelled"}
JourneeStatuses == {"draft", "active", "completed"}

InitProtection ==
    /\ journee = [j \in Journees |-> "draft"]
    /\ protection = [j \in Journees |-> NoProtection]
    /\ dispatching = {}
    /\ monitors = [a \in 1..MaxActivations |-> "none"]
    /\ reading = [j \in Journees |-> NoRead]
    /\ handling = [h \in Handlers |-> Idle]
    /\ mixed = {}
    /\ activations = 0 /\ failures = 0

Failing == failures < MaxFailures /\ failures' = failures + 1

-----------------------------------------------------------------------------
Running(j) == protection[j].status \in {"starting", "active", "incident"} /\ protection[j].age # "over"

(* Mutant: a new activation keeps the status and the run of the one before. *)
ActivatedMut(p) == [p EXCEPT !.activation = activations + 1, !.age = "new"]

Activated(p) == [status |-> "starting", activation |-> activations + 1, run |-> 0, age |-> "new"]

(* The activation is row's from now on and is dispatched after the commit.  *)
(* The row is whole if the commit leaves nothing of the activation before.  *)
Begun(j, row, whole) ==
    /\ activations < MaxActivations
    /\ activations' = activations + 1
    /\ protection' = [protection EXCEPT ![j] = row]
    /\ dispatching' = dispatching \cup {[journee |-> j, activation |-> activations + 1]}
    /\ mixed' = IF whole THEN mixed \ {j} ELSE mixed \cup {j}

(* start_event_day_protection, up to its commit. An incident is started     *)
(* over without cancelling the monitor there may be.                        *)
StartProtection(j) ==
    /\ journee[j] # "completed"
    /\ \A k \in Journees \ {j} : journee[k] # "active" /\ ~Running(k)
    /\ Running(j) => protection[j].status = "incident"
    /\ Begun(j, Activated(protection[j]), TRUE)
    /\ journee' = [journee EXCEPT ![j] = "active"]
    /\ UNCHANGED <<monitors, reading, handling, failures>>

(* update_journey with any other status; archived counts as completed here. *)
UpdateStatus(j, status) ==
    /\ journee[j] # status
    /\ journee' = [journee EXCEPT ![j] = status]
    /\ UNCHANGED <<protection, dispatching, monitors, reading, handling, mixed,
                   activations, failures>>

-----------------------------------------------------------------------------
(* GitHub.                                                                  *)

(* dispatch_monitor after the commit; a failure makes the row an incident,  *)
(* whether or not GitHub took the dispatch, and whatever the row is by now. *)
Dispatch(d) ==
    /\ dispatching' = dispatching \ {d}
    /\ \/ /\ monitors' = [monitors EXCEPT ![d.activation] = "accepted"]
          /\ UNCHANGED <<protection, failures>>
       \/ /\ Failing
          /\ protection' = [protection EXCEPT ![d.journee].status = "incident"]
          /\ \/ UNCHANGED monitors
             \/ monitors' = [monitors EXCEPT ![d.activation] = "accepted"]
    /\ UNCHANGED <<journee, reading, handling, mixed, activations>>

(* A process is killed before a dispatch, or while it waits for GitHub.     *)
Crash ==
    /\ Failing
    /\ \/ /\ \E d \in dispatching : dispatching' = dispatching \ {d}
          /\ UNCHANGED <<reading, handling>>
       \/ /\ \E j \in Journees :
                reading[j] # NoRead /\ reading' = [reading EXCEPT ![j] = NoRead]
          /\ UNCHANGED <<dispatching, handling>>
       \/ /\ \E h \in Handlers :
                handling[h] # Idle /\ handling' = [handling EXCEPT ![h] = Idle]
          /\ UNCHANGED <<dispatching, reading>>
    /\ UNCHANGED <<journee, protection, monitors, mixed, activations>>

(* A dispatch is accepted before the run it creates is listed.              *)
MonitorMoves(a) ==
    /\ \/ monitors[a] = "accepted" /\ monitors' = [monitors EXCEPT ![a] = "running"]
       \/ /\ monitors[a] = "running"
          /\ \E end \in {"succeeded", "failed"} : monitors' = [monitors EXCEPT ![a] = end]
    /\ UNCHANGED <<journee, protection, dispatching, reading, handling, mixed,
                   activations, failures>>

(* find_monitor_run: the run of an activation, if it is listed.             *)
RunOf(a) == IF a # 0 /\ monitors[a] \in Listed THEN a ELSE 0

(* _cancel_protection_monitor; whether it fails changes nothing for its     *)
(* callers.                                                                 *)
CancelMonitor(j) ==
    LET run == IF protection[j].run # 0 THEN protection[j].run ELSE RunOf(protection[j].activation) IN
    \/ Failing /\ UNCHANGED monitors
    \/ /\ monitors' = IF run # 0 /\ monitors[run] = "running"
                      THEN [monitors EXCEPT ![run] = "cancelled"] ELSE monitors
       /\ UNCHANGED failures

-----------------------------------------------------------------------------
(* _sync_protection, on every read of the status.                           *)

(* Mutant: a run that never appears is waited for.                          *)
SyncedStatusMut(p, run) ==
    CASE p.age = "over" -> "completed"
      [] p.age # "over" /\ run = "running" -> "active"
      [] p.age # "over" /\ run = "succeeded" -> "completed"
      [] p.age # "over" /\ run \in {"failed", "cancelled"} -> "incident"
      [] OTHER -> p.status

(* "unavailable": GitHub did not answer.                                    *)
SyncedStatus(p, run) ==
    CASE p.age = "over" -> "completed"
      [] p.age = "late" /\ run = "none" -> "incident"
      [] p.age # "over" /\ run = "running" -> "active"
      [] p.age # "over" /\ run = "succeeded" -> "completed"
      [] p.age # "over" /\ run \in {"failed", "cancelled"} -> "incident"
      [] OTHER -> p.status

SyncedRun(p, run) == IF p.age # "over" /\ run \in Listed THEN p.activation ELSE p.run

(* The columns the read has changed since it read the row.                  *)
Update(p, run) ==
    [activation |-> p.activation, status |-> SyncedStatus(p, run), run |-> SyncedRun(p, run),
     columns |-> (IF SyncedStatus(p, run) # p.status THEN {"status"} ELSE {})
                 \cup (IF SyncedRun(p, run) # p.run THEN {"run"} ELSE {})]

BeginRead(j) ==
    LET p == protection[j] IN
    /\ reading[j] = NoRead
    /\ p.status \notin {"inactive", "stopped", "completed"}
    /\ \/ /\ Failing /\ p.age # "over"
          /\ reading' = [reading EXCEPT ![j] = Update(p, "unavailable")]
       \/ /\ UNCHANGED failures
          /\ reading' = [reading EXCEPT ![j] =
                 Update(p, IF RunOf(p.activation) = 0 THEN "none" ELSE monitors[p.activation])]
    /\ UNCHANGED <<journee, protection, dispatching, monitors, handling, mixed, activations>>

(* The row p with some columns written.                                     *)
Overwritten(p, columns, status, run) ==
    [status |-> IF "status" \in columns THEN status ELSE p.status,
     activation |-> p.activation,
     run |-> IF "run" \in columns THEN run ELSE p.run,
     age |-> p.age]

EndRead(j) ==
    LET read == reading[j] IN
    /\ read # NoRead
    /\ protection' = [protection EXCEPT ![j] = Overwritten(@, read.columns, read.status, read.run)]
    /\ mixed' = IF read.columns # {} /\ protection[j].activation # read.activation
                THEN mixed \cup {j} ELSE mixed
    /\ reading' = [reading EXCEPT ![j] = NoRead]
    /\ UNCHANGED <<journee, dispatching, monitors, handling, activations, failures>>

-----------------------------------------------------------------------------
(* restart_event_day_protection and end_event_day read the row and have its *)
(* monitor cancelled ...                                                    *)
BeginHandling(h, kind, j, columns) ==
    /\ handling[h] = Idle
    /\ protection[j] # NoProtection
    /\ CancelMonitor(j)
    /\ handling' = [handling EXCEPT ![h] = [kind |-> kind, journee |-> j, columns |-> columns]]
    /\ UNCHANGED <<journee, protection, dispatching, reading, mixed, activations>>

BeginRestart(h, j) ==
    BeginHandling(h, "restart", j,
        {c \in {"status", "run"} : \/ c = "status" /\ protection[j].status # "starting"
                                   \/ c = "run" /\ protection[j].run # 0})

(* A Journee that is archived is completed here and written all the same.   *)
BeginEndProtection(h, j) ==
    \E written \in BOOLEAN :
        /\ journee[j] # "completed" => written
        /\ BeginHandling(h, "end", j,
              {c \in {"status", "journee"} : \/ c = "status" /\ protection[j].status # "stopped"
                                             \/ c = "journee" /\ written})

(* ... and commit. A restart always has a new activation and new times to   *)
(* write.                                                                   *)
RestartProtection(h) ==
    LET j == handling[h].journee
        columns == handling[h].columns
        fresh == Activated(protection[j]) IN
    /\ handling[h].kind = "restart"
    /\ Begun(j, [Overwritten(protection[j], columns, fresh.status, fresh.run)
                    EXCEPT !.activation = fresh.activation, !.age = fresh.age],
             /\ protection[j].status # "starting" => "status" \in columns
             /\ protection[j].run # 0 => "run" \in columns)
    /\ handling' = [handling EXCEPT ![h] = Idle]
    /\ UNCHANGED <<journee, monitors, reading, failures>>

EndProtection(h) ==
    LET j == handling[h].journee
        columns == handling[h].columns IN
    /\ handling[h].kind = "end"
    /\ protection' = [protection EXCEPT ![j] = Overwritten(@, columns, "stopped", 0)]
    /\ journee' = [journee EXCEPT ![j] = IF "journee" \in columns THEN "completed" ELSE @]
    /\ handling' = [handling EXCEPT ![h] = Idle]
    /\ UNCHANGED <<dispatching, monitors, reading, mixed, activations, failures>>

(* Without protection there is nothing to cancel.                           *)
EndUnprotected(j) ==
    /\ protection[j] = NoProtection
    /\ journee' = [journee EXCEPT ![j] = "completed"]
    /\ UNCHANGED <<protection, dispatching, monitors, reading, handling, mixed,
                   activations, failures>>

-----------------------------------------------------------------------------
(* Time: two minutes after the start, and the end of the chosen hours.      *)
Aging(j, from, to) ==
    /\ protection[j].status \in {"starting", "active", "incident"}
    /\ protection[j].age = from
    /\ protection' = [protection EXCEPT ![j].age = to]
    /\ UNCHANGED <<journee, dispatching, monitors, reading, handling, mixed,
                   activations, failures>>

TwoMinutes(j) == Aging(j, "new", "late")
Expire(j) == Aging(j, "late", "over")

NextProtection ==
    \/ \E j \in Journees : StartProtection(j)
    \/ \E j \in Journees, status \in {"draft", "completed"} : UpdateStatus(j, status)
    \/ \E d \in dispatching : Dispatch(d)
    \/ Crash
    \/ \E a \in 1..MaxActivations : MonitorMoves(a)
    \/ \E j \in Journees : BeginRead(j)
    \/ \E j \in Journees : EndRead(j)
    \/ \E h \in Handlers, j \in Journees : BeginRestart(h, j)
    \/ \E h \in Handlers, j \in Journees : BeginEndProtection(h, j)
    \/ \E h \in Handlers : RestartProtection(h)
    \/ \E h \in Handlers : EndProtection(h)
    \/ \E j \in Journees : EndUnprotected(j)
    \/ \E j \in Journees : TwoMinutes(j)
    \/ \E j \in Journees : Expire(j)

(* The dashboard reads the status again and again, and time passes.         *)
Polled(j) == BeginRead(j) \/ EndRead(j)

FairProtection ==
    \A j \in Journees : /\ WF_protectionVars(Polled(j))
                        /\ WF_protectionVars(TwoMinutes(j))

SpecProtection == InitProtection /\ [][NextProtection]_protectionVars /\ FairProtection

-----------------------------------------------------------------------------
Protections == [status : {"inactive", "starting", "active", "incident", "stopped", "completed"},
                activation : 0..MaxActivations, run : 0..MaxActivations,
                age : {"new", "late", "over"}]

Reads == [activation : 0..MaxActivations, run : 0..MaxActivations,
          status : {"inactive", "starting", "active", "incident", "completed"},
          columns : SUBSET {"status", "run"}]

Requests == [kind : {"restart", "end"}, journee : Journees,
             columns : SUBSET {"status", "run", "journee"}]

TypeOKProtection ==
    /\ journee \in [Journees -> JourneeStatuses]
    /\ protection \in [Journees -> Protections]
    /\ dispatching \subseteq [journee : Journees, activation : 1..MaxActivations]
    /\ monitors \in [1..MaxActivations -> Listed \cup {"none", "accepted"}]
    /\ reading \in [Journees -> Reads]
    /\ handling \in [Handlers -> Requests \cup {Idle}]
    /\ mixed \subseteq Journees
    /\ activations \in 0..MaxActivations /\ failures \in 0..MaxFailures

(* "Protection is running" is only said of a Journee whose present          *)
(* activation has had a monitor at GitHub, and the run it links to is that  *)
(* activation's, after every restart, failure and crash. Excepted are the   *)
(* rows on which a request committed that had waited for GitHub while       *)
(* another one committed: a read that another activation overtook, and a    *)
(* restart that found the status, or the run, it wants already there.       *)
ActiveWasMonitored ==
    \A j \in Journees \ mixed :
        /\ protection[j].status = "active" => monitors[protection[j].activation] \in Listed
        /\ protection[j].run \in {0, protection[j].activation}

(* The row claims a monitor that GitHub has not listed.                     *)
Unconfirmed(j) ==
    \/ protection[j].status = "starting"
    \/ protection[j].status = "active" /\ RunOf(protection[j].activation) = 0

(* A protection does not stay "starting", nor "active" without a monitor:   *)
(* one that never comes, after a crash before its dispatch and after        *)
(* requests that overlapped too, becomes an incident.                       *)
StartingSettles ==
    \A j \in Journees : Unconfirmed(j) ~> ~Unconfirmed(j)
=============================================================================
