------------------------------ MODULE SheetBackup ------------------------------
(***************************************************************************)
(* The manual backup of a workspace into a spreadsheet: the owner's tab    *)
(* (static/sheet-backup.js), the jobs of one or more deployments           *)
(* (sheet_backup_jobs.py), the signed transport with its attempts          *)
(* (sheet_backup_transport.py) and the Apps Script that stages and         *)
(* publishes (integrations/google-sheet-backup/Code.js).                   *)
(*                                                                         *)
(* A backup is a run of operations 0..Steps-1: the first prepares staging  *)
(* tabs, the last publishes them, those between fill and verify them.      *)
(* The script handles one request at a time under its lock, but may be     *)
(* killed after changing the spreadsheet and before saving its state.      *)
(***************************************************************************)
EXTENDS Integers, FiniteSets, Sequences, SequencesExt

CONSTANTS
    Servers,           \* deployments of the application, with one owner each
    Steps,             \* operations of a backup
    MaxRuns,           \* bound: backups started
    MaxFailures        \* bound: requests with a failed attempt, and restarts

ASSUME BackupAssumption == Steps \in Nat \ {0, 1} /\ {MaxRuns, MaxFailures} \subseteq Nat

VARIABLES
    tab,               \* the loop of each owner's tab
    job,               \* the job of each server, lost when it restarts
    call,              \* the request each server's thread waits for
    late,              \* requests given up by their sender, not yet handled
    lease,             \* the script's RUN property, and whether it is unexpired
    tabs,              \* operations whose effect is in the tabs a run owns
    publications,      \* the runs published so far; the last is the marker
    withdrawn,         \* history: runs whose abort was asked for
    runs,              \* backups started
    failures

script == <<lease, tabs, publications>>
server == <<job, call, late, withdrawn, runs>>
vars == <<tab, server, script, failures>>

Runs == 1..MaxRuns
Publishing == Steps - 1

NoJob == [run |-> 0, progress |-> 0, state |-> "none"]
NoCall == [action |-> "none", run |-> 0, seq |-> 0, attempt |-> 0, reply |-> "none", next |-> 0]
NoLease == [run |-> 0, next |-> 0, live |-> FALSE]

(* The run of the publication marker in the spreadsheet, 0 without one.     *)
published == IF publications = <<>> THEN 0 ELSE Last(publications)

Init ==
    /\ tab = [s \in Servers |-> "idle"]
    /\ job = [s \in Servers |-> NoJob]
    /\ call = [s \in Servers |-> NoCall]
    /\ late = {}
    /\ lease = NoLease
    /\ tabs = [r \in Runs |-> {}]
    /\ publications = <<>>
    /\ withdrawn = {}
    /\ runs = 0 /\ failures = 0

Fails(cost) == failures + cost <= MaxFailures /\ failures' = failures + cost

(* The bound counts a request once, however many of its attempts fail.      *)
Cost(q) == IF q.attempt > 1 THEN 0 ELSE 1

-----------------------------------------------------------------------------
(* The script. What a request can come to: the answer, with the sequence    *)
(* number expected next, and what the script leaves behind.                 *)
Replies == {"next", "complete", "cancelled", "busy", "expired", "sequence", "temporary", "refused"}

Answer(reply, next) ==
    [reply |-> reply, next |-> next, failure |-> 0,
     lease |-> lease, tabs |-> tabs, publications |-> publications]

Failure(q, reply) == [Answer(reply, 0) EXCEPT !.failure = Cost(q)]

(* A run that is not the one shown holds an unexpired lease.                *)
Held == lease.live /\ lease.run \notin {0, published}

(* Mutant: the tabs shown are taken for abandoned staging.                  *)
AbandonedMut(r) == TRUE

(* Tabs this integration owns and does not show.                            *)
Abandoned(r) == r # published

Begin(q) ==
    LET cleared == [r \in Runs |-> IF Abandoned(r) THEN {} ELSE tabs[r]] IN
    IF Held
    THEN {IF q.run = lease.run THEN Answer("next", lease.next) ELSE Answer("busy", 0)}
    ELSE {[Answer("next", 0) EXCEPT !.tabs = cleared,
                                    !.lease = [run |-> q.run, next |-> 0, live |-> TRUE]],
          [Failure(q, "temporary") EXCEPT !.tabs = cleared]}     \* killed before it is recorded

(* A published run is not aborted, and the answer is the same.              *)
Abort(q) ==
    {[Answer("cancelled", 0) EXCEPT
        !.lease = IF lease.run = q.run /\ q.run # published THEN NoLease ELSE @]}

(* checkLease and checkSequence. A run's operation of a number never changes,*)
(* so the digest of the last one agrees whenever its number does.           *)
Refusal(q) ==
    IF ~lease.live THEN "expired"
    ELSE IF lease.run # q.run THEN "busy"
    ELSE IF q.seq \notin {lease.next, lease.next - 1} THEN "sequence"
    ELSE "none"

(* Mutant: an operation seen before is applied again.                       *)
SeenBeforeMut(q) == FALSE

SeenBefore(q) == q.seq = lease.next - 1

(* applyOperation: prepare makes the tabs, the operations after it write    *)
(* over what an earlier attempt left in them, and one batch deletes the old *)
(* tabs, shows the new ones and moves the marker.                           *)
Operated(q, answer) ==
    IF q.seq = Publishing
    THEN [answer EXCEPT !.publications = Append(@, q.run),
                        !.tabs = [r \in Runs |-> IF r = published THEN {} ELSE tabs[r]]]
    ELSE [answer EXCEPT !.tabs[q.run] = @ \cup {q.seq}]

Apply(q) ==
    IF q.run = published THEN {Answer("complete", 0)}
    ELSE IF Refusal(q) # "none" THEN {Answer(Refusal(q), 0)}
    ELSE IF SeenBefore(q) THEN {Answer("next", lease.next)}
    ELSE IF q.seq # 0 /\ tabs[q.run] = {} THEN {Answer("refused", 0)}
    ELSE LET done == Answer(IF q.seq = Publishing THEN "complete" ELSE "next", lease.next + 1) IN
         {Operated(q, [done EXCEPT !.lease.next = @ + 1]),
          Operated(q, Failure(q, "temporary"))}    \* killed before it is recorded

Waiting(s) == call[s].action # "none" /\ call[s].reply = "none"

(* Another request may be running: doPost waits a second for its lock.      *)
Contended(q) ==
    \/ late \ {q} # {}
    \/ \E s \in Servers : Waiting(s) /\ call[s] # q

Outcomes(q) ==
    (CASE q.action = "begin" -> Begin(q)
       [] q.action = "abort" -> Abort(q)
       [] q.action = "apply" -> Apply(q))
    \cup {Failure(q, "temporary"),     \* a quota of the service
          Failure(q, "refused")}       \* the read-back differs, the signature is too old
    \cup (IF Contended(q) THEN {Answer("busy", 0)} ELSE {})

Receive(outcome) ==
    /\ Fails(outcome.failure)
    /\ lease' = outcome.lease
    /\ tabs' = outcome.tabs
    /\ publications' = outcome.publications

(* 15 minutes without a step. A begin is rejected 5 minutes after it was    *)
(* signed, so none of this run is on its way any more.                      *)
ExpireLease ==
    /\ lease.live
    /\ \A s \in Servers : ~(call[s].action = "begin" /\ call[s].run = lease.run)
    /\ lease' = [lease EXCEPT !.live = FALSE]
    /\ late' = {q \in late : ~(q.action = "begin" /\ q.run = lease.run)}
    /\ UNCHANGED <<tab, job, call, withdrawn, runs, tabs, publications, failures>>

-----------------------------------------------------------------------------
(* Receiver.call: up to three attempts of one request.                      *)
Attempts == 3

Request(action, run, seq) ==
    [action |-> action, run |-> run, seq |-> seq, attempt |-> 1, reply |-> "none", next |-> 0]

(* What becomes of a call whose attempt has come to something.              *)
Tried(q, attempt, reply, next) ==
    [action |-> q.action, run |-> q.run, seq |-> q.seq,
     attempt |-> attempt, reply |-> reply, next |-> next]

(* Mutant: one attempt too many.                                            *)
AgainMut(s) ==
    call' = [call EXCEPT ![s] =
                IF @.attempt <= Attempts
                THEN Tried(@, @.attempt + 1, "none", 0)
                ELSE Tried(@, @.attempt, "failed", 0)]

(* The next attempt, or the error its caller gets after the last one.       *)
Again(s) ==
    call' = [call EXCEPT ![s] =
                IF @.attempt < Attempts
                THEN Tried(@, @.attempt + 1, "none", 0)
                ELSE Tried(@, @.attempt, "failed", 0)]

(* A temporary failure is tried again, any other answer goes to the caller. *)
Handle(s) ==
    /\ Waiting(s)
    /\ \E outcome \in Outcomes(call[s]) :
          /\ Receive(outcome)
          /\ IF outcome.reply = "temporary"
             THEN Again(s)
             ELSE call' = [call EXCEPT ![s] =
                                Tried(@, @.attempt, outcome.reply, outcome.next)]
    /\ UNCHANGED <<tab, job, late, withdrawn, runs>>

(* A delayed request does its work unseen, or is rejected as too old.       *)
HandleLate(q) ==
    /\ q \in late
    /\ \/ \E outcome \in Outcomes(q) : Receive(outcome)
       \/ UNCHANGED <<script, failures>>
    /\ late' = late \ {q}
    /\ UNCHANGED <<tab, job, call, withdrawn, runs>>

(* Nobody waits for the request any more; it may still do its work.         *)
GivenUp(s) ==
    late' = IF Waiting(s)
            THEN late \cup {[call[s] EXCEPT !.attempt = 0]}
            ELSE late

(* The answer does not come within two minutes, or is lost on its way back; *)
(* one that cannot be read is not tried again.                              *)
LoseAnswer(s) ==
    /\ call[s].action # "none" /\ call[s].reply # "failed"
    /\ Fails(Cost(call[s]))
    /\ GivenUp(s)
    /\ \/ Again(s)
       \/ call' = [call EXCEPT ![s] = Tried(@, @.attempt, "failed", 0)]
    /\ UNCHANGED <<tab, job, withdrawn, runs, script>>

(* The caller has an answer, or the last attempt has failed.                *)
Settled(s) == call[s].reply # "none"

-----------------------------------------------------------------------------
Resumable(s) == job[s].state \in {"running", "interrupted"}

(* Back up, or Retry upload; start_job makes a job and takes the lease.     *)
PressStart(s) ==
    /\ tab[s] = "idle" /\ call[s] = NoCall
    /\ ~Resumable(s)
    /\ runs < MaxRuns
    /\ runs' = runs + 1
    /\ job' = [job EXCEPT ![s] = [run |-> runs + 1, progress |-> 0, state |-> "preparing"]]
    /\ call' = [call EXCEPT ![s] = Request("begin", runs + 1, 0)]
    /\ tab' = [tab EXCEPT ![s] = "running"]
    /\ UNCHANGED <<late, withdrawn, script, failures>>

PressRetry(s) ==
    /\ tab[s] = "idle" /\ Resumable(s)
    /\ tab' = [tab EXCEPT ![s] = "running"]
    /\ UNCHANGED <<server, script, failures>>

(* The loop cancels before its next step; without a loop at once.           *)
PressCancel(s) ==
    /\ tab[s] \in {"idle", "running"} /\ Resumable(s)
    /\ tab' = [tab EXCEPT ![s] = "cancelling"]
    /\ UNCHANGED <<server, script, failures>>

Withdraw(s) ==
    /\ call' = [call EXCEPT ![s] = Request("abort", job[s].run, 0)]
    /\ withdrawn' = withdrawn \cup {job[s].run}

(* A job that is given up: the remote lease is released if it can be.       *)
Abandon(s) ==
    /\ job' = [job EXCEPT ![s] = NoJob]
    /\ Withdraw(s)

BeginAnswered(s) ==
    /\ call[s].action = "begin" /\ Settled(s)
    /\ \/ /\ call[s].reply = "next"
          /\ call' = [call EXCEPT ![s] = NoCall]
          /\ UNCHANGED <<job, withdrawn>>
       \/ /\ call[s].reply # "next"
          /\ Abandon(s)
    /\ UNCHANGED <<tab, late, runs, script, failures>>

(* build_export and the operation file: one snapshot of the database, or an *)
(* error (a photo that cannot be read, a size limit).                       *)
Build(s) ==
    /\ job[s].state = "preparing" /\ call[s] = NoCall
    /\ \/ /\ job' = [job EXCEPT ![s].state = "running"]
          /\ UNCHANGED <<call, withdrawn, failures>>
       \/ /\ Fails(1)
          /\ Abandon(s)
    /\ UNCHANGED <<tab, late, runs, script>>

Advance(s) ==
    /\ tab[s] = "running" /\ Resumable(s) /\ call[s] = NoCall
    /\ call' = [call EXCEPT ![s] = Request("apply", job[s].run, job[s].progress)]
    /\ UNCHANGED <<tab, job, late, withdrawn, runs, script, failures>>

(* What an answered step makes of the job.                                  *)
Acknowledged(s) ==
    [run |-> job[s].run, progress |-> job[s].progress + 1,
     state |-> IF job[s].progress = Publishing THEN "complete" ELSE "running"]

(* Mutant: an error code counts as an acknowledgement.                      *)
ConfirmedMut(s) == call[s].reply # "failed"

(* An answer that does not confirm the step leaves the job as it is.        *)
Confirmed(s) ==
    \/ call[s].reply = "complete"
    \/ /\ call[s].reply = "next"
       /\ call[s].next = job[s].progress + 1
       /\ call[s].seq # Publishing

AdvanceAnswered(s) ==
    /\ call[s].action = "apply" /\ Settled(s)
    /\ \/ /\ Confirmed(s)
          /\ job' = [job EXCEPT ![s] = Acknowledged(s)]
          /\ tab' = [tab EXCEPT ![s] = IF Acknowledged(s).state = "complete" THEN "idle" ELSE @]
       \/ /\ ~Confirmed(s)
          /\ job' = [job EXCEPT ![s].state = IF call[s].reply = "next" THEN @ ELSE "interrupted"]
          /\ tab' = [tab EXCEPT ![s] = "idle"]
    /\ call' = [call EXCEPT ![s] = NoCall]
    /\ UNCHANGED <<late, withdrawn, runs, script, failures>>

Cancel(s) ==
    /\ tab[s] = "cancelling" /\ Resumable(s) /\ call[s] = NoCall
    /\ Withdraw(s)
    /\ UNCHANGED <<tab, job, late, runs, script, failures>>

(* The abort of a cancelled job, or of one given up by start_job.           *)
AbortAnswered(s) ==
    /\ call[s].action = "abort" /\ Settled(s)
    /\ job' = [job EXCEPT ![s].state =
                  IF call[s].reply = "cancelled" /\ @ # "none" THEN "cancelled" ELSE @]
    /\ call' = [call EXCEPT ![s] = NoCall]
    /\ tab' = [tab EXCEPT ![s] = "idle"]
    /\ UNCHANGED <<late, withdrawn, runs, script, failures>>

(* A restart, or the pruning of a job idle for 15 minutes. Nobody waits for *)
(* the request under way, and the tab's next one finds no job.              *)
Restart(s) ==
    /\ job[s] # NoJob
    /\ Fails(1)
    /\ job' = [job EXCEPT ![s] = NoJob]
    /\ call' = [call EXCEPT ![s] = NoCall]
    /\ GivenUp(s)
    /\ tab' = [tab EXCEPT ![s] = "idle"]
    /\ UNCHANGED <<withdrawn, runs, script>>

-----------------------------------------------------------------------------
Next ==
    \/ \E s \in Servers :
          \/ PressStart(s) \/ PressRetry(s) \/ PressCancel(s)
          \/ BeginAnswered(s) \/ Build(s)
          \/ Advance(s) \/ AdvanceAnswered(s)
          \/ Cancel(s) \/ AbortAnswered(s)
          \/ Handle(s) \/ LoseAnswer(s) \/ Restart(s)
    \/ \E q \in late : HandleLate(q)
    \/ ExpireLease

Spec == Init /\ [][Next]_vars

-----------------------------------------------------------------------------
TypeOK ==
    /\ tab \in [Servers -> {"idle", "running", "cancelling"}]
    /\ job \in [Servers -> [run : 0..MaxRuns, progress : 0..Steps,
                   state : {"none", "preparing", "running", "interrupted", "complete", "cancelled"}]]
    /\ \A s \in Servers : call[s].reply \in Replies \cup {"none", "failed"}
    /\ \A s \in Servers : call[s].attempt \in 0..Attempts
    /\ lease \in [run : 0..MaxRuns, next : 0..Steps, live : BOOLEAN]
    /\ tabs \in [Runs -> SUBSET (0..Publishing)]
    /\ publications \in Seq(Runs) /\ withdrawn \subseteq Runs

(* The spreadsheet shows nothing or one whole snapshot, replaced in one     *)
(* step, whatever is lost, delayed, repeated or killed on the way: doPost,  *)
(* dispatch and applyOperation keep what the project's guide promises.      *)
Promise == INSTANCE PublishedBackup WITH
    Snapshots <- Runs,
    None <- 0,
    shown <- IF published = 0 THEN 0
             ELSE IF tabs[published] = 0..(Publishing - 1) THEN published
             ELSE -1
ImplementsPromise == Promise!Spec

(* The script and a job never disagree by more than the one operation whose *)
(* answer may be lost: while the script holds the lease of a job whose run  *)
(* is neither shown yet nor asked to be cancelled, Retry upload is never    *)
(* refused for its sequence number.                                         *)
ResumeFits ==
    \A s \in Servers :
        /\ Resumable(s) /\ lease.run = job[s].run
        /\ job[s].run \notin withdrawn \cup ToSet(publications)
        => lease.next \in {job[s].progress, job[s].progress + 1}

(* advance_job: "Backup complete" is told only of a backup that the         *)
(* spreadsheet has shown.                                                   *)
CompleteWasPublished ==
    \A s \in Servers : job[s].state = "complete" => job[s].run \in ToSet(publications)

(* cancel_job: "Backup cancelled. The previous complete backup is           *)
(* unchanged." The cancelled run is not the one the spreadsheet shows.      *)
CancelledIsUnpublished ==
    \A s \in Servers : job[s].state = "cancelled" => job[s].run \notin ToSet(publications)
=============================================================================
