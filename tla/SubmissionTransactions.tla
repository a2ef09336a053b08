------------------------ MODULE SubmissionTransactions ------------------------
(***************************************************************************)
(* The handlers that write evaluations, as overlapping READ COMMITTED      *)
(* transactions (production PostgreSQL; every handler runs in a thread of  *)
(* its own with a session of its own). EvaluationRounds has the same       *)
(* handlers as single steps. Here: one activity of an active Journee, one  *)
(* (evaluator, recruit) pair, the rounds published one after the other.    *)
(*                                                                         *)
(* A statement sees what is committed when it runs; an object read once    *)
(* keeps its first values for the rest of its transaction (identity map);  *)
(* an UPDATE is by primary key and writes the columns whose value changed. *)
(***************************************************************************)
EXTENDS Naturals, Sequences, FiniteSets

CONSTANTS
    Tabs,              \* evaluator tabs or devices that save this task
    Admins,            \* admins that correct this evaluation
    MaxRounds,         \* bound: rounds published
    MaxSaves           \* bound: acknowledged saves and corrections

ASSUME TransactionsAssumption ==
    /\ Tabs \cap Admins = {}
    /\ MaxRounds \in Nat \ {0}
    /\ MaxSaves \in Nat

VARIABLES
    status,            \* ActivityState.status
    current,           \* ActivityState.assignment_round_id, the published round
    paired,            \* rounds with an assignment of the pair
    rows,              \* EvaluationSubmission rows, in order of creation
    snapshots,         \* SubmissionVersion rows: <<row, version>>
    saved,             \* saves and corrections acknowledged
    tx,                \* the open transaction of each tab and admin
    publishing         \* the open transaction of the publishing admin

vars == <<status, current, paired, rows, snapshots, saved, tx, publishing>>

Counting == {"submitted", "locked"}

Idle == [phase |-> "idle", submit |-> FALSE, base |-> 0, round |-> 0,
         status |-> "open", row |-> 0, version |-> 0, was |-> "none"]
NotPublishing == [phase |-> "idle", keep |-> TRUE, row |-> 0]

(* The activity is open with its first round published.                     *)
Init ==
    /\ status = "open"
    /\ current = 1
    /\ paired = {1}
    /\ rows = <<>>
    /\ snapshots = {}
    /\ saved = 0
    /\ tx = [c \in Tabs \cup Admins |-> Idle]
    /\ publishing = NotPublishing

-----------------------------------------------------------------------------
(* The row on the assignment of a round; 0 for none.                        *)
RowOn(round) ==
    IF \E i \in DOMAIN rows : rows[i].round = round
    THEN CHOOSE i \in DOMAIN rows : rows[i].round = round
    ELSE 0

(* client_version: null, or any version the client may have been shown.     *)
Bases == {0} \cup {v \in 1..MaxSaves : \E i \in DOMAIN rows : rows[i].version >= v}

(* A transaction that has found its assignment, and one that has read the   *)
(* row on it as well (0: there is none).                                    *)
Assigned(submit, base, round) ==
    [phase |-> "assigned", submit |-> submit, base |-> base, round |-> round,
     status |-> status, row |-> 0, version |-> 0, was |-> "none"]

WithRow(t, i) ==
    [phase |-> "ready", submit |-> t.submit, base |-> t.base, round |-> t.round,
     status |-> t.status, row |-> i,
     version |-> IF i = 0 THEN 0 ELSE rows[i].version,
     was |-> IF i = 0 THEN "none" ELSE rows[i].status]

(* Mutant: only submits are checked.                                        *)
AcceptedMut(t, version) == t.submit => t.base \in {0, version}

Accepted(t, version) == t.base \in {0, version}

(* _assigned_task: the published assignment and the state of its activity.  *)
BeginSave(c, submit, base) ==
    /\ tx[c] = Idle
    /\ saved < MaxSaves
    /\ current \in paired
    /\ tx' = [tx EXCEPT ![c] = Assigned(submit, base, current)]
    /\ UNCHANGED <<status, current, paired, rows, snapshots, saved, publishing>>

(* SELECT ... FOR UPDATE on the assignment, held until the commit; then the *)
(* existing submission is read and the client's version compared.           *)
LockAssignment(c) ==
    LET i == RowOn(tx[c].round) IN
    /\ tx[c].phase = "assigned"
    /\ \A d \in Tabs : ~(tx[d].phase = "ready" /\ tx[d].round = tx[c].round)
    /\ \/ /\ i # 0 => Accepted(tx[c], rows[i].version)
          /\ tx[c].status = "open"
          /\ tx' = [tx EXCEPT ![c] = WithRow(@, i)]
       \/ /\ \/ tx[c].status # "open"
             \/ i # 0 /\ ~Accepted(tx[c], rows[i].version)
          /\ tx' = [tx EXCEPT ![c] = Idle]
    /\ UNCHANGED <<status, current, paired, rows, snapshots, saved, publishing>>

(* correct_submission: the row is read without a lock.                      *)
BeginCorrection(c, i, base) ==
    /\ tx[c] = Idle
    /\ saved < MaxSaves
    /\ base \in {0, rows[i].version}
    /\ tx' = [tx EXCEPT ![c] = WithRow(Assigned(TRUE, base, rows[i].round), i)]
    /\ UNCHANGED <<status, current, paired, rows, snapshots, saved, publishing>>

(* Mutant: the activity's status is taken for the evaluation's.             *)
NewStatusMut(c) == IF tx[c].submit THEN tx[c].status ELSE "draft"

(* The status a save or a correction leaves on its object.                  *)
NewStatus(c) ==
    IF ~tx[c].submit THEN "draft"
    ELSE IF c \in Admins /\ tx[c].status = "closed" THEN "locked"
    ELSE "submitted"

(* Mutant: nothing keeps two transactions from writing the same version.    *)
VersionFreeMut(i, version) == TRUE

(* uq_submission_version.                                                   *)
VersionFree(i, version) == <<i, version>> \notin snapshots

(* Mutant: the first lookup is trusted and no constraint refuses the row.    *)
InsertMut(c) ==
    /\ tx[c].phase = "ready"
    /\ tx[c].row = 0 \/ RowOn(tx[c].round) = 0
    /\ rows' = Append(rows, [round |-> tx[c].round, version |-> 1, status |-> NewStatus(c)])
    /\ snapshots' = snapshots \cup {<<Len(rows) + 1, 1>>}
    /\ saved' = saved + 1
    /\ tx' = [tx EXCEPT ![c] = Idle]
    /\ UNCHANGED <<status, current, paired, publishing>>

(* save_submission looks the submission up again by assignment: the row it  *)
(* knows, unless a publication has moved it away; then it inserts another.  *)
Insert(c) ==
    /\ tx[c].phase = "ready"
    /\ RowOn(tx[c].round) = 0
    /\ rows' = Append(rows, [round |-> tx[c].round, version |-> 1, status |-> NewStatus(c)])
    /\ snapshots' = snapshots \cup {<<Len(rows) + 1, 1>>}
    /\ saved' = saved + 1
    /\ tx' = [tx EXCEPT ![c] = Idle]
    /\ UNCHANGED <<status, current, paired, publishing>>

(* The row on the assignment is written back: the object read before, with  *)
(* the version and status read then, unless it is another row by now. A     *)
(* status that did not change since the read is not among the columns.      *)
Update(c) ==
    LET i == RowOn(tx[c].round)
        known == i = tx[c].row
        next == 1 + (IF known THEN tx[c].version ELSE rows[i].version)
        was == IF known THEN tx[c].was ELSE rows[i].status
    IN
    /\ tx[c].phase = "ready"
    /\ i # 0
    /\ VersionFree(i, next)
    /\ rows' = [rows EXCEPT ![i].version = next,
                   ![i].status = IF NewStatus(c) = was THEN @ ELSE NewStatus(c)]
    /\ snapshots' = snapshots \cup {<<i, next>>}
    /\ saved' = saved + 1
    /\ tx' = [tx EXCEPT ![c] = Idle]
    /\ UNCHANGED <<status, current, paired, publishing>>

(* A unique constraint or the connection fails the transaction: error 500,  *)
(* nothing is written.                                                      *)
Rollback(c) ==
    /\ tx[c].phase # "idle"
    /\ tx' = [tx EXCEPT ![c] = Idle]
    /\ UNCHANGED <<status, current, paired, rows, snapshots, saved, publishing>>

-----------------------------------------------------------------------------
(* publish_assignment_round reads the submission on the published round ... *)
BeginPublish(keep) ==
    LET i == RowOn(current) IN
    /\ publishing.phase = "idle"
    /\ current < MaxRounds
    /\ ~keep /\ i # 0 => rows[i].status \notin Counting
    /\ publishing' = [phase |-> "ready", keep |-> keep, row |-> i]
    /\ UNCHANGED <<status, current, paired, rows, snapshots, saved, tx>>

(* ... and moves it to the new round's assignment of the same pair.         *)
CommitPublish ==
    /\ publishing.phase = "ready"
    /\ current' = current + 1
    /\ paired' = IF publishing.keep THEN paired \cup {current + 1} ELSE paired
    /\ rows' = [i \in DOMAIN rows |->
                   IF publishing.keep /\ i = publishing.row
                   THEN [rows[i] EXCEPT !.round = current + 1]
                   ELSE rows[i]]
    /\ publishing' = NotPublishing
    /\ UNCHANGED <<status, snapshots, saved, tx>>

(* activity_action; its UPDATE statements see every committed row.          *)
Relabelled(from, to) ==
    [i \in DOMAIN rows |->
        IF rows[i].status = from THEN [rows[i] EXCEPT !.status = to] ELSE rows[i]]

Close ==
    /\ status = "open"
    /\ status' = "closed"
    /\ rows' = Relabelled("submitted", "locked")
    /\ UNCHANGED <<current, paired, snapshots, saved, tx, publishing>>

Reopen ==
    /\ status = "closed"
    /\ status' = "open"
    /\ rows' = Relabelled("locked", "submitted")
    /\ UNCHANGED <<current, paired, snapshots, saved, tx, publishing>>

-----------------------------------------------------------------------------
Next ==
    \/ \E c \in Tabs, submit \in BOOLEAN, base \in Bases : BeginSave(c, submit, base)
    \/ \E c \in Tabs : LockAssignment(c)
    \/ \E c \in Admins, i \in DOMAIN rows, base \in Bases : BeginCorrection(c, i, base)
    \/ \E c \in Tabs \cup Admins : Insert(c)
    \/ \E c \in Tabs \cup Admins : Update(c)
    \/ \E c \in Tabs \cup Admins : Rollback(c)
    \/ \E keep \in BOOLEAN : BeginPublish(keep)
    \/ CommitPublish
    \/ Close
    \/ Reopen

Spec == Init /\ [][Next]_vars

-----------------------------------------------------------------------------
TypeOK ==
    /\ status \in {"open", "closed"}
    /\ current \in 1..MaxRounds
    /\ paired \subseteq 1..MaxRounds
    /\ rows \in Seq([round : 1..MaxRounds, version : Nat \ {0},
                     status : {"draft", "submitted", "locked"}])
    /\ snapshots \subseteq (DOMAIN rows) \X (Nat \ {0})
    /\ saved \in Nat
    /\ \A c \in Tabs \cup Admins :
          /\ tx[c].phase \in {"idle", "assigned", "ready"}
          /\ tx[c].row \in 0..Len(rows)
    /\ publishing.row \in 0..Len(rows)

(* "Every save has a submission_versions snapshot" (docs/ARCHITECTURE.md):  *)
(* each acknowledged save or correction is a version of its own, and the    *)
(* versions of a row run from 1 to its version without a gap, although      *)
(* corrections take no lock and publications move rows meanwhile.           *)
HistoryComplete ==
    /\ Cardinality(snapshots) = saved
    /\ \A i \in DOMAIN rows, v \in 1..(MaxSaves + 1) :
          <<i, v>> \in snapshots <=> v <= rows[i].version

(* Optimistic versions: a save or a correction that names the version it    *)
(* was based on, and found a row to compare it with, never overwrites       *)
(* another one, whatever commits between its check and its own commit.      *)
NoBlindOverwrite ==
    [][\A c \in Tabs \cup Admins, i \in DOMAIN rows :
          (/\ tx[c].base # 0 /\ tx[c].row = i /\ tx[c] # tx'[c]
           /\ rows'[i].version # rows[i].version)
              => rows[i].version = tx[c].base]_vars

(* An assignment has one submission (uq_submission_assignment), also while  *)
(* publications move submissions to the rounds that evaluators save on.     *)
OneRowPerAssignment ==
    \A i, j \in DOMAIN rows : rows[i].round = rows[j].round => i = j

(* "Preserve the submission by moving it to the unchanged logical pair in   *)
(* the newly published version": a submitted evaluation of a pair that the  *)
(* published round has is on that round.                                    *)
SubmittedIsCurrent ==
    \A i \in DOMAIN rows :
        rows[i].status \in Counting /\ current \in paired => rows[i].round = current
=============================================================================
