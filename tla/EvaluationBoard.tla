---------------------------- MODULE EvaluationBoard ----------------------------
(***************************************************************************)
(* What the evaluators and the results are promised, without rounds and    *)
(* versions: for each activity one board of tasks, an (evaluator, recruit) *)
(* pair each, and the progress of each task. Publishing replaces a board   *)
(* and the boards that mirror it in one step; it may drop a task and the   *)
(* draft on it, but never a finished one, and what stays keeps its work.   *)
(***************************************************************************)
CONSTANTS Activities, NoActivity, ReuseFrom, Pairs

VARIABLES
    board,       \* the tasks evaluators see, by activity
    progress,    \* "none", "draft" or "done", by activity and pair
    open         \* the activities evaluators may work on

vars == <<board, progress, open>>

Init ==
    /\ board = [a \in Activities |-> {}]
    /\ progress = [a \in Activities |-> [p \in Pairs |-> "none"]]
    /\ open = {}

(* The admin decides when evaluators may work.                              *)
Schedule ==
    /\ open' \in SUBSET Activities
    /\ UNCHANGED <<board, progress>>

(* An evaluator saves a draft, or submits, on a task of an open activity.   *)
Work(a, p, result) ==
    /\ a \in open
    /\ p \in board[a]
    /\ progress' = [progress EXCEPT ![a][p] = result]
    /\ UNCHANGED <<board, open>>

(* Several tasks of an open activity are finished at once.                  *)
FinishAll(a, ps) ==
    /\ a \in open
    /\ ps \subseteq board[a]
    /\ progress' = [progress EXCEPT ![a] =
                       [p \in Pairs |-> IF p \in ps THEN "done" ELSE @[p]]]
    /\ UNCHANGED <<board, open>>

(* An admin corrects an evaluation that exists.                             *)
Correct(a, p) ==
    /\ progress[a][p] # "none"
    /\ progress' = [progress EXCEPT ![a][p] = "done"]
    /\ UNCHANGED <<board, open>>

Boards(a) == {a} \cup {t \in Activities : ReuseFrom[t] = a}

Publish(a, ps) ==
    /\ \A b \in Boards(a), p \in Pairs \ ps : progress[b][p] # "done"
    /\ board' = [b \in Activities |-> IF b \in Boards(a) THEN ps ELSE board[b]]
    /\ progress' = [b \in Activities |-> [p \in Pairs |->
                       IF b \in Boards(a) /\ p \notin ps
                       THEN "none" ELSE progress[b][p]]]
    /\ UNCHANGED open

Next ==
    \/ Schedule
    \/ \E a \in Activities, p \in Pairs, result \in {"draft", "done"} : Work(a, p, result)
    \/ \E a \in Activities, ps \in SUBSET Pairs : FinishAll(a, ps)
    \/ \E a \in Activities, p \in Pairs : Correct(a, p)
    \/ \E a \in Activities, ps \in SUBSET Pairs : Publish(a, ps)

Spec == Init /\ [][Next]_vars
=============================================================================
