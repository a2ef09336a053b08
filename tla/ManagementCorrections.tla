------------------------- MODULE ManagementCorrections -------------------------
(***************************************************************************)
(* Corrections of one recruit's grades by managers (correction_service.py, *)
(* management_corrections.py, correction_scoring.py, routes_corrections.py *)
(* and the editor of static/management-corrections.js). A correction is    *)
(* previewed, approved and applied; in between other managers apply        *)
(* theirs, evaluators save grades and configurations are published. A      *)
(* preview reads one snapshot; applying takes a snapshot and commits later *)
(* (REPEATABLE READ). Grades are the normalised ones.                      *)
(***************************************************************************)
EXTENDS Naturals, Sequences, FiniteSets, Functions, SequencesExt

CONSTANTS
    Managers,
    Configurations,    \* signatures of configurations that can be published while the
                       \* Journee exists: the criteria and the scoring are the same in all
    FirstConfiguration,\* the one published when the recruit's results are first opened
    Targets,           \* criteria sets a correction can aim at: a criterion, an activity, a dimension
    Complete,          \* the targets that are activities, gradable criterion by criterion
    Colors,
    Asked, Given,      \* grades managers ask for, grades evaluations give
    NoGrade, NoColor,
    MaxCorrections,    \* bound: corrections applied
    MaxScores,         \* bound: evaluator saves and attendance changes
    MaxConfigurations  \* bound: publications of a configuration

Criteria == UNION Targets
Grades == Asked \cup Given
Blank == [c \in {} |-> 0]
NoRow == [grades |-> Blank, automatic |-> Blank, adjusted |-> {}, color |-> NoColor]   \* no result

ASSUME CorrectionsAssumption ==
    /\ FirstConfiguration \in Configurations
    /\ Complete \subseteq Targets
    /\ NoColor \notin Colors /\ NoGrade \notin Grades
    /\ MaxCorrections \in Nat /\ MaxScores \in Nat
    /\ MaxConfigurations \in Nat

VARIABLES
    signature,         \* of the configuration that is published
    automatic,         \* [Criteria -> Grades \cup {NoGrade}]: what the evaluations give
    attends,           \* the recruit is active and present: the results have a row
    correction,        \* management_corrections row; revision 0: none
    trail,             \* the audit events of corrections, oldest first
    editor,            \* [Managers -> the page's editor and request]
    scores, publications \* counters for the bounds

correctionVars == <<signature, automatic, attends, correction, trail, editor, scores, publications>>

NoCorrection == [revision |-> 0, values |-> Blank, color |-> NoColor, signature |-> NoColor]
Overrides == UNION {[s -> Asked] : s \in SUBSET Criteria}

InitCorrections ==
    /\ signature = FirstConfiguration
    /\ automatic = [c \in Criteria |-> NoGrade]
    /\ attends = TRUE
    /\ correction = NoCorrection
    /\ trail = <<>>
    /\ editor = [m \in Managers |-> [phase |-> "closed"]]
    /\ scores = 0 /\ publications = 0

-----------------------------------------------------------------------------
(* What a correction would do. *)

(* The grade a criterion counts with: the override, else the evaluations'. *)
Effective(values, c) == IF c \in DOMAIN values THEN values[c] ELSE automatic[c]

(* The recruit's row of the results, with the facts of its criteria: what   *)
(* counts, what the evaluations alone give, what is overridden.             *)
Row(values, color) ==
    IF attends
    THEN [grades |-> [c \in Criteria |-> Effective(values, c)],
          automatic |-> automatic, adjusted |-> DOMAIN values, color |-> color]
    ELSE NoRow

(* Whether what is saved belongs to another configuration. *)
Conflict ==
    /\ correction.revision > 0
    /\ correction.signature # signature
    /\ correction.values # Blank \/ correction.color # NoColor

(* One grade for a whole target, or a grade per criterion of an activity.   *)
Gradings == (UNION {[t -> {g}] : t \in Targets, g \in Asked})
            \cup (UNION {[t -> Asked] : t \in Complete})

(* What an editor can ask for: grades, the automatic grades again, a        *)
(* colour, or what was before a history entry of the same configuration.    *)
Operations ==
    [kind : {"set"}, grades : Gradings]
    \cup [kind : {"restore"}, target : Targets]
    \cup [kind : {"color"}, color : Colors \cup {NoColor}]
    \cup [kind : {"undo"}, event : {i \in DOMAIN trail : trail[i].signature = signature}]

(* The overrides with some grades set. *)
Overlaid(values, grades) ==
    [c \in DOMAIN values \cup DOMAIN grades |->
        IF c \in DOMAIN grades THEN grades[c] ELSE values[c]]

(* The overrides and the colour a correction leaves. *)
Changed(op) ==
    CASE op.kind = "set" -> [values |-> Overlaid(correction.values, op.grades), color |-> correction.color]
      [] op.kind = "restore" ->
            [values |-> Restrict(correction.values, DOMAIN correction.values \ op.target),
             color |-> correction.color]
      [] op.kind = "color" -> [values |-> correction.values, color |-> op.color]
      [] op.kind = "undo" -> [values |-> trail[op.event].before.values,
                              color |-> trail[op.event].before.color]

(* What the manager is shown, and what is fingerprinted. *)
Preview(op) ==
    [before |-> Row(correction.values, correction.color),
     after |-> Row(Changed(op).values, Changed(op).color)]

(* Mutant: only what is shown of the grades is fingerprinted.               *)
FingerprintMut == [row |-> [Row(correction.values, correction.color) EXCEPT !.automatic = Blank],
                   revision |-> correction.revision, signature |-> signature]

Fingerprint == [row |-> Row(correction.values, correction.color),
                revision |-> correction.revision, signature |-> signature]

(* The checks of preview_correction, which apply_correction repeats. *)
Admissible(page, op) ==
    /\ page.revision = correction.revision
    /\ page.signature = signature
    /\ ~Conflict
    /\ op \in Operations
    /\ attends

-----------------------------------------------------------------------------
(* The editor. *)

Page == [phase |-> "open", revision |-> correction.revision, signature |-> signature]

(* The profile is opened, or reloaded, with the latest corrections. *)
Load(m) ==
    /\ editor[m].phase \in {"closed", "open"}
    /\ editor' = [editor EXCEPT ![m] = Page]
    /\ editor' # editor
    /\ UNCHANGED <<signature, automatic, attends, correction, trail, scores, publications>>

(* POST preview: a refusal (409, 422) leaves the editor as it is. *)
AskPreview(m) ==
    /\ editor[m].phase = "open"
    /\ Len(trail) < MaxCorrections
    /\ \E op \in Operations :
        /\ Admissible(editor[m], op)
        /\ editor' = [editor EXCEPT ![m] =
                [phase |-> "approving", revision |-> @.revision, signature |-> @.signature,
                 op |-> op, shown |-> Preview(op), fingerprint |-> Fingerprint]]
    /\ UNCHANGED <<signature, automatic, attends, correction, trail, scores, publications>>

Reopened(m) ==
    [phase |-> "open", revision |-> editor[m].revision, signature |-> editor[m].signature]

(* Cancel, Escape, or any further input forgets the preview. *)
ClearPreview(m) ==
    /\ editor[m].phase = "approving"
    /\ editor' = [editor EXCEPT ![m] = Reopened(m)]
    /\ UNCHANGED <<signature, automatic, attends, correction, trail, scores, publications>>

(* PUT: the transaction's snapshot is taken and everything is previewed and *)
(* fingerprinted again in it.                                               *)
BeginApply(m) ==
    /\ editor[m].phase = "approving"
    /\ LET e == editor[m] IN
       IF Admissible(e, e.op) /\ Fingerprint = e.fingerprint
       THEN editor' = [editor EXCEPT ![m] =
                [phase |-> "applying", revision |-> e.revision, signature |-> e.signature,
                 shown |-> e.shown, found |-> Preview(e.op),
                 before |-> [values |-> correction.values, color |-> correction.color,
                             revision |-> correction.revision],
                 after |-> Changed(e.op)]]
       ELSE editor' = [editor EXCEPT ![m] = Reopened(m)]
    /\ UNCHANGED <<signature, automatic, attends, correction, trail, scores, publications>>

(* No other correction was committed since the snapshot: else the insert    *)
(* violates the unique scope, or the update fails to serialise.             *)
FirstToSaveMut(m) == TRUE   \* Mutant: the last one wins
FirstToSave(m) == correction.revision = editor[m].before.revision

(* The row and its audit event are committed together. The answer may get   *)
(* lost: the page then keeps its old revision.                              *)
CommitApply(m) ==
    /\ editor[m].phase = "applying"
    /\ FirstToSave(m)
    /\ LET e == editor[m]
           saved == [revision |-> e.before.revision + 1, values |-> e.after.values,
                     color |-> e.after.color, signature |-> e.signature]
       IN /\ correction' = saved
          /\ trail' = Append(trail,
                [before |-> e.before,
                 after |-> [values |-> saved.values, color |-> saved.color, revision |-> saved.revision],
                 signature |-> e.signature, approved |-> e.shown, applied |-> e.found])
          /\ \E page \in {Reopened(m), [phase |-> "open", revision |-> saved.revision,
                                         signature |-> signature]} :
                editor' = [editor EXCEPT ![m] = page]
    /\ UNCHANGED <<signature, automatic, attends, scores, publications>>

(* 409: another manager saved first; or the request is lost or rolled back. *)
AbortApply(m) ==
    /\ editor[m].phase = "applying"
    /\ editor' = [editor EXCEPT ![m] = Reopened(m)]
    /\ UNCHANGED <<signature, automatic, attends, correction, trail, scores, publications>>

-----------------------------------------------------------------------------
(* What happens meanwhile. *)

SaveGrade ==
    /\ scores < MaxScores
    /\ \E c \in Criteria, g \in Given : automatic' = [automatic EXCEPT ![c] = g]
    /\ automatic' # automatic
    /\ scores' = scores + 1
    /\ UNCHANGED <<signature, attends, correction, trail, editor, publications>>

MarkAttendance ==
    /\ scores < MaxScores
    /\ attends' = ~attends
    /\ scores' = scores + 1
    /\ UNCHANGED <<signature, automatic, correction, trail, editor, publications>>

PublishConfiguration ==
    /\ publications < MaxConfigurations
    /\ signature' \in Configurations \ {signature}
    /\ publications' = publications + 1
    /\ UNCHANGED <<automatic, attends, correction, trail, editor, scores>>

NextCorrections ==
    \/ \E m \in Managers : Load(m) \/ AskPreview(m) \/ ClearPreview(m) \/ BeginApply(m)
                            \/ CommitApply(m) \/ AbortApply(m)
    \/ SaveGrade \/ MarkAttendance \/ PublishConfiguration

SpecCorrections == InitCorrections /\ [][NextCorrections]_correctionVars

-----------------------------------------------------------------------------

TypeOKCorrections ==
    /\ signature \in Configurations
    /\ automatic \in [Criteria -> Grades \cup {NoGrade}]
    /\ attends \in BOOLEAN
    /\ correction.revision \in 0..MaxCorrections
    /\ correction.values \in Overrides
    /\ correction.color \in Colors \cup {NoColor}
    /\ \A m \in Managers : editor[m].phase \in {"closed", "open", "approving", "applying"}
    /\ scores \in 0..MaxScores /\ publications \in 0..MaxConfigurations

(* Whatever managers do at once, the correction in force is the last one in *)
(* the recruit's history, and each entry starts from what the one before it *)
(* left: no correction is overwritten unseen and none is applied twice      *)
(* (the revision checks of preview_correction and apply_correction).        *)
HistoryIsAChain ==
    /\ \A i \in DOMAIN trail :
        trail[i].before = IF i = 1 THEN [values |-> Blank, color |-> NoColor, revision |-> 0]
                          ELSE trail[i - 1].after
    /\ [values |-> correction.values, color |-> correction.color, revision |-> correction.revision]
        = IF trail = <<>> THEN [values |-> Blank, color |-> NoColor, revision |-> 0]
          ELSE trail[Len(trail)].after

(* A correction that was saved did to the grades exactly what its preview   *)
(* showed the manager, from the grades it showed, although evaluators,      *)
(* attendance and the configuration changed in between (the fingerprint of  *)
(* apply_correction).                                                       *)
AppliedAsPreviewed == \A i \in DOMAIN trail : trail[i].approved = trail[i].applied

=============================================================================
