# A TLA+ development of the Journee recruitment application

The application runs a recruitment day ("Journee"). Administrators prepare
activities, publish which evaluator grades which recruit, and open and close the
activities one stage after another; evaluators grade on their phones; results,
corrections, backups and monitoring surround that core. The server is FastAPI
with SQLAlchemy: every request is a synchronous handler in a thread of its own,
with one session and one transaction, on PostgreSQL at READ COMMITTED. The
clients are plain JavaScript; the spreadsheet backup ends in a Google Apps Script.

## Inventory

| Component | Code (`src/`) | State it keeps | Operations | Talks to |
|---|---|---|---|---|
| assessment definition | `app/assessment_config.py`, `assessment_service.py`, `assessment_runtime.py`, `routes_configurator.py` | drafts and published definitions, one active per workspace | validate, save draft, publish | read by every other component |
| activity control | `app/routes_admin.py` 983-1024, 2325-2537, 3395-3575 | `journeys.status`, `current_activity`, `activity_states.status` | open, close, reopen one activity, a parallel group, the pair Skills/Simulation; change status; start and end the event day | locks and unlocks evaluations |
| rounds and evaluations | `app/services.py` 828-1164, 1549-1638; `routes_admin.py` 2123-2321, 2562-2688, 3323-3376; `routes_evaluator.py` | `assignment_rounds`, `assignments`, `evaluation_submissions`, `submission_versions`, `idempotency_records` | preview, edit, publish, save draft, submit, correct, simulate | activity control; evaluator client |
| evaluator client | `app/static/evaluator.js` | one tab: form, device drafts, timer, request in flight | open task, type, switch, back, submit, refresh, poll | the evaluator routes |
| pairing, room algorithms | `app/assignments.py` | none | pairings, room plans, distribution of evaluators | previews |
| room plans and operations | `app/services.py` 400-760; `routes_admin.py` 1528-2080 | `room_plans`, `activity_operations`, availability | preview, lock, publish | rounds |
| attendance | `app/services.py` 327-376; `routes_admin.py` 1336-1501; `routes_attendance.py`; `static/recruit_attendance.js` | recruits, evaluators, versions; the page's queue of unsaved fields | batch save, self-service save with compare-and-swap, photos, removal, restoring | rounds, rooms |
| event-day protection | `app/event_day.py`; `routes_admin.py` 190-280, 3379-3575 | `event_day_protections`; workflow runs at GitHub | start, read the status, restart, end | GitHub Actions; activity control |
| event-day guard | `scripts/event_day_guard.py` | the state file kept from run to run | probe, observe, alert | the application; mail |
| sheet backup | `app/sheet_backup_*.py`; `routes_sheet_backup.py`; `static/sheet-backup.js`; `integrations/google-sheet-backup/Code.js` | jobs in memory; the receiver's RUN property, nonces, staged and published tabs | begin, apply, publish, abort, status | the Apps Script over HTTP with three attempts |
| management corrections | `app/correction_service.py`, `management_corrections.py`, `correction_scoring.py` | `management_corrections` with a revision | preview, apply, undo | results |
| assessment notes and autosave | `app/general_assessment.py`; `static/assessment-autosave.js` | notes with versions; one form | save, conflict, force | its route |
| scoring and results | `app/scoring.py`, `rubric.py`; `services.py` 1167-1560 | none | scores, averages, ranks, bands | all views |
| accounts, sessions, login limits | `app/auth.py`, `routes_auth.py` | accounts, their copies of the owner's password, sessions, attempts per process | log in, log out, change and reset passwords, add, generate, edit and delete accounts | every route; the rosters |
| workspaces, platform | `app/routes_platform.py`, `db.py` 74-92, `main.py` 170-271 | systems, the definition a request works under | create, select, delete | every query |
| admin and viewer clients | `static/admin.js`, `viewer.js`, `configurator.js` | screens | forms over the routes | routes |
| reports, exports | `report_exports.py`, `management_report_payload.py`, ... | none | read and format | results |
| directory, imports, photos | `recruit_directory.py`, `evaluator_master.py`, `legacy_import.py`, `object_storage.py` | master lists, objects | import, reuse, upload | rosters of Journees, accounts |
| shell, migrations, scripts | `main.py`, `migrations/`, `scripts/` | schema | start, migrate | - |

What is hard here: an action of one administrator touches several activities and
every round of each; evaluations are moved between versions of rounds; the same
rule is written in three endpoints; handlers overlap and only some of them lock;
the tab's continuations run on whatever the evaluator has clicked since; the backup
has lost answers, retries, leases and crashes on both sides. `PROJECT.json`
lists each hazard at its line with the property that covers it, or why none does.

What makes each component correct:

- activity control: one stage at a time, in order, and `current_activity` says so;
- rounds and evaluations: submitted work is never lost, copies are exact, the two
  records of "the published round" agree, locks follow closing;
- transactions: every save is in the history, nothing is overwritten unseen;
- evaluator client: nobody's grades end up on another recruit, typed grades arrive;
- attendance: what the page reports as saved was accepted by the server, and a page left alone
  settles; rooms: locks outlive regenerations;
- corrections: applied as previewed, in one chain of revisions; notes: what is shown as
  saved is in the row or was replaced by somebody who saw it;
- active Journee: at most one, but for handlers that overlap;
- protection and guard: an active protection had a monitor, starting ends, and what is
  announced is known to the next run;
- accounts: a new password replaces the old one everywhere; login budgets hold at every
  bound; definitions: saved results fit the published one; rosters: every account is on them;
- backup: the spreadsheet always shows one complete snapshot, a retried backup goes on
  where it stopped, and what the owner is told of it is true;
- pairing and scoring: results equal their definition for every input.

## Modules

| Module | Models | Variables and the columns they stand for |
|---|---|---|
| `JourneeDefinition` | what the definition's validator guarantees, as constants: activities, predecessors, groups, reuse of assignments, the Skills/Simulation pair | - |
| `ActivityControl` | the endpoints that open and close | `journeyStatus`, `currentActivity` (`journeys`), `activityStatus` and `assigned` (`activity_states.status`, whether `assignment_round_id` is set), `reopenAudits` (audit events), `ending` (ends of the day that wait for GitHub, by what they have read); `leftCurrent` is history |
| `EvaluationBoard` | the abstract promise: a board of pairs per activity, and the work on each pair | see the module |
| `EvaluationRounds` | rounds, submissions and the endpoints that change them, together with the lifecycle | rounds with status, pairs and the round of each submission |
| `SubmissionTransactions` | save, submit, correct and publish on one pair as overlapping transactions | one activity's status and round, rows, versions, and one open transaction per client |
| `EvaluatorForm` | one evaluator tab against the server's version check | the fields of `state`, the form, `localStorage`, requests in flight |
| `PublishedBackup` | the abstract promise of a backup: whole snapshots, replaced in one step | `shown` |
| `SheetBackup` | owner's tab, jobs of several deployments, transport attempts, Apps Script receiver | `tab` (`running`, `cancelRequested`), `job` (`_jobs`), `call` and `late` (a `Receiver.call` and its lost attempts), `lease` (property RUN), `tabs` and `publications` (the spreadsheet and its marker); `withdrawn` is history |
| `ActiveJournee` | the five handlers that make a Journee active | `status` of several Journees, `handler` (what each open transaction has read) |
| `EventDayProtection` | starting, reading, restarting and ending protection | the rows of `event_day_protections`, `monitors` at GitHub, `dispatching` (committed and not dispatched), `reading` and `handling` (requests that wait for GitHub: status reads, restarts and ends); `mixed` is history |
| `GuardAlerts` | one guard run after another, with its alert state | the state file, the run, what has been announced; `unsaved` and `forgotten` are history |
| `Attendance` | one recruit's row, self-service pages, forms that write the whole row | `recruit` (row), `draft`, `queue`, `request` and `poll` (the item, unsaved fields, request and reload of each device), `form` (an open batch save, upload, removal or restoring); `unaccepted` is history |
| `RoomPlans` | previews, edits and publications of room plans and the settings they come from | `plans` (`room_plans` with members and locks), `operation`, `available`, `mandatory`, attendance |
| `Pairing` | who is placed where, and who evaluates whom, with the costs of the code | rooms, placed evaluators, the `tie` a layer's hash adds to the costs, the flow being built (`match`) and the pairings so far |
| `ManagementCorrections` | one recruit's corrections and their editors | `correction` (row and revision), `trail` (audit), `editor` (each manager's page), `signature`, the automatic grades |
| `Scoring` | from evaluations, general factors and corrections to scores and ranks | `evaluations`, `adminEvaluations`, `assessed`, `overrides`, `policy` |
| `ProfileNotes` | autosave of a recruit's general assessment | `profile` (row), `sheet` (each page's `assessmentAutosave`), `writes` (requests under way); `highest`, `raced`, `keyed` are history |
| `LoginLimits` | the attempt tables of a process | `keyAttempts`, `addressAttempts`, `lastPruned`, `clock` (a bucket is a set of stamps, each a tick and a number); `spent`, `tries` count what really happened |
| `Accounts` | accounts, passwords and sessions of owners and members | `platform`, `account`, `session`, verifications under way; `behind` is history |
| `Workspaces` | workspaces, drafts, publications, Journees created under a definition | `workspace`, `published`, `assessor` (the directory's category), `saved` (Journees), `requests` |
| `Roster` | directory, accounts and rosters of evaluators | `entries`, `members`, `roster`; `excused` is history |
| `EvaluationRoundsProofs`, `SubmissionTransactionsProofs`, `EvaluatorFormProofs`, `SheetBackupProofs` | theorems about the module each is named after | |
| `EventDayProofs` | theorems about `ActivityControl`, `EventDayProtection`, `Attendance` and their composition `MCEventDay` | |
| `RecordsProofs` | theorems about `Accounts`, `Roster`, `LoginLimits`, `ManagementCorrections`, `ProfileNotes` | |
| `AlgorithmProofs` | theorems about the two algorithms, `Pairing` and `Scoring` | |
| `AdministrationProofs` | theorems about `Workspaces`, `RoomPlans`, `ActiveJournee`, `GuardAlerts`, and about the composition `MCAdministration` | |
| `MC*` | instances for TLC; `MCEventDay` runs `ActivityControl`, `Attendance` and `EventDayProtection`, and `MCAdministration` the other eleven modules above, from `ActiveJournee` to `Roster`, each in a scene of its own | |

An action is a handler: its guard the handler's checks. It is one step where
handlers are serialised by what they lock or by the question asked (`ActivityControl`,
`EvaluationRounds`, `RoomPlans`, most of `Roster`), and several where overlap is the
question: read and commit (`ActiveJournee`, `Workspaces`, the forms of `Attendance`, the
creation of a Journee in `Roster`), verify and commit (`Accounts`), snapshot and commit
(`ManagementCorrections`), check and store (`ProfileNotes`), lock and reread
(`SubmissionTransactions`). Requests that wait for GitHub (status, restart and end in
`EventDayProtection`, the end of the day in `ActivityControl` too) read and commit in two steps,
and the commit writes the columns that differ from what was read, as SQLAlchemy does. Definitions keep
the names of the functions where they can; `PROJECT.json` "map" gives the lines.

`EvaluationRounds` uses the lifecycle's definitions and adds what its endpoints do to
evaluations; `ImplementsControl` shows that the composition is an implementation of
`ActivityControl`, and `ImplementsBoard` that versions, supersession and moved
rows implement the unversioned boards.

### Abstractions

- Grades, texts, photos, names and scores are left out, or are one value per
  input where a property needs to tell them apart (`EvaluatorForm`).
- In `ActivityControl` and `EvaluationRounds` the roster is fixed, and other Journees are
  not there: the checks for another active one never fail (`ActiveJournee` and `Roster` have
  both). `base_version` of the Journee form and idempotency keys are left out.
- What a seed decides is any choice: the shuffles of `Pairing` and `RoomPlans`, and the number from 0 to
  `LargestTie` which a layer's hash adds to the cost of each pair. A cheapest augmenting path is found in one step.
- `Scoring` computes with exact fractions and rounds where the code does, an activity's
  score to two places; Decimal's 28 digits are not modelled. `ManagementCorrections` keeps
  the grades as values and leaves their arithmetic to `Scoring`.
- A definition is its structural signature and its assessor categories in `Workspaces`.
- What GitHub answers depends on no row, so a request reads its row and asks GitHub in one step and
  commits in another (`EventDayProtection`). In `ActivityControl` ends of the day that have read the
  same are one element of `ending`, which a commit may or may not remove.
- Time is counted in ticks (`LoginLimits`), or is a step that may be taken (two minutes and
  the end of a protected day in `EventDayProtection`, five minutes in `GuardAlerts`).
- A password is a value and hashing is a delay (`Accounts`); permissions, cookies and CSRF
  tokens are left out, and a session ends at any time.
- `Attendance` follows one recruit; a photo is present or not. `Roster` follows names and
  the entry a row is linked to; roles, telephone numbers and notes are left out.
- In `SubmissionTransactions` a transaction reads in one step, takes the lock and
  reads again in a second, and writes and commits in a third; publication reads
  and commits in two steps; at most one publication runs at a time.
- In `SheetBackup` an operation is its sequence number, and what the receiver's tabs hold
  is a set of them; nonces, signatures, digests and the status request are left out (a
  run never sends two operations under one number). An owner is tied to a deployment;
  a tab is idle as soon as its server forgets the job. The publication's own check of
  completeness (`INCOMPLETE`) is left out, and completeness follows from the
  sequence alone.
- In `EvaluatorForm` a form opened anew for the same task while a submit of the
  old form is in flight is taken for the old form when the submit is refused.

## Runs

| Run | Question | Bounds and why they suffice |
|---|---|---|
| `event_day` | lifecycle, attendance, protection: see below | see below |
| `reopen_reason` (violation) | "Reopening requires an audit reason." | the lifecycle alone, the five bundled activities |
| `evaluation_rounds` | are rounds, copies and submitted work right, and do they implement the board? | Skills with its copy Simulation, two pairs, two versions: one supersession with a kept, a removed and a re-added pair |
| `evaluation_day` | do locks follow closing on all endpoints, does the composition implement the lifecycle? | one earlier stage and the pair, one version |
| `submission_transactions` | what survives overlapping transactions? | two tabs, one correcting and one publishing admin, two rounds, three acknowledged saves started: a save can straddle another save, a correction and a publication at once |
| `stranded_submission` (violation) | does a publication keep a submitted evaluation? | one tab |
| `evaluator_form` | does what is typed reach the right recruit? | two tasks, four inputs, one failed request: a draft, a wish for another, a submit and a reload can be in flight together |
| `false_conflict` (violation) | is a single tab's submit ever called a conflict? | one task, no failures |
| `sheet_backup` | what do the spreadsheet, a retry and the owner's screen make of lost, late and repeated requests? | two deployments, a backup each (or two of one), three operations (prepare, one that fills, publish); one request all of whose attempts may fail, or one restart, refusal or kill; expiring leases, BUSY answers and cancels are not bounded |
| `cancelled_backup` (violation) | is a cancelled backup the one not shown? | one deployment, one lost answer |
| `administration` | eleven parts: see below | see below |
| `publication_leak` (violation) | does a publication stay in its workspace? | two workspaces, two definitions, one Journee |

`event_day` and `administration` are each one run of several parts that share no state: `scene`
is chosen at the start and only its module takes steps, so that a run is the sum of its searches and
not their product. `event_day` holds the first three scenes below, among them the two whose
properties are liveness; `administration` holds the others and checks safety only.
`PROJECT.json` lists their properties; what each scene asks, and its instance:

| Scene | Question (property) | Instance |
|---|---|---|
| lifecycle | do the endpoints keep one stage, order and `current_activity`? (`OneStageOpen`, `StageOrder`, `CurrentActivityIsOpen`) | the five bundled activities with their group and pair, one state read by ends of the day that wait: every endpoint, every conflict and an end that overlaps an opening occur |
| attendance | is what the page calls saved what the server accepted, and does a page left alone settle? (`SavedWasAccepted`, `AttendanceSettles`) | one page of two inputs against one form, one lost request: every conflict, reload and retry limit occurs |
| protection | had every active protection a monitor of its own activation, and does a row stay `starting`, or `active` without a monitor? (`ActiveWasMonitored`, `StartingSettles`) | one Journee, two activations, one failing call or killed process, one request besides the status read that waits: a restart and an end each overlap reads, a start, and dispatches of both activations |
| rooms | do locks outlive a regeneration? (`LocksKept`) | two activities, the second copying the first; two recruits, one evaluator, two rooms, two plans, one change of settings and one edit |
| active | is one Journee active at most, unless handlers overlapped? (`SingleActiveUnlessOverlapped`) | two Journees, four changes |
| guard | does the next run know what was announced? (`AnnouncedIsKnown`) | two outages, one failing mail, one killed run, failed save or lost file |
| corrections | is what is applied what was previewed, in one chain of revisions? (`AppliedAsPreviewed`, `HistoryIsAChain`) | two managers, two criteria, two corrections, one saved grade, one new configuration |
| scoring | do the results and the correction editor compute the same dimension, where they are meant to, and does a rank count the better ones? (`ScoresAgree`) | two activities, three criteria on different scales, three recruits, three policies: each aggregation, each treatment of a missing component and each ranking once |
| pairing | has every recruit of a staffed room a primary evaluator, within the capacity, with as few repeated pairs as can be wherever a repeat costs more than all else, and is nobody added beyond the rules? (`PairingsAreBest`) | three recruits, three evaluators in two categories, one or two rooms, up to two mandatory, one past pair, two layers, two ties |
| notes | is what is shown as saved stored, until somebody who saw it replaces it? (`SavedNotesAreKept`) | two pages, two texts, one dropped request or answer |
| login | do the budgets of a person and of an address hold? (`LoginBudgetsHold`) | two addresses, two names, four buckets: the tables are full at once, two prunes |
| accounts | does a new password reach every copy and session? (`NewPasswordsReachEveryone`) | one member, two workspaces' owners, two passwords, one verification under way |
| workspaces | do saved results fit the published definition? (`SavedResultsFit`) | two systems of one name (one at a time), two definitions, three versions, two requests open |
| roster | is every account on every roster? (`AccountsAreOnEveryRoster`) | two Journees, two names, five writes |

Deadlock is checked everywhere except in the evaluator runs, the backup runs and the two runs
of this table, where the user may stop clicking, and where the bound on inputs ends the
behaviour. The backup runs use the symmetry of the deployments, which nothing tells apart; all their
properties are safety properties.

Fairness appears in three modules. In `EvaluatorForm`: the browser's timers fire, the server
handles requests, and every request is answered or fails (a `fetch` rejects when the
connection is gone). The evaluator is never forced to act. With it, `EditsReachServer`
shows that the `pendingDraft` wish is enough to bring a key pressed during
another draft to the server. In `Attendance`, for the same reasons, timers fire, requests are
handled and answers are handled; whether the user types, and whether requests get lost, is left open, and
`AttendanceSettles` shows that a page's queue is emptied or reported as needing attention.
In `EventDayProtection` the dashboard asks for the status again (it polls while it is
open) and time passes; GitHub owes nothing. `StartingSettles` shows that a protection
does not stay in `starting`, nor in `active` without a monitor, also when the requests that wrote it overlapped.

Some properties name exceptions, because the code does not rule the case out; each is recorded in a
history variable or a condition of the definition, so that everything else is still promised:
`CurrentActivityIsOpen` (`leftCurrent`: an end of the day that overlapped an opening; `PairStandsAlone`: a
definition in which the pair is part of a larger stage, unlike the bundled one), `StageOrder` (predecessors of
Skills and Simulation other than negotiation), `ActiveWasMonitored` (`mixed`), `AnnouncedIsKnown` (`forgotten`),
`SubmittedWorkKept` (a draft saved over a submit), `SingleActiveUnlessOverlapped`, `SavedResultsFit` (`raced`),
`SavedNotesAreKept`, `NewPasswordsReachEveryone`, `AccountsAreOnEveryRoster`, `LocksKept`.

### What the violated runs show

1. `reopen_reason`: `open` on a closed activity reopens it without the reason the runbook asks for.
2. `stranded_submission`: a submit that overlaps a republication can be left on the
   superseded round, where nothing lists it. A row lock shared by `_save_task` and
   `publish_assignment_round` (for example on the activity state) would order them.
3. `false_conflict`: a tab that submits while its own draft is in flight is told that the
   evaluation changed in another tab.
4. `cancelled_backup`: when the answer to the final publication is lost, Cancel
   reports that the previous backup is unchanged, although it was replaced. The
   receiver could answer `complete` to the abort of the published run.
5. `publication_leak`: publishing a definition in one workspace changes the category of
   evaluators in Journees of every other, because `Evaluator` is not among the
   models the workspace filter confines. Selecting through the workspace's Journees would.

Also seen, without a property or without a document that says otherwise.

Evaluations and activities: ending the event day closes
activities without relabelling `submitted` rows as `locked`; a save whose activity
is closed before it commits still commits; a client version of `null`
passes every check, and a save that finds no row on its assignment is not compared
with any version; a `begin` that arrives after its run was
cancelled (with a lost answer) can let that run publish an older snapshot over a newer one, so
`PublishedBackup` promises whole snapshots and not their order.

Journees and protection: two activations that overlap make two Journees active, although
`PLAN.md:417` says that the server allows at most one, and restarting protection does not look for
another active Journee. Restart, End and the status read wait for GitHub between reading the row and
committing the columns they changed (`routes_admin.py:3489-3519`, 3541-3574). A read that commits after End or
Restart brings a stopped protection back, or the old run's id, so that End cancels the wrong monitor; a Restart
that found the row `starting` while a read made it `active` leaves it active, for an activation that has no
monitor yet (the next read after two minutes makes it an incident), and one that found no run leaves the run a
read wrote meanwhile; an End that found no current activity leaves the one that was opened while it waited, which it closes.
Starting again over an incident does not cancel the old monitor, and a Restart whose cancellation fails, or
whose run GitHub does not list yet, starts a second one, although `runbooks/EVENT_DAY.md:35` says that it cancels the
unhealthy run. A guard killed between the recovery mail and its save, or stopped after a save that failed, does not
mail the next outage. The paired endpoint looks at no group and at no predecessor but negotiation: a definition that puts
Skills and Simulation in two groups, or after other activities, is accepted and its order then not kept.

Attendance, rooms and pairing: a batch save, a photo or a removal based on an old read may set the
version back or reuse it. "A present recruit must have a time of arrival" (`services.py:353`) is checked
in one case only. ARCHITECTURE.md's "Room membership freezes after Escape Room starts" has no
check in the code, and its "attendance drafts are never sent until Save is pressed" no longer describes
the self-service page. `assignments.py:154` promises loads within one of each other,
which fails from six role categories on, where a category outweighs a load; with a mandatory evaluator in a larger room,
a room can be left without one.

Results, corrections and notes: one recruit's correction from before a configuration change makes
`result_snapshot` answer 409 for everybody. With `missing_as_zero` and a scale that does not start at 0,
a dimension is normalised after averaging (`services.py:1338`) and falls below 0,
unlike `correction_scoring.py:29`. The form of `admin.js` says "Saved" while text typed during the
write is unsent until its timer fires; a removed and repeated admin evaluation starts at
version 1 again. Publishing counts the saved Journees without a lock, so one created meanwhile can
be left with another structure.

Accounts and rosters: a full attempt table refuses newcomers for up to a minute although stale
buckets are there. An owner's managed password follows in one workspace only, and the sessions of the
other workspaces' owner accounts outlive a change. A new evaluator is not put on a roster that has a row under its name
linked to another entry, against the comment at `routes_auth.py:361`; an evaluator
removed from a roster comes back when any account is created; an import after a renaming adds a second row; a
Journee created at the same time as an account may miss it.

## Proofs

Every safety invariant and every action property of the passing runs is a theorem.
They hold of each component by itself and of the two composed runs (`DayIsSafe`, `AdministrationIsSafe`,
`AdministrationKeepsLocks`), for every value of the constants. Each proof rests on an inductive invariant,
and every one of these invariants was first checked by TLC on the run of its module.

### The event day (`EventDayProofs`)

Lifecycle: one stage at a time, the right `current_activity` and stage order for every set of
activities, groups, predecessors and bounds the assumptions of `JourneeDefinition` allow. Those assume of the paired
activities only that they are activities and that negotiation is not one of them, as `validate_definition` does; the paired
endpoint then makes a stage of Skills, Simulation and whatever shares a group with one of them (`PairedStage`), and
`OneStage` is the relation that all three endpoints and their conflict checks keep.
`LifecycleInv` joins type correctness with the three properties: `StageOrder` alone is not inductive and
needs `OneStageOpen`, because an activity being reopened is compared with one arbitrary open
activity only.

Protection (`ActiveWasMonitored`): `ProtectionInv` adds that an activation which is to be dispatched is
dispatched once and is unknown to GitHub (`DispatchesAreFresh`), and that a status read about to write
"active" has seen the monitor of the activation it read, and one about to write a run writes that activation's
(`ReadsSawTheMonitor`). The second is what a read between two handlers needs; the row may have changed by the
time it writes, and is `mixed` if its activation has.

Attendance (`SavedWasAccepted`): the invariant of one page follows every typed value. While it is
unaccepted it is queued with its last value, or it is in the patch in flight, which was not applied, and
nothing newer of the same field is queued (`Carried`); a closed entry has nothing queued and
nothing in flight (`Closed`); `Retrying` bounds the retries, at one more than `MaxRetries`: a timer that is
set while a patch is in flight was set by typing, which starts the retries anew. A poll that replaces the draft
under a request in flight is part of it (`current` in `request`).

`DayInv` is the conjunction: no component's step touches the variables of another.

### Rounds, transactions, the evaluator's tab, the backup

`EvaluationRoundsProofs` proves the same kind of theorem for rounds: type
correctness, current published round, exact copies, locks follow closing; then the
action property that submitted work is kept, and the two implementations
(lifecycle and board), each by mapping the initial state and every action to a
step or a stutter. The inductive invariant `IInv` adds to the properties where work
may be (`WorkOnAssignments`), that a version above the latest is no round yet
(`FreshVersions`, what makes the next version free for a preview or a copy), and that
nothing is evaluated before an activity first opens (`NoWorkBeforeOpening`, without
which closing a group of which one member never opened could lock work in it).

`SubmissionTransactionsProofs`: one row per assignment, a complete history and no blind
overwrite, for any number of tabs, administrators, rounds and saves. `HistoryComplete`
compares two counts and is not inductive; the invariant `Inv` says which snapshots there are
(`History`) and that there are as many as acknowledged saves (`Counted`), that
nobody works on a round not yet published (`RoundsPublished`, which keeps the number of a moved row
free), and that what a transaction read of a row is at most as new as the row
(`ReadsAreOld`); the last is what makes the version check of a save, made after the lock, enough.

`EvaluatorFormProofs`: nobody's content reaches another recruit (`OwnContent`), and at most one
draft is on its way (`SingleFlight`), for any tasks, keys, clicks and failures. The invariant
follows the content to every place it can be: the form, the device, the server, the home page and each
request and answer under way (`OwnCalls`); `OneDraft` ties the tab's flag to the
requests, and a task is active whenever a save is answered (`CallsOK`).

`SheetBackupProofs`: for any number of deployments, operations, backups, lost answers and restarts,
a job and the script differ by at most one operation, a complete backup was shown, and
jobs, transport and script implement `PublishedBackup`. `Inv` says what the two sides
know of each other although either may have lost the last answer: a run is started by
one server (`RunsKnown`), a request is about the job as it is (`CallsOfJobs`), a delayed
operation is not ahead of its job (`LateIsBehind`), and once a begin was answered a delayed
copy of it finds the lease live, so it does not reset the sequence (`LeaseFits`). This
last part is where the rule that an old signature is refused matters: the model lets a lease expire
only when no begin of its run is on its way. The
refinement adds `Staged`: a live lease's run has in its tabs every operation before the
next one, so what is published is whole. A lease that has run out may lose its tabs to
another begin, which is why `Staged` speaks of live leases only.

### Records of results and people (`RecordsProofs`)

Corrections: the history is one chain and what was approved is what was shown, for any managers,
criteria and configurations. Both are part of `CorrectionsInv`, with what makes them inductive:
a manager who approves was shown what one state, the fingerprinted one, gives
(`ShownIsFingerprinted`: the fingerprint contains every part of the state the preview depends on, so an equal
fingerprint means an equal preview), and a transaction that is to commit starts from the correction in
force unless the revision has moved (`SnapshotsAreOld`, which the compare-and-swap on the revision turns into the chain).

Notes: `SavedNotesAreKept`. Whoever is at the row's version has looked at the row's note, a page and a
request under way alike (`SameVersionSameNote`), no version is known that was never given
(`VersionsWereGiven`), and what a page was told is saved was seen by the author of the row
(`AcknowledgedIsKept`).

Accounts: the copies of the owner's password agree but for those the property excuses
(`OwnersAgree`), a member's session was opened under the present password or is marked
(`SessionsAreCurrent`), and a number stands for one account in sessions and in
changes under way (`NumbersAgree`). Rosters: `MembersAreListed` says of a roster that is not committed yet what
the property says of those that are, which is where the race with an account created meanwhile is excused; names
are unique in the directory and an account's entry bears its name. Login limits: what was let in
within the window is exactly what the pruned buckets still hold of it (`HistoryIsInBuckets`), so the check
against a bucket is a check against the history; `AllFinite` lets the two be counted.

### The pairing (`AlgorithmProofs`)

`EverybodyIsCoveredOnce` says that in every finished room with staff each recruit has exactly one
primary evaluator, within the capacity, and that further layers add nobody twice. `PairingInv` keeps
the matching under construction an injection of recruits into slots of the room's staff (`MatchFits`), which
a shift along an augmenting path preserves, and shows with the capacity that the first layer ends with
everybody placed (`SeatsSuffice`).

`FlowIsAlwaysCheapest` is the theorem behind minimum-cost flow, for any costs, ties, capacities and layers: after
every step the matching is the cheapest of its size. A step takes a cheapest augmenting path, and it is enough that
no other matching of the next size costs less. If one did, the two matchings would differ by routes of
alternating seats (`Reseated`, `RouteExists`); exchanging along one of them gives a matching of the old size and a
path whose costs add up to those of the two matchings (`CheapRouteExists`, `ExchangeIsCheap`), so either the old
matching was not the cheapest or the path was cheaper than the one taken.

From the cheapest matching to the fewest repeats (`FewestRepeats`, the last conjunct of `PairingsAreBest`): a sharing of
the recruits within the capacity is a matching with slots (`SharingIsSeated`), and the cheapest matching repeats no more
pairs than it if one repeat costs more than the loads, roles and ties of a whole room can add up to
(`CheapestCountsFewest`, with `RepeatsOutweigh` as that condition; see "What the proofs found").

### The results (`AlgorithmProofs`)

`ResultsAlwaysAgree`: for any criteria, scales, weights, targets, recruits and entries,

- a dimension nobody corrected has the same value in the results and in the correction editor,
  unless an evaluation is missing on a scale that does not start at zero. The one averages grades and puts the
  average on the scale, the other averages what is on the scale (`AveragesAgree`);
- the one pass of `configured_ranks` over the sorted scores gives every recruit the rank that is due: one
  more than the recruits, or the scores, that are better, in each of the three modes (`RankingIsDue`).

The arithmetic is exact: Euclid's algorithm computes a greatest common divisor (`GcdIsGcd`), a fraction in lowest
terms is determined by its value (`LowestIsUnique`), and sums, multiples, totals and averages are in lowest terms
(`PlusIsLowest`, `ScaledIsLowest`, `TotalIsLowest`, `AverageIsLowest`), so that equal values are equal pairs of numbers, which is
how the code's Decimals compare. No denominator is ever zero: that is where `ScoringAssumption` (positive weights,
targets and maxima, dimensions that have criteria) is used. The standing is a list in a strict order
(`AheadOrders`, `ListingExists`), whose k-th member has k - 1 before it (`ListingCounts`).

Both proofs need induction over data, which the library's induction theorems cannot give (see below). It is
done here with sets: `SetOfNaturals` and `SetOfFiniteSets` say that a set which contains zero (the empty set) and with
each number the next (with each part of a finite set the parts that are one larger) contains all; they follow from
`WFMin`, the existence of minimal elements. The sums and totals of the community modules are unfolded this way, as
functions on the parts of their domain (`SumsOfParts`, `TotalsOfParts`).

### The administration (`AdministrationProofs`)

Active Journee: two are active only if two activations overlapped; without overlap, what a handler
has checked still holds when it commits (`CheckStillHolds`). Guard: what was announced is known to
the next run unless a run ended, killed or not, with no successful save since the mail, or the file was lost
(`AnnouncementKnown`). Workspaces: saved Journees fit the published definition, for any number
of requests between their two steps; as long as the number a publication asked for is free, what
it was checked against is still published (`RequestsChecked`), and a Journee that lost the race is marked (`raced`).
Rooms: `LocksKept` follows step by step from types and from `RevisionsFit`.

`AdministrationInv` is the conjunction of the eleven invariants: that of scoring, whose inputs only its own
scene chooses, on condition of the scene, and that of pairing likewise, with `scope = 0` (nothing is paired) in the others.

### What the proofs found

- `SavedNotesAreKept` used to be stated without the exception of versions given twice and held on the run's
  two pages. It is not inductive: two saves that overlap both write the version they read plus one, and a
  forced save of an older read can turn the version back, so that a third page holding the old, higher
  number passes the check later and overwrites an acknowledged save. The model now keeps the
  highest version given, and the property names the exception.
- The lifecycle theorems used to assume that Skills and Simulation are one whole group with one predecessor. No
  line of `validate_definition` (`assessment_config.py:244-374`) asks for it. Without the assumption `OneStageOpen` is kept by
  the wider relation `OneStage`, while `current_activity` can be cleared beside an open activity and a predecessor can be
  passed over; the properties now say when.
- `ActiveWasMonitored` used to hold with one exception, a stale status read, over restarts and ends in one step. With
  the wait for GitHub in them a restart mixes two activations as well, and `mixed` says where.
- `LocksKept` used to promise the lock of an evaluator who had been mandatory for a while: lock him, make him
  mandatory, regenerate, make him optional, regenerate. `create_activity_room_preview` reads no lock of a member who was
  mandatory in the plan (`services.py:629`), and the lock is gone. The run's one change of settings is too few for it.
- A poll may replace the attendance draft under a request in flight, whose answer then updates an item
  nobody looks at (`recruit_attendance.js:250`). `Attendance` has it now; `SavedWasAccepted` holds all the same.
- `PairingsAreBest` used to promise the fewest repeats without condition, and the proof does not go through: a repeat
  costs 1,000,000 (`assignments.py:155`), but the k-th recruit of one evaluator costs 20,000 (k - 1)^2 more, and these add up. With 56
  recruits and five evaluators of one role, one of whom has met all but eight, a sharing without any repeat exists within
  the capacity of 12; the code gives that evaluator nine recruits, one of them a repeat, and reports
  that "No complete zero-repeat matching satisfied the current constraints." (`_primary_matching` run on this case
  does so). `PLAN.md:220` says that pairing "minimizes the number of repeated pairs" and `PLAN.md:452` that "Forced repeats are
  minimal and explained". The run's instance is too small for it; the property has the condition `RepeatsOutweigh`, which rooms of
  ordinary size meet.
- The assumptions of `Scoring` were too weak for the results to be numbers at all: a dimension or an activity without criteria, a
  weight or a target of zero are divisions by zero. `validate_definition` refuses them; `ScoringAssumption` says so now.

### Assumptions, and what is not proved

Assumed: only the named `ASSUME`s of the modules, which TLC evaluates in the runs.
They state what `validate_definition` guarantees (`DefinitionAssumption`, `ScoringAssumption`), how the constants of
the paired endpoint relate to the definition (`PairedAssumption`, which asks for nothing the code does not), and
that bounds are numbers.
Model-checked only:

- the liveness properties (`EditsReachServer`, `AttendanceSettles`, `StartingSettles`), which are out
  of this prover's reach;
- the five violated properties, which are false.

## Not modelled, and why

- Reports, exports, presentations of the audit, and the administrator's and viewer's screens
  read one snapshot and format it; they change no state. This is the larger part of
  what the map does not cover.
- Migrations, transfer and load-test scripts run while the application is stopped or
  against a copy.
- Attendance links, evaluator sessions and permissions are checks at the door of a handler; the
  handlers are modelled as if entered.
- The recruits' directory, legacy imports of results and object storage are bulk data
  entry; what they do to the attendance row and to rosters is in `Attendance` and `Roster`.
- Idempotency records, and `edit_revision` of the round editor.

## What is left

1. Idempotency records around retried submissions, and two editors of one published round.
2. Attendance links: rotating a link while a session starts.
3. That the backup tab's loop ends under fairness, on one deployment.
4. That an additional layer ends as large as it can be, as `EverybodyIsCoveredOnce` has it of the first.
5. The bands and the rounding of what is displayed, on top of the exact results.
