----------------------------- MODULE EvaluatorForm -----------------------------
(***************************************************************************)
(* One evaluator's browser tab (app/static/evaluator.js) against the       *)
(* server, on the tasks of one open activity: typed grades are kept on the *)
(* device, sent as drafts 700 ms after the last key, on a switch to        *)
(* another recruit and on Back, and submitted. At most one draft is in     *)
(* flight; a submit and a reload of the home page may be in flight beside  *)
(* it. Requests are handled in any order and may fail before or after the  *)
(* server has handled them. The client never retries by itself.            *)
(***************************************************************************)
EXTENDS Naturals, FiniteSets, Sequences, SequencesExt

CONSTANTS
    Tasks,             \* the evaluator's assignments in the activity
    NoTask,
    MaxInputs,         \* bound: what the evaluator types and clicks
    MaxFailures        \* bound: requests that fail

ASSUME FormAssumption == NoTask \notin Tasks /\ {MaxInputs, MaxFailures} \subseteq Nat

VARIABLES
    server,            \* the submission of each task; version 0 for none
    home,              \* state.home: the submissions as last loaded
    device,            \* localStorage drafts
    active,            \* state.activeTask, kept when the form is left
    form,              \* the form on screen, if any
    timer,             \* state.debounce is running
    draftSaving, pendingDraft,
    calls,             \* requests sent and not yet answered to the tab
    inputs,            \* keys and clicks so far, polls that find a change included
    failures           \* failed requests so far

tab == <<home, device, active, form, timer, draftSaving, pendingDraft>>
bounds == <<inputs, failures>>
vars == <<server, tab, calls, bounds>>

(* What is typed in a form: the task it was typed for and the input that    *)
(* completed it.                                                            *)
Blank == <<NoTask, 0>>
Contents == {Blank} \cup (Tasks \X (1..MaxInputs))

Unsaved == [version |-> 0, status |-> "none", content |-> Blank]
NoForm == [shown |-> FALSE, version |-> 0, content |-> Blank,
           submitting |-> FALSE, notice |-> "none"]

Init ==
    /\ server = [t \in Tasks |-> Unsaved]
    /\ home = server
    /\ device = [t \in Tasks |-> Blank]
    /\ active = NoTask
    /\ form = NoForm
    /\ timer = FALSE /\ draftSaving = FALSE /\ pendingDraft = FALSE
    /\ calls = <<>>
    /\ inputs = 0 /\ failures = 0

-----------------------------------------------------------------------------
(* A version of 0 stands for client_version null.                           *)
SaveCall(kind, f, then) ==
    [kind |-> kind, task |-> active, version |-> f.version,
     content |-> f.content, then |-> then, phase |-> "sent", reply |-> 0]

(* loadHome, after the submit of a task or for NoTask's sake.               *)
HomeCall(after) == [kind |-> "home", task |-> after, phase |-> "sent", reply |-> home]

(* Mutant: the draft is looked up for the task being left.                  *)
OpenedMut(t) ==
    [shown |-> TRUE, version |-> home[t].version,
     content |-> IF active # NoTask /\ device[active] # Blank
                 THEN device[active] ELSE home[t].content,
     submitting |-> FALSE, notice |-> "none"]

(* openTask: the device's draft is shown over a saved draft, never over a   *)
(* submitted evaluation; version and status are those of the loaded home.   *)
Opened(t) ==
    [shown |-> TRUE, version |-> home[t].version,
     content |-> IF device[t] # Blank /\ home[t].status # "submitted"
                 THEN device[t] ELSE home[t].content,
     submitting |-> FALSE, notice |-> "none"]

(* What follows queueServerDraft in its caller: nothing, another task or    *)
(* loadHome; f is the form at that moment.                                  *)
Continue(then, f, sent) ==
    \/ /\ then = "stay"
       /\ form' = f /\ calls' = sent
       /\ UNCHANGED active
    \/ /\ then \in Tasks
       /\ form' = Opened(then) /\ active' = then /\ calls' = sent
    \/ /\ then = "home"
       /\ form' = f /\ calls' = Append(sent, HomeCall(NoTask))
       /\ UNCHANGED active

(* Mutant: a draft is sent although one is in flight.                       *)
QueueDraftMut(then) ==
    /\ form.shown
    /\ draftSaving' = TRUE
    /\ calls' = Append(calls, SaveCall("draft", form, then))
    /\ UNCHANGED <<active, form, pendingDraft>>

(* queueServerDraft on a shown form. While a draft is in flight only the    *)
(* wish is recorded and the caller goes on at once.                         *)
QueueDraft(then) ==
    /\ form.shown
    /\ \/ /\ ~draftSaving
          /\ draftSaving' = TRUE
          /\ calls' = Append(calls, SaveCall("draft", form, then))
          /\ UNCHANGED <<active, form, pendingDraft>>
       \/ /\ draftSaving
          /\ pendingDraft' = TRUE
          /\ Continue(then, form, calls)
          /\ UNCHANGED draftSaving

-----------------------------------------------------------------------------
Input == inputs < MaxInputs /\ inputs' = inputs + 1 /\ UNCHANGED failures

OpenTask(t) ==
    /\ Input
    /\ ~form.shown
    /\ form' = Opened(t)
    /\ active' = t
    /\ UNCHANGED <<server, home, device, timer, draftSaving, pendingDraft, calls>>

(* form.oninput.                                                            *)
Edit ==
    LET content == <<active, inputs + 1>> IN
    /\ Input
    /\ form.shown
    /\ form' = [form EXCEPT !.content = content, !.notice = "syncing"]
    /\ device' = [device EXCEPT ![active] = content]
    /\ timer' = TRUE
    /\ UNCHANGED <<server, home, active, draftSaving, pendingDraft, calls>>

TimerFires ==
    /\ timer
    /\ timer' = FALSE
    /\ QueueDraft("stay") \/ (~form.shown /\ UNCHANGED <<active, form, draftSaving, pendingDraft, calls>>)
    /\ UNCHANGED <<server, home, device, bounds>>

(* A click on another recruit, or on Back.                                  *)
Leave(then) ==
    /\ Input
    /\ then \notin {"stay", active}
    /\ timer' = FALSE
    /\ QueueDraft(then)
    /\ UNCHANGED <<server, home, device>>

(* form.onsubmit and submitEvaluation up to the request.                    *)
Submit ==
    /\ Input
    /\ form.shown /\ ~form.submitting
    /\ form.content # Blank
    /\ timer' = FALSE
    /\ form' = [form EXCEPT !.submitting = TRUE]
    /\ calls' = Append(calls, SaveCall("submit", form, "home"))
    /\ UNCHANGED <<server, home, device, active, draftSaving, pendingDraft>>

(* The Refresh button, and the poll while the home page is shown.           *)
Refresh ==
    /\ Input
    /\ ~form.shown
    /\ calls' = Append(calls, HomeCall(NoTask))
    /\ UNCHANGED <<server, tab>>

-----------------------------------------------------------------------------
(* _save_task and save_submission, for a published task of an open          *)
(* activity. Saves of one task are serialised by the lock on its assignment.*)
Accepted(c) == server[c.task].version = 0 \/ c.version \in {0, server[c.task].version}

(* Mutant: the request's name is stored as the status.                      *)
StatusMut(kind) == kind

Status(kind) == IF kind = "submit" THEN "submitted" ELSE "draft"

Handle(i) ==
    LET c == calls[i] IN
    /\ c.phase = "sent"
    /\ \/ /\ c.kind = "home"
          /\ calls' = [calls EXCEPT ![i] = [@ EXCEPT !.phase = "ok", !.reply = server]]
          /\ UNCHANGED server
       \/ /\ c.kind # "home"
          /\ Accepted(c)
          /\ server' = [server EXCEPT ![c.task] =
                           [version |-> @.version + 1, status |-> Status(c.kind),
                            content |-> c.content]]
          /\ calls' = [calls EXCEPT ![i] =
                          [@ EXCEPT !.phase = "ok", !.reply = server[c.task].version + 1]]
       \/ /\ c.kind # "home"
          /\ ~Accepted(c)
          /\ calls' = [calls EXCEPT ![i] = [@ EXCEPT !.phase = "conflict"]]
          /\ UNCHANGED server
    /\ UNCHANGED <<tab, bounds>>

(* The request or its answer is lost, or the server refuses it for a reason *)
(* of its own (the activity was closed, the session ended).                 *)
Fail(i) ==
    /\ calls[i].phase \in {"sent", "ok"}
    /\ calls' = [calls EXCEPT ![i] = [@ EXCEPT !.phase = "failed"]]
    /\ failures < MaxFailures /\ failures' = failures + 1
    /\ UNCHANGED <<server, tab, inputs>>

(* The answer to a draft is written into whichever form is shown.           *)
AfterDraft(c) ==
    IF ~form.shown THEN form
    ELSE IF c.phase = "ok" THEN [form EXCEPT !.version = c.reply, !.notice = "synced"]
    ELSE [form EXCEPT !.notice = c.phase]

(* Mutant: the recorded wish for another draft is forgotten.                *)
DraftAnsweredMut(i) ==
    LET c == calls[i]
        f == AfterDraft(c)
    IN
    /\ c.kind = "draft" /\ c.phase # "sent"
    /\ draftSaving' = FALSE
    /\ pendingDraft' = FALSE
    /\ Continue(c.then, f, RemoveAt(calls, i))
    /\ UNCHANGED <<server, home, device, timer, bounds>>

(* The recorded wish for another draft is served before the caller of the   *)
(* answered one goes on.                                                    *)
DraftAnswered(i) ==
    LET c == calls[i]
        f == AfterDraft(c)
        again == pendingDraft /\ form.shown
        left == RemoveAt(calls, i)
        sent == IF again THEN Append(left, SaveCall("draft", f, "stay")) ELSE left
    IN
    /\ c.kind = "draft" /\ c.phase # "sent"
    /\ draftSaving' = again
    /\ pendingDraft' = FALSE
    /\ Continue(c.then, f, sent)
    /\ UNCHANGED <<server, home, device, timer, bounds>>

(* A submit, or the loadHome after it, failed: the button works again (a    *)
(* form opened anew for the same task meanwhile is taken for the old one).  *)
SubmitRefused(c) ==
    IF form.shown /\ c.task = active
    THEN [form EXCEPT !.submitting = FALSE, !.notice = c.phase]
    ELSE form

(* The answer to a submit. The draft dropped from the device is that of the *)
(* task which is active now.                                                *)
SubmitAnswered(i) ==
    LET c == calls[i] IN
    /\ c.kind = "submit" /\ c.phase # "sent"
    /\ \/ /\ c.phase = "ok"
          /\ device' = [device EXCEPT ![active] = Blank]
          /\ calls' = Append(RemoveAt(calls, i), HomeCall(c.task))
          /\ UNCHANGED form
       \/ /\ c.phase # "ok"
          /\ form' = SubmitRefused(c)
          /\ calls' = RemoveAt(calls, i)
          /\ UNCHANGED device
    /\ UNCHANGED <<server, home, active, timer, draftSaving, pendingDraft, bounds>>

(* loadHome has its answer: the home page replaces whatever is shown.       *)
HomeAnswered(i) ==
    LET c == calls[i] IN
    /\ c.kind = "home" /\ c.phase # "sent"
    /\ \/ c.phase = "ok" /\ home' = c.reply /\ form' = NoForm
       \/ c.phase # "ok" /\ form' = SubmitRefused(c) /\ UNCHANGED home
    /\ calls' = RemoveAt(calls, i)
    /\ UNCHANGED <<server, device, active, timer, draftSaving, pendingDraft, bounds>>

-----------------------------------------------------------------------------
Answered(i) == DraftAnswered(i) \/ SubmitAnswered(i) \/ HomeAnswered(i)

Next ==
    \/ \E t \in Tasks : OpenTask(t)
    \/ Edit
    \/ TimerFires
    \/ \E then \in Tasks \cup {"home"} : Leave(then)
    \/ Submit
    \/ Refresh
    \/ \E i \in DOMAIN calls : Handle(i)
    \/ \E i \in DOMAIN calls : Fail(i)
    \/ \E i \in DOMAIN calls : Answered(i)

(* Timers fire, and every request is answered or fails in the end (fetch    *)
(* rejects when the connection is gone). Nothing makes the evaluator act.   *)
OfKind(kind) == {i \in DOMAIN calls : calls[i].kind = kind}

Fairness ==
    /\ WF_vars(TimerFires)
    /\ \A kind \in {"draft", "submit", "home"} :
          /\ WF_vars(\E i \in OfKind(kind) : Handle(i))
          /\ WF_vars(\E i \in OfKind(kind) : Answered(i))

Spec == Init /\ [][Next]_vars /\ Fairness

-----------------------------------------------------------------------------
Phases == {"sent", "ok", "conflict", "failed"}
Saved == [version : Nat, status : {"none", "draft", "submitted"}, content : Contents]
SaveCalls ==
    [kind : {"draft", "submit"}, task : Tasks, version : Nat, content : Contents,
     then : Tasks \cup {"stay", "home"}, phase : Phases, reply : Nat]
HomeCalls ==
    [kind : {"home"}, task : Tasks \cup {NoTask}, phase : Phases \ {"conflict"}, reply : [Tasks -> Saved]]

TypeOK ==
    /\ server \in [Tasks -> Saved]
    /\ home \in [Tasks -> Saved]
    /\ device \in [Tasks -> Contents]
    /\ active \in Tasks \cup {NoTask}
    /\ form \in [shown : BOOLEAN, version : Nat, content : Contents, submitting : BOOLEAN,
               notice : {"none", "syncing", "synced", "conflict", "failed"}]
    /\ <<timer, draftSaving, pendingDraft>> \in BOOLEAN \X BOOLEAN \X BOOLEAN
    /\ calls \in Seq(SaveCalls \cup HomeCalls)
    /\ inputs \in 0..MaxInputs /\ failures \in 0..MaxFailures

Of(t) == {c \in Contents : c = Blank \/ c[1] = t}

(* What was typed for one recruit is never shown, kept or saved as the      *)
(* evaluation of another, although switching, the recorded wish for another *)
(* draft and late answers all act on whatever task is active by then.       *)
OwnContent ==
    /\ \A t \in Tasks : {server[t].content, home[t].content, device[t]} \subseteq Of(t)
    /\ form.shown => form.content \in Of(active)

(* Drafts are sent one at a time: draftSaving is up exactly while one is in *)
(* flight, so no failed or lost answer can leave the tab unable to sync.    *)
SingleFlight ==
    Cardinality(OfKind("draft")) = IF draftSaving THEN 1 ELSE 0

(* What is typed reaches the server, or the evaluator is told that it did   *)
(* not, unless the form is left first: a key pressed while an earlier draft *)
(* is in flight is not forgotten when its own timer finds the tab busy.     *)
EditsReachServer ==
    \A t \in Tasks, n \in 1..MaxInputs :
        (form.shown /\ form.content = <<t, n>> /\ form.notice = "syncing")
            ~> \/ server[t].content[2] >= n
               \/ ~form.shown \/ active # t
               \/ form.notice \in {"conflict", "failed"}

(* "This evaluation changed in another tab. Reload it before saving.": with *)
(* one tab and no admin correction, no submit is refused for this reason.   *)
NoFalseConflict == \A i \in OfKind("submit") : calls[i].phase # "conflict"
=============================================================================
