-------------------------- MODULE EvaluatorFormProofs --------------------------
(* Proofs about the evaluator's tab, for any tasks and any number of keys,    *)
(* clicks and failed requests.                                                *)
EXTENDS EvaluatorForm, FiniteSetTheorems, TLAPS

(* What the server and the home page may have of a task.                     *)
OwnSaved(t) == {e \in Saved : e.content \in Of(t)}

(* Requests that carry each recruit's own content.                           *)
OwnSaves == {c \in SaveCalls : c.content \in Of(c.task)}
OwnHomes == {c \in HomeCalls : \A t \in Tasks : c.reply[t] \in OwnSaved(t)}
OwnCalls == OwnSaves \cup OwnHomes

Forms == [shown : BOOLEAN, version : Nat, content : Contents, submitting : BOOLEAN,
          notice : {"none", "syncing", "synced", "conflict", "failed"}]

(* A form is about the active task.                                          *)
FormOf(f, task) ==
    /\ f \in Forms
    /\ f.shown => task \in Tasks /\ f.content \in Of(task)

(* At most one of the requests is a draft; saving tells whether one is.      *)
OneDraft(s, saving) ==
    /\ \A i, j \in DOMAIN s : s[i].kind = "draft" /\ s[j].kind = "draft" => i = j
    /\ saving <=> \E i \in DOMAIN s : s[i].kind = "draft"

StoresOK ==
    /\ server \in [Tasks -> Saved] /\ \A t \in Tasks : server[t].content \in Of(t)
    /\ home \in [Tasks -> Saved] /\ \A t \in Tasks : home[t].content \in Of(t)
    /\ device \in [Tasks -> Contents] /\ \A t \in Tasks : device[t] \in Of(t)

TabOK ==
    /\ active \in Tasks \cup {NoTask}
    /\ FormOf(form, active)
    /\ timer \in BOOLEAN /\ draftSaving \in BOOLEAN /\ pendingDraft \in BOOLEAN

(* A save was sent for a task, and some task stays active from then on.      *)
CallsOK ==
    /\ calls \in Seq(OwnCalls)
    /\ \A i \in DOMAIN calls : calls[i].kind # "home" => active \in Tasks

BoundsOK == inputs \in 0..MaxInputs /\ failures \in 0..MaxFailures

Inv == StoresOK /\ TabOK /\ CallsOK /\ OneDraft(calls, draftSaving) /\ BoundsOK

-----------------------------------------------------------------------------
(* Sequences of requests.                                                    *)
LEMMA Removed ==
    ASSUME NEW R, NEW s \in Seq(R), NEW i \in DOMAIN s
    PROVE  /\ RemoveAt(s, i) \in Seq(R)
           /\ DOMAIN RemoveAt(s, i) = 1..(Len(s) - 1)
           /\ \A j \in 1..(Len(s) - 1) :
                 RemoveAt(s, i)[j] = IF j < i THEN s[j] ELSE s[j + 1]
<1> DEFINE before == SubSeq(s, 1, i - 1)
           after == SubSeq(s, i + 1, Len(s))
<1>1. Len(s) \in Nat /\ i \in 1..Len(s)
  OBVIOUS
<1>2. before \in Seq(R) /\ Len(before) = i - 1 /\ \A j \in 1..(i - 1) : before[j] = s[j]
  BY <1>1
<1>3. after \in Seq(R) /\ Len(after) = Len(s) - i /\ \A j \in 1..(Len(s) - i) : after[j] = s[i + j]
  BY <1>1
<1> HIDE DEF before, after
<1>4. before \o after \in Seq(R) /\ Len(before \o after) = Len(s) - 1
  BY <1>1, <1>2, <1>3
<1>5. \A j \in 1..(Len(s) - 1) :
         (before \o after)[j] = IF j < i THEN before[j] ELSE after[j - (i - 1)]
  BY <1>1, <1>2, <1>3
<1>6. \A j \in 1..(Len(s) - 1) : (before \o after)[j] = IF j < i THEN s[j] ELSE s[j + 1]
  <2> SUFFICES ASSUME NEW j \in 1..(Len(s) - 1)
               PROVE  (before \o after)[j] = IF j < i THEN s[j] ELSE s[j + 1]
    OBVIOUS
  <2>1. CASE j < i
    BY <1>1, <1>2, <1>5, <2>1
  <2>2. CASE ~(j < i)
    <3>1. j - (i - 1) \in 1..(Len(s) - i) /\ i + (j - (i - 1)) = j + 1
      BY <1>1, <2>2
    <3>2. QED
      BY <1>3, <1>5, <2>2, <3>1
  <2>3. QED
    BY <2>1, <2>2
<1>7. RemoveAt(s, i) = before \o after
  BY DEF RemoveAt, before, after
<1>8. QED
  BY <1>4, <1>6, <1>7

LEMMA Appended ==
    ASSUME NEW R, NEW s \in Seq(R), NEW e \in R
    PROVE  /\ Append(s, e) \in Seq(R)
           /\ DOMAIN Append(s, e) = 1..(Len(s) + 1) /\ DOMAIN s = 1..Len(s) /\ Len(s) \in Nat
           /\ Append(s, e)[Len(s) + 1] = e
           /\ \A j \in DOMAIN s : Append(s, e)[j] = s[j]
  OBVIOUS

LEMMA Replaced ==
    ASSUME NEW R, NEW s \in Seq(R), NEW i \in DOMAIN s, NEW e \in R
    PROVE  /\ [s EXCEPT ![i] = e] \in Seq(R)
           /\ DOMAIN [s EXCEPT ![i] = e] = DOMAIN s
           /\ [s EXCEPT ![i] = e][i] = e
           /\ \A j \in DOMAIN s : j # i => [s EXCEPT ![i] = e][j] = s[j]
  OBVIOUS

(* How sending and answering changes the drafts in flight.                   *)
LEMMA OtherSent ==
    ASSUME NEW s \in Seq(OwnCalls), NEW e \in OwnCalls, NEW saving \in BOOLEAN,
           OneDraft(s, saving), e.kind # "draft"
    PROVE  OneDraft(Append(s, e), saving)
  BY Appended DEF OneDraft

LEMMA DraftSent ==
    ASSUME NEW s \in Seq(OwnCalls), NEW e \in OwnCalls,
           OneDraft(s, FALSE), e.kind = "draft"
    PROVE  OneDraft(Append(s, e), TRUE)
  BY Appended DEF OneDraft

LEMMA DraftRemoved ==
    ASSUME NEW s \in Seq(OwnCalls), NEW i \in DOMAIN s, NEW saving \in BOOLEAN,
           OneDraft(s, saving), s[i].kind = "draft"
    PROVE  OneDraft(RemoveAt(s, i), FALSE)
<1>1. Len(s) \in Nat /\ DOMAIN s = 1..Len(s)
  OBVIOUS
<1>2. \A j \in 1..(Len(s) - 1) : RemoveAt(s, i)[j] = IF j < i THEN s[j] ELSE s[j + 1]
  BY Removed
<1>3. \A j \in 1..(Len(s) - 1) : RemoveAt(s, i)[j].kind # "draft"
  <2> SUFFICES ASSUME NEW j \in 1..(Len(s) - 1)
               PROVE  RemoveAt(s, i)[j].kind # "draft"
    OBVIOUS
  <2>1. CASE j < i
    BY <1>1, <1>2, <2>1 DEF OneDraft
  <2>2. CASE ~(j < i)
    BY <1>1, <1>2, <2>2 DEF OneDraft
  <2>3. QED
    BY <2>1, <2>2
<1>4. QED
  BY <1>3, Removed DEF OneDraft

LEMMA OtherRemoved ==
    ASSUME NEW s \in Seq(OwnCalls), NEW i \in DOMAIN s, NEW saving \in BOOLEAN,
           OneDraft(s, saving), s[i].kind # "draft"
    PROVE  OneDraft(RemoveAt(s, i), saving)
<1> DEFINE r == RemoveAt(s, i)
<1>1. Len(s) \in Nat /\ DOMAIN s = 1..Len(s) /\ DOMAIN r = 1..(Len(s) - 1)
  BY Removed
<1>2. \A j \in DOMAIN r : r[j] = IF j < i THEN s[j] ELSE s[j + 1]
  BY <1>1, Removed
<1> HIDE DEF r
<1>3. \A j, k \in DOMAIN r : r[j].kind = "draft" /\ r[k].kind = "draft" => j = k
  <2> SUFFICES ASSUME NEW j \in DOMAIN r, NEW k \in DOMAIN r,
                      r[j].kind = "draft", r[k].kind = "draft"
               PROVE  j = k
    OBVIOUS
  <2> DEFINE at(n) == IF n < i THEN n ELSE n + 1
  <2>1. at(j) \in DOMAIN s /\ at(k) \in DOMAIN s /\ r[j] = s[at(j)] /\ r[k] = s[at(k)]
    BY <1>1, <1>2
  <2>2. at(j) = at(k)
    BY <2>1 DEF OneDraft
  <2>3. QED
    BY <1>1, <2>2
<1>4. (\E j \in DOMAIN r : r[j].kind = "draft") <=> (\E j \in DOMAIN s : s[j].kind = "draft")
  <2>1. ASSUME NEW j \in DOMAIN s, s[j].kind = "draft"
        PROVE  \E k \in DOMAIN r : r[k].kind = "draft"
    <3>1. CASE j < i
      <4>1. j \in DOMAIN r /\ r[j] = s[j]
        BY <1>1, <1>2, <3>1
      <4>2. QED
        BY <2>1, <4>1
    <3>2. CASE j > i
      <4>1. j - 1 \in DOMAIN r /\ r[j - 1] = s[j]
        BY <1>1, <1>2, <3>2
      <4>2. QED
        BY <2>1, <4>1
    <3>3. QED
      BY <1>1, <2>1, <3>1, <3>2
  <2>2. ASSUME NEW j \in DOMAIN r, r[j].kind = "draft"
        PROVE  \E k \in DOMAIN s : s[k].kind = "draft"
    <3>1. j \in DOMAIN s /\ j + 1 \in DOMAIN s
      BY <1>1
    <3>2. QED
      BY <1>2, <2>2, <3>1
  <2>3. QED
    BY <2>1, <2>2
<1>5. QED
  BY <1>3, <1>4 DEF OneDraft, r

-----------------------------------------------------------------------------
(* What the tab shows and sends is about its active task.                    *)
LEMMA BlankIsOwn == Blank \in Contents /\ \A t : Blank \in Of(t)
  BY DEF Contents, Of

LEMMA OpenedIsOwn ==
    ASSUME StoresOK, NEW t \in Tasks
    PROVE  FormOf(Opened(t), t)
<1>1. home[t] \in Saved /\ home[t].content \in Of(t) /\ device[t] \in Of(t) /\ device[t] \in Contents
  BY DEF StoresOK
<1>2. home[t].version \in Nat /\ home[t].content \in Contents
  BY <1>1 DEF Saved
<1>3. QED
  BY <1>1, <1>2 DEF Opened, FormOf, Forms

LEMMA SaveCallIsOwn ==
    ASSUME NEW f, FormOf(f, active), f.shown, NEW kind \in {"draft", "submit"},
           NEW then \in Tasks \cup {"stay", "home"}
    PROVE  SaveCall(kind, f, then) \in OwnCalls /\ SaveCall(kind, f, then).kind = kind
<1>1. active \in Tasks /\ f.content \in Of(active) /\ f.content \in Contents /\ f.version \in Nat
  BY DEF FormOf, Forms
<1>2. SaveCall(kind, f, then) \in SaveCalls
  BY <1>1 DEF SaveCall, SaveCalls, Phases
<1>3. QED
  BY <1>1, <1>2 DEF SaveCall, OwnSaves, OwnCalls

LEMMA HomeCallIsOwn ==
    ASSUME StoresOK, NEW after \in Tasks \cup {NoTask}
    PROVE  HomeCall(after) \in OwnCalls /\ HomeCall(after).kind = "home"
<1>1. HomeCall(after) \in HomeCalls
  BY DEF HomeCall, HomeCalls, Phases, StoresOK
<1>2. \A t \in Tasks : home[t] \in OwnSaved(t)
  BY DEF StoresOK, OwnSaved
<1>3. QED
  BY <1>1, <1>2 DEF HomeCall, OwnHomes, OwnCalls

(* A request on its way, by kind.                                            *)
LEMMA CallKinds ==
    ASSUME NEW c \in OwnCalls
    PROVE  /\ c.kind \in {"draft", "submit", "home"}
           /\ c.kind # "home" => c \in OwnSaves
           /\ c.kind = "home" => c \in OwnHomes
           /\ c.kind = "draft" => c.then \in Tasks \cup {"stay", "home"}
  BY DEF OwnCalls, OwnSaves, OwnHomes, SaveCalls, HomeCalls

(* Where queueServerDraft's caller goes keeps the tab's invariant.           *)
LEMMA ContinueKeeps ==
    ASSUME StoresOK, active \in Tasks \cup {NoTask}, NEW f, FormOf(f, active),
           NEW saving \in BOOLEAN, NEW sent \in Seq(OwnCalls), OneDraft(sent, saving),
           \A i \in DOMAIN sent : sent[i].kind # "home" => active \in Tasks,
           NEW then, Continue(then, f, sent)
    PROVE  /\ active' \in Tasks \cup {NoTask} /\ FormOf(form', active')
           /\ calls' \in Seq(OwnCalls) /\ OneDraft(calls', saving)
           /\ \A i \in DOMAIN calls' : calls'[i].kind # "home" => active' \in Tasks
<1>1. CASE form' = f /\ calls' = sent /\ UNCHANGED active
  BY <1>1
<1>2. CASE then \in Tasks /\ form' = Opened(then) /\ active' = then /\ calls' = sent
  BY <1>2, OpenedIsOwn
<1>3. CASE form' = f /\ calls' = Append(sent, HomeCall(NoTask)) /\ UNCHANGED active
  <2>1. HomeCall(NoTask) \in OwnCalls /\ HomeCall(NoTask).kind = "home"
    BY HomeCallIsOwn
  <2> DEFINE e == HomeCall(NoTask)
  <2> HIDE DEF e
  <2>2. e \in OwnCalls /\ e.kind = "home" /\ calls' = Append(sent, e)
    BY <1>3, <2>1 DEF e
  <2>3. OneDraft(calls', saving)
    BY <2>2, OtherSent
  <2>4. /\ calls' \in Seq(OwnCalls)
        /\ \A i \in DOMAIN calls' : calls'[i].kind # "home" => active \in Tasks
    BY <2>2, Appended
  <2>5. QED
    BY <1>3, <2>3, <2>4
<1>4. QED
  BY <1>1, <1>2, <1>3 DEF Continue

(* A save sent from the form that is shown.                                  *)
LEMMA SendKeeps ==
    ASSUME NEW f, FormOf(f, active), f.shown, NEW kind \in {"draft", "submit"},
           NEW then \in Tasks \cup {"stay", "home"}, NEW sent \in Seq(OwnCalls),
           NEW saving \in BOOLEAN, OneDraft(sent, saving), kind = "draft" => ~saving
    PROVE  LET new == Append(sent, SaveCall(kind, f, then)) IN
           /\ new \in Seq(OwnCalls)
           /\ OneDraft(new, saving \/ kind = "draft")
           /\ active \in Tasks
<1> DEFINE e == SaveCall(kind, f, then)
<1>1. e \in OwnCalls /\ e.kind = kind
  BY SaveCallIsOwn
<1> HIDE DEF e
<1>2. Append(sent, e) \in Seq(OwnCalls)
  BY <1>1
<1>3. CASE kind = "draft"
  <2>1. OneDraft(sent, FALSE)
    BY <1>3 DEF OneDraft
  <2>2. OneDraft(Append(sent, e), TRUE)
    BY <1>1, <1>3, <2>1, DraftSent
  <2>3. QED
    BY <1>2, <1>3, <2>2 DEF FormOf, e
<1>4. CASE kind = "submit"
  <2>1. OneDraft(Append(sent, e), saving)
    BY <1>1, <1>4, OtherSent
  <2>2. QED
    BY <1>2, <1>4, <2>1 DEF FormOf, e
<1>5. QED
  BY <1>3, <1>4

LEMMA QueueDraftKeeps ==
    ASSUME Inv, NEW then \in Tasks \cup {"stay", "home"}, QueueDraft(then)
    PROVE  /\ active' \in Tasks \cup {NoTask} /\ FormOf(form', active')
           /\ calls' \in Seq(OwnCalls) /\ OneDraft(calls', draftSaving')
           /\ \A i \in DOMAIN calls' : calls'[i].kind # "home" => active' \in Tasks
           /\ draftSaving' \in BOOLEAN /\ pendingDraft' \in BOOLEAN
<1>1. CASE /\ ~draftSaving /\ draftSaving' = TRUE
           /\ calls' = Append(calls, SaveCall("draft", form, then))
           /\ UNCHANGED <<active, form, pendingDraft>>
  <2>1. /\ calls' \in Seq(OwnCalls) /\ active \in Tasks
        /\ OneDraft(calls', draftSaving \/ "draft" = "draft")
    BY <1>1, SendKeeps DEF Inv, TabOK, CallsOK, QueueDraft
  <2>2. OneDraft(calls', draftSaving')
    BY <1>1, <2>1 DEF OneDraft
  <2>3. QED
    BY <1>1, <2>1, <2>2 DEF Inv, TabOK
<1>2. CASE /\ draftSaving /\ pendingDraft' = TRUE /\ UNCHANGED draftSaving
           /\ Continue(then, form, calls)
  BY <1>2, ContinueKeeps DEF Inv, TabOK, CallsOK
<1>3. QED
  BY <1>1, <1>2 DEF QueueDraft

-----------------------------------------------------------------------------
LEMMA InitInv == Init => Inv
<1> SUFFICES ASSUME Init
             PROVE  Inv
  OBVIOUS
<1> USE DEF Init
<1>1. Unsaved \in Saved /\ Unsaved.content = Blank
  BY BlankIsOwn DEF Unsaved, Saved
<1>2. StoresOK
  BY <1>1, BlankIsOwn DEF StoresOK
<1>3. NoForm \in Forms /\ ~NoForm.shown
  BY BlankIsOwn DEF NoForm, Forms
<1>4. TabOK
  BY <1>3 DEF TabOK, FormOf
<1>5. CallsOK /\ OneDraft(calls, draftSaving)
  BY DEF CallsOK, OneDraft
<1>6. BoundsOK
  BY FormAssumption DEF BoundsOK
<1>7. QED
  BY <1>2, <1>4, <1>5, <1>6 DEF Inv

(* The evaluator acts, or the timer does.                                    *)
LEMMA InputKeeps ==
    ASSUME Inv, Input
    PROVE  BoundsOK' /\ inputs + 1 \in 1..MaxInputs
  BY FormAssumption DEF Inv, BoundsOK, Input

LEMMA OpenTaskKeepsInv ==
    ASSUME Inv, NEW t \in Tasks, OpenTask(t)
    PROVE  Inv'
<1>1. FormOf(form', active') /\ active' = t
  BY OpenedIsOwn DEF Inv, OpenTask
<1>2. BoundsOK'
  BY InputKeeps DEF OpenTask
<1>3. UNCHANGED <<server, home, device, timer, draftSaving, pendingDraft, calls>>
  BY DEF OpenTask
<1>4. QED
  BY <1>1, <1>2, <1>3 DEF Inv, StoresOK, TabOK, CallsOK

LEMMA EditKeepsInv ==
    ASSUME Inv, Edit
    PROVE  Inv'
<1> DEFINE content == <<active, inputs + 1>>
<1>1. BoundsOK' /\ inputs + 1 \in 1..MaxInputs
  BY InputKeeps DEF Edit
<1>2. active \in Tasks /\ form \in Forms
  BY DEF Inv, TabOK, FormOf, Edit
<1>3. content \in Contents /\ content \in Of(active)
  BY <1>1, <1>2 DEF Contents, Of
<1> HIDE DEF content
<1>4. FormOf([form EXCEPT !.content = content, !.notice = "syncing"], active)
  BY <1>2, <1>3 DEF FormOf, Forms
<1>5. /\ form' = [form EXCEPT !.content = content, !.notice = "syncing"]
      /\ device' = [device EXCEPT ![active] = content] /\ timer' = TRUE
      /\ UNCHANGED <<server, home, active, draftSaving, pendingDraft, calls>>
  BY DEF Edit, content
<1>6. StoresOK'
  BY <1>2, <1>3, <1>5 DEF Inv, StoresOK
<1>7. TabOK'
  BY <1>4, <1>5 DEF Inv, TabOK
<1>8. QED
  BY <1>1, <1>5, <1>6, <1>7 DEF Inv, CallsOK

LEMMA TimerFiresKeepsInv ==
    ASSUME Inv, TimerFires
    PROVE  Inv'
<1>1. timer' = FALSE /\ UNCHANGED <<server, home, device, inputs, failures>>
  BY DEF TimerFires, bounds
<1>2. CASE QueueDraft("stay")
  BY <1>1, <1>2, QueueDraftKeeps DEF Inv, StoresOK, TabOK, CallsOK, BoundsOK
<1>3. CASE UNCHANGED <<active, form, draftSaving, pendingDraft, calls>>
  BY <1>1, <1>3 DEF Inv, StoresOK, TabOK, CallsOK, BoundsOK
<1>4. QED
  BY <1>2, <1>3 DEF TimerFires

LEMMA LeaveKeepsInv ==
    ASSUME Inv, NEW then \in Tasks \cup {"home"}, Leave(then)
    PROVE  Inv'
<1>1. timer' = FALSE /\ UNCHANGED <<server, home, device>> /\ QueueDraft(then) /\ BoundsOK'
  BY InputKeeps DEF Leave
<1>2. QED
  BY <1>1, QueueDraftKeeps DEF Inv, StoresOK, TabOK, CallsOK

LEMMA SubmitKeepsInv ==
    ASSUME Inv, Submit
    PROVE  Inv'
<1>1. /\ form.shown /\ timer' = FALSE /\ form' = [form EXCEPT !.submitting = TRUE]
      /\ calls' = Append(calls, SaveCall("submit", form, "home"))
      /\ UNCHANGED <<server, home, device, active, draftSaving, pendingDraft>> /\ BoundsOK'
  BY InputKeeps DEF Submit
<1>2. /\ calls' \in Seq(OwnCalls) /\ active \in Tasks
      /\ OneDraft(calls', draftSaving \/ "submit" = "draft")
  BY <1>1, SendKeeps DEF Inv, TabOK, CallsOK
<1>3. OneDraft(calls', draftSaving)
  BY <1>2 DEF OneDraft
<1>4. FormOf(form', active)
  BY <1>1 DEF Inv, TabOK, FormOf, Forms
<1>5. QED
  BY <1>1, <1>2, <1>3, <1>4 DEF Inv, StoresOK, TabOK, CallsOK

LEMMA RefreshKeepsInv ==
    ASSUME Inv, Refresh
    PROVE  Inv'
<1> DEFINE e == HomeCall(NoTask)
<1>1. calls' = Append(calls, e) /\ BoundsOK' /\ UNCHANGED <<server, tab>>
  BY InputKeeps DEF Refresh
<1>2. e \in OwnCalls /\ e.kind = "home"
  BY HomeCallIsOwn DEF Inv
<1> HIDE DEF e
<1>3. OneDraft(calls', draftSaving) /\ calls' \in Seq(OwnCalls)
  BY <1>1, <1>2, OtherSent DEF Inv, TabOK, CallsOK
<1>4. \A i \in DOMAIN calls' : calls'[i].kind # "home" => active \in Tasks
  BY <1>1, <1>2, Appended DEF Inv, CallsOK
<1>5. QED
  BY <1>1, <1>3, <1>4 DEF Inv, StoresOK, TabOK, CallsOK, tab

-----------------------------------------------------------------------------
(* A request that moves on remains what it was.                              *)
LEMMA CallMovesOn ==
    ASSUME CallsOK, OneDraft(calls, draftSaving), NEW i \in DOMAIN calls, NEW e \in OwnCalls,
           e.kind = calls[i].kind, calls' = [calls EXCEPT ![i] = e],
           UNCHANGED <<active, draftSaving>>
    PROVE  CallsOK' /\ OneDraft(calls, draftSaving)'
<1>1. calls \in Seq(OwnCalls)
  BY DEF CallsOK
<1>2. /\ calls' \in Seq(OwnCalls) /\ DOMAIN calls' = DOMAIN calls /\ calls'[i] = e
      /\ \A j \in DOMAIN calls : j # i => calls'[j] = calls[j]
  BY <1>1, Replaced
<1>3. \A j \in DOMAIN calls : calls'[j].kind = calls[j].kind
  BY <1>2
<1>4. QED
  BY <1>2, <1>3 DEF CallsOK, OneDraft

LEMMA HandleKeepsInv ==
    ASSUME Inv, NEW i \in DOMAIN calls, Handle(i)
    PROVE  Inv'
<1> DEFINE c == calls[i]
<1>1. c \in OwnCalls /\ UNCHANGED <<tab, bounds>>
  BY DEF Inv, CallsOK, Handle
<1>2. UNCHANGED <<home, device, active, form, timer, draftSaving, pendingDraft, inputs, failures>>
  BY <1>1 DEF tab, bounds
<1>3. CASE /\ c.kind = "home" /\ UNCHANGED server
           /\ calls' = [calls EXCEPT ![i] = [@ EXCEPT !.phase = "ok", !.reply = server]]
  <2> DEFINE e == [c EXCEPT !.phase = "ok", !.reply = server]
  <2>1. c \in OwnHomes
    BY <1>1, <1>3, CallKinds
  <2>2. \A t \in Tasks : server[t] \in OwnSaved(t)
    BY DEF Inv, StoresOK, OwnSaved
  <2>3. server \in [Tasks -> Saved]
    BY DEF Inv, StoresOK
  <2>4. e \in HomeCalls /\ e.kind = "home" /\ e.reply = server
    BY <2>1, <2>3 DEF OwnHomes, HomeCalls, Phases
  <2>5. e \in OwnCalls /\ calls' = [calls EXCEPT ![i] = e]
    BY <1>3, <2>2, <2>4 DEF OwnHomes, OwnCalls
  <2> HIDE DEF e
  <2>6. CallsOK' /\ OneDraft(calls, draftSaving)'
    BY <1>2, <1>3, <2>4, <2>5, CallMovesOn DEF Inv
  <2>7. QED
    BY <1>2, <1>3, <2>6 DEF Inv, StoresOK, TabOK, BoundsOK
<1>4. ASSUME c.kind # "home"
      PROVE  /\ c \in OwnSaves /\ c.task \in Tasks /\ c.content \in Of(c.task)
             /\ c.content \in Contents
  BY <1>1, <1>4, CallKinds DEF OwnSaves, SaveCalls
<1>5. CASE /\ c.kind # "home"
           /\ server' = [server EXCEPT ![c.task] =
                           [version |-> @.version + 1, status |-> Status(c.kind),
                            content |-> c.content]]
           /\ calls' = [calls EXCEPT ![i] =
                          [@ EXCEPT !.phase = "ok", !.reply = server[c.task].version + 1]]
  <2> DEFINE n == server[c.task].version + 1
             e == [c EXCEPT !.phase = "ok", !.reply = n]
  <2>1. n \in Nat
    BY <1>4, <1>5 DEF Inv, StoresOK, Saved
  <2> HIDE DEF n
  <2>2. e \in SaveCalls /\ e.kind = c.kind /\ e.content = c.content /\ e.task = c.task
    BY <1>4, <1>5, <2>1 DEF OwnSaves, SaveCalls, Phases
  <2>3. e \in OwnCalls /\ calls' = [calls EXCEPT ![i] = e]
    BY <1>4, <1>5, <2>2 DEF OwnSaves, OwnCalls, n
  <2> HIDE DEF e
  <2>4. CallsOK' /\ OneDraft(calls, draftSaving)'
    BY <1>2, <2>2, <2>3, CallMovesOn DEF Inv
  <2>5. [version |-> n, status |-> Status(c.kind), content |-> c.content] \in Saved
    BY <1>4, <1>5, <2>1 DEF Saved, Status
  <2>6. server' = [server EXCEPT ![c.task] =
                     [version |-> n, status |-> Status(c.kind), content |-> c.content]]
    BY <1>5 DEF n
  <2>7. server' \in [Tasks -> Saved] /\ \A t \in Tasks : server'[t].content \in Of(t)
    BY <1>4, <1>5, <2>5, <2>6 DEF Inv, StoresOK
  <2>8. QED
    BY <1>2, <2>4, <2>7 DEF Inv, StoresOK, TabOK, BoundsOK
<1>6. CASE /\ c.kind # "home" /\ UNCHANGED server
           /\ calls' = [calls EXCEPT ![i] = [@ EXCEPT !.phase = "conflict"]]
  <2> DEFINE e == [c EXCEPT !.phase = "conflict"]
  <2>1. e \in OwnCalls /\ e.kind = c.kind /\ calls' = [calls EXCEPT ![i] = e]
    BY <1>4, <1>6 DEF OwnSaves, OwnCalls, SaveCalls, Phases
  <2> HIDE DEF e
  <2>2. CallsOK' /\ OneDraft(calls, draftSaving)'
    BY <1>2, <2>1, CallMovesOn DEF Inv
  <2>3. QED
    BY <1>2, <1>6, <2>2 DEF Inv, StoresOK, TabOK, BoundsOK
<1>7. QED
  BY <1>3, <1>5, <1>6 DEF Handle

LEMMA FailKeepsInv ==
    ASSUME Inv, NEW i \in DOMAIN calls, Fail(i)
    PROVE  Inv'
<1> DEFINE c == calls[i]
           e == [c EXCEPT !.phase = "failed"]
<1>1. c \in OwnCalls
  BY DEF Inv, CallsOK
<1>2. e \in OwnCalls /\ e.kind = c.kind
  <2>1. CASE c \in OwnSaves
    BY <2>1 DEF OwnSaves, OwnCalls, SaveCalls, Phases
  <2>2. CASE c \in OwnHomes
    BY <2>2 DEF OwnHomes, OwnCalls, HomeCalls, Phases
  <2>3. QED
    BY <1>1, <2>1, <2>2 DEF OwnCalls
<1>3. /\ calls' = [calls EXCEPT ![i] = e]
      /\ UNCHANGED <<server, home, device, active, form, timer, draftSaving, pendingDraft, inputs>>
      /\ failures < MaxFailures /\ failures' = failures + 1
  BY DEF Fail, tab
<1> HIDE DEF e
<1>4. CallsOK' /\ OneDraft(calls, draftSaving)'
  BY <1>2, <1>3, CallMovesOn DEF Inv
<1>5. BoundsOK'
  BY <1>3, FormAssumption DEF Inv, BoundsOK
<1>6. QED
  BY <1>3, <1>4, <1>5 DEF Inv, StoresOK, TabOK

(* An answer leaves the calls.                                               *)
LEMMA CallsLeft ==
    ASSUME CallsOK, NEW i \in DOMAIN calls
    PROVE  /\ RemoveAt(calls, i) \in Seq(OwnCalls)
           /\ \A j \in DOMAIN RemoveAt(calls, i) :
                 RemoveAt(calls, i)[j].kind # "home" => active \in Tasks
<1>1. calls \in Seq(OwnCalls) /\ Len(calls) \in Nat /\ DOMAIN calls = 1..Len(calls)
  BY DEF CallsOK
<1>2. /\ RemoveAt(calls, i) \in Seq(OwnCalls)
      /\ DOMAIN RemoveAt(calls, i) = 1..(Len(calls) - 1)
      /\ \A j \in 1..(Len(calls) - 1) :
            RemoveAt(calls, i)[j] = IF j < i THEN calls[j] ELSE calls[j + 1]
  BY <1>1, Removed
<1>3. QED
  BY <1>1, <1>2 DEF CallsOK

LEMMA DraftAnsweredKeepsInv ==
    ASSUME Inv, NEW i \in DOMAIN calls, DraftAnswered(i)
    PROVE  Inv'
<1> DEFINE c == calls[i]
           f == AfterDraft(c)
           again == pendingDraft /\ form.shown
           left == RemoveAt(calls, i)
           sent == IF again THEN Append(left, SaveCall("draft", f, "stay")) ELSE left
<1>1. /\ c.kind = "draft" /\ draftSaving' = again /\ pendingDraft' = FALSE
      /\ Continue(c.then, f, sent)
      /\ UNCHANGED <<server, home, device, timer, inputs, failures>>
  BY DEF DraftAnswered, bounds
<1>2. c \in OwnSaves
  BY <1>1, CallKinds DEF Inv, CallsOK
<1>3. FormOf(f, active) /\ (f.shown <=> form.shown)
  <2>1. c.reply \in Nat /\ c.phase \in Phases
    BY <1>2 DEF OwnSaves, SaveCalls
  <2>2. CASE ~form.shown
    BY <2>2 DEF AfterDraft, Inv, TabOK
  <2>3. CASE form.shown /\ c.phase = "ok"
    BY <2>1, <2>3 DEF AfterDraft, Inv, TabOK, FormOf, Forms
  <2>4. CASE form.shown /\ c.phase # "ok"
    BY <1>1, <2>1, <2>4 DEF AfterDraft, Inv, TabOK, FormOf, Forms, Phases, DraftAnswered
  <2>5. QED
    BY <2>2, <2>3, <2>4
<1>4. left \in Seq(OwnCalls) /\ \A j \in DOMAIN left : left[j].kind # "home" => active \in Tasks
  BY CallsLeft DEF Inv
<1>5. OneDraft(left, FALSE)
  BY <1>1, DraftRemoved DEF Inv, CallsOK, TabOK
<1> HIDE DEF f, left
<1>6. /\ sent \in Seq(OwnCalls) /\ OneDraft(sent, again) /\ again \in BOOLEAN
      /\ \A j \in DOMAIN sent : sent[j].kind # "home" => active \in Tasks
  <2>1. CASE again
    <3>1. LET new == Append(left, SaveCall("draft", f, "stay")) IN
          /\ new \in Seq(OwnCalls) /\ OneDraft(new, FALSE \/ "draft" = "draft") /\ active \in Tasks
      BY <1>3, <1>4, <1>5, <2>1, SendKeeps
    <3>2. QED
      BY <2>1, <3>1 DEF OneDraft
  <2>2. CASE ~again
    BY <1>4, <1>5, <2>2 DEF OneDraft
  <2>3. QED
    BY <2>1, <2>2
<1> HIDE DEF sent, again
<1>7. /\ active' \in Tasks \cup {NoTask} /\ FormOf(form', active')
      /\ calls' \in Seq(OwnCalls) /\ OneDraft(calls', again)
      /\ \A j \in DOMAIN calls' : calls'[j].kind # "home" => active' \in Tasks
  BY <1>1, <1>3, <1>6, ContinueKeeps DEF Inv, TabOK
<1>8. StoresOK' /\ BoundsOK'
  BY <1>1 DEF Inv, StoresOK, BoundsOK
<1>9. TabOK' /\ CallsOK'
  BY <1>1, <1>6, <1>7 DEF Inv, TabOK, CallsOK
<1>10. QED
  BY <1>1, <1>7, <1>8, <1>9 DEF Inv

(* A refused submit changes the form's button and notice only.               *)
LEMMA RefusedIsOwn ==
    ASSUME TabOK, NEW c \in OwnCalls, c.phase \in {"conflict", "failed"}
    PROVE  FormOf(SubmitRefused(c), active)
  BY DEF TabOK, FormOf, Forms, SubmitRefused

LEMMA CallPhases ==
    ASSUME NEW c \in OwnCalls, c.phase # "sent", c.phase # "ok"
    PROVE  c.phase \in {"conflict", "failed"}
<1>1. c.phase \in Phases
  BY DEF OwnCalls, OwnSaves, OwnHomes, SaveCalls, HomeCalls
<1>2. QED
  BY <1>1 DEF Phases

LEMMA SubmitAnsweredKeepsInv ==
    ASSUME Inv, NEW i \in DOMAIN calls, SubmitAnswered(i)
    PROVE  Inv'
<1> DEFINE c == calls[i]
           left == RemoveAt(calls, i)
           e == HomeCall(c.task)
<1>1. /\ c.kind = "submit" /\ c.phase # "sent"
      /\ UNCHANGED <<server, home, active, timer, draftSaving, pendingDraft, inputs, failures>>
  BY DEF SubmitAnswered, bounds
<1>2. c \in OwnCalls /\ c \in OwnSaves /\ c.task \in Tasks /\ active \in Tasks
  BY <1>1, CallKinds DEF Inv, CallsOK, OwnSaves, SaveCalls
<1>3. left \in Seq(OwnCalls) /\ \A j \in DOMAIN left : left[j].kind # "home" => active \in Tasks
  BY CallsLeft DEF Inv
<1>4. OneDraft(left, draftSaving)
  BY <1>1, OtherRemoved DEF Inv, CallsOK, TabOK
<1> HIDE DEF left
<1>5. CASE c.phase = "ok"
  <2>1. /\ device' = [device EXCEPT ![active] = Blank] /\ calls' = Append(left, e) /\ UNCHANGED form
    BY <1>5 DEF SubmitAnswered, left
  <2>2. e \in OwnCalls /\ e.kind = "home"
    BY <1>2, HomeCallIsOwn DEF Inv
  <2> HIDE DEF e
  <2>3. OneDraft(calls', draftSaving)
    BY <1>3, <1>4, <2>1, <2>2, OtherSent DEF Inv, TabOK
  <2>4. calls' \in Seq(OwnCalls)
    BY <1>3, <2>1, <2>2
  <2>5. device' \in [Tasks -> Contents] /\ \A t \in Tasks : device'[t] \in Of(t)
    BY <1>2, <2>1, BlankIsOwn DEF Inv, StoresOK
  <2>6. QED
    BY <1>1, <1>2, <2>1, <2>3, <2>4, <2>5 DEF Inv, StoresOK, TabOK, CallsOK, BoundsOK
<1>6. CASE c.phase # "ok"
  <2>1. form' = SubmitRefused(c) /\ calls' = left /\ UNCHANGED device
    BY <1>6 DEF SubmitAnswered, left
  <2>2. FormOf(form', active)
    BY <1>1, <1>2, <1>6, <2>1, CallPhases, RefusedIsOwn DEF Inv
  <2>3. QED
    BY <1>1, <1>2, <1>3, <1>4, <2>1, <2>2 DEF Inv, StoresOK, TabOK, CallsOK, BoundsOK
<1>7. QED
  BY <1>5, <1>6

LEMMA HomeAnsweredKeepsInv ==
    ASSUME Inv, NEW i \in DOMAIN calls, HomeAnswered(i)
    PROVE  Inv'
<1> DEFINE c == calls[i]
           left == RemoveAt(calls, i)
<1>1. /\ c.kind = "home" /\ c.phase # "sent" /\ calls' = left
      /\ UNCHANGED <<server, device, active, timer, draftSaving, pendingDraft, inputs, failures>>
  BY DEF HomeAnswered, bounds
<1>2. c \in OwnCalls /\ c \in OwnHomes
  BY <1>1, CallKinds DEF Inv, CallsOK
<1>3. left \in Seq(OwnCalls) /\ \A j \in DOMAIN left : left[j].kind # "home" => active \in Tasks
  BY CallsLeft DEF Inv
<1>4. OneDraft(left, draftSaving)
  BY <1>1, OtherRemoved DEF Inv, CallsOK, TabOK
<1> HIDE DEF left
<1>5. CASE home' = c.reply /\ form' = NoForm
  <2>1. home' \in [Tasks -> Saved] /\ \A t \in Tasks : home'[t].content \in Of(t)
    BY <1>2, <1>5 DEF OwnHomes, HomeCalls, OwnSaved
  <2>2. FormOf(form', active)
    BY <1>5, BlankIsOwn DEF NoForm, FormOf, Forms
  <2>3. QED
    BY <1>1, <1>3, <1>4, <2>1, <2>2 DEF Inv, StoresOK, TabOK, CallsOK, BoundsOK
<1>6. CASE c.phase # "ok" /\ form' = SubmitRefused(c) /\ UNCHANGED home
  <2>1. FormOf(form', active)
    BY <1>1, <1>2, <1>6, CallPhases, RefusedIsOwn DEF Inv
  <2>2. QED
    BY <1>1, <1>3, <1>4, <1>6, <2>1 DEF Inv, StoresOK, TabOK, CallsOK, BoundsOK
<1>7. QED
  BY <1>5, <1>6 DEF HomeAnswered

-----------------------------------------------------------------------------
LEMMA NextKeepsInv == Inv /\ [Next]_vars => Inv'
<1> SUFFICES ASSUME Inv, [Next]_vars
             PROVE  Inv'
  OBVIOUS
<1>1. CASE \E t \in Tasks : OpenTask(t)
  BY <1>1, OpenTaskKeepsInv
<1>2. CASE Edit \/ TimerFires \/ Submit \/ Refresh
  BY <1>2, EditKeepsInv, TimerFiresKeepsInv, SubmitKeepsInv, RefreshKeepsInv
<1>3. CASE \E then \in Tasks \cup {"home"} : Leave(then)
  BY <1>3, LeaveKeepsInv
<1>4. CASE \E i \in DOMAIN calls : Handle(i) \/ Fail(i)
  BY <1>4, HandleKeepsInv, FailKeepsInv
<1>5. CASE \E i \in DOMAIN calls : Answered(i)
  BY <1>5, DraftAnsweredKeepsInv, SubmitAnsweredKeepsInv, HomeAnsweredKeepsInv DEF Answered
<1>6. CASE UNCHANGED vars
  BY <1>6 DEF vars, tab, bounds, Inv, StoresOK, TabOK, CallsOK, BoundsOK, OneDraft
<1>7. QED
  BY <1>1, <1>2, <1>3, <1>4, <1>5, <1>6 DEF Next

(* The inductive invariant of the evaluator's tab.                           *)
THEOREM FormInvariant == Spec => []Inv
  BY InitInv, NextKeepsInv, PTL DEF Spec

(* Types of the tab, the server and the requests between them.               *)
THEOREM FormTypeCorrect == Spec => []TypeOK
<1>1. ASSUME Inv
      PROVE  TypeOK
  <2>1. OwnCalls \subseteq SaveCalls \cup HomeCalls
    BY DEF OwnCalls, OwnSaves, OwnHomes
  <2>2. calls \in Seq(SaveCalls \cup HomeCalls)
    BY <1>1, <2>1 DEF Inv, CallsOK
  <2>3. QED
    BY <1>1, <2>2 DEF Inv, StoresOK, TabOK, BoundsOK, FormOf, Forms, TypeOK
<1>2. QED
  BY <1>1, FormInvariant, PTL

(* Whatever is switched, delayed or lost, what was typed for one recruit is  *)
(* never shown, kept or saved for another (openTask, collectPayload,         *)
(* queueServerDraft and submitEvaluation of evaluator.js).                   *)
THEOREM ContentStaysOwn == Spec => []OwnContent
<1>1. Inv => OwnContent
  BY DEF Inv, StoresOK, TabOK, FormOf, OwnContent
<1>2. QED
  BY <1>1, FormInvariant, PTL

(* draftSaving is up exactly while a draft is in flight, and then there is   *)
(* one: queueServerDraft's finally block lowers it on every path.            *)
THEOREM DraftsGoOneByOne == Spec => []SingleFlight
<1>1. ASSUME Inv
      PROVE  SingleFlight
  <2>1. draftSaving \in BOOLEAN /\ OneDraft(calls, draftSaving)
    BY <1>1 DEF Inv, TabOK
  <2>2. CASE draftSaving
    <3>1. PICK i \in DOMAIN calls : OfKind("draft") = {i}
      BY <2>1, <2>2 DEF OneDraft, OfKind
    <3>2. Cardinality({i}) = 1
      BY FS_Singleton
    <3>3. QED
      BY <2>2, <3>1, <3>2 DEF SingleFlight
  <2>3. CASE ~draftSaving
    <3>1. OfKind("draft") = {}
      BY <2>1, <2>3 DEF OneDraft, OfKind
    <3>2. QED
      BY <2>3, <3>1, FS_EmptySet DEF SingleFlight
  <2>4. QED
    BY <2>2, <2>3
<1>2. QED
  BY <1>1, FormInvariant, PTL
=============================================================================
