------------------------------ MODULE Attendance ------------------------------
(***************************************************************************)
(* One recruit's attendance row, the self-service pages that save each     *)
(* field as it is typed, and the forms that write the whole row.           *)
(*                                                                         *)
(* A patch names the version it is based on and is applied by one          *)
(* compare-and-swap UPDATE. A batch save, a photo and a removal read the   *)
(* row, then write what they changed and the version read plus one: what   *)
(* commits in between is not noticed.                                      *)
(***************************************************************************)
EXTENDS Naturals

CONSTANTS
    Devices,           \* attendance pages that edit this recruit
    MaxTyped,          \* bound: changes typed on the devices
    MaxForms,          \* bound: batch saves, photos and removals
    MaxLost            \* bound: requests or answers lost

ASSUME AttendanceAssumption == MaxTyped \in Nat /\ MaxForms \in Nat /\ MaxLost \in Nat

VARIABLES
    recruit,           \* the row of recruits
    draft,             \* per device: the row as the page shows it
    queue,             \* per device: the recruit's entry of state.saves
    request,           \* per device: the entry's patch, or its reload of the roster
    poll,              \* per device: the background poll
    form,              \* the open transaction of a handler that writes the whole row
    unaccepted,        \* history: per device, last typed values no patch has carried
    typed, forms, lost \* counters for the bounds

attendanceVars == <<recruit, draft, queue, request, poll, form, unaccepted, typed, forms, lost>>

Nothing == [f \in {} |-> 0]
NoForm == [kind |-> "none"]
MaxRetries == 3

(* Times and texts are numbered as they are typed; 0 is no arrival time and *)
(* the text there was.                                                      *)
NewRecruit == [present |-> FALSE, arrival |-> 0, note |-> 0, photo |-> FALSE,
               listed |-> "active", version |-> 1]

NewQueue == [entry |-> FALSE, changes |-> Nothing, timer |-> FALSE, retries |-> 0]
NoRequest == [kind |-> "none", sent |-> Nothing, base |-> 0, answer |-> "none", saved |-> 0,
              current |-> TRUE]
NoPoll == [answered |-> FALSE, row |-> NewRecruit]

(* The pages have loaded the recruit, who may have been removed before, or  *)
(* has a photo.                                                             *)
Opened(listed) ==
    /\ recruit = [present |-> FALSE, arrival |-> 0, note |-> 0, photo |-> (listed = "active"),
                  listed |-> listed, version |-> 1]
    /\ draft = [d \in Devices |-> recruit]
    /\ queue = [d \in Devices |-> NewQueue]
    /\ request = [d \in Devices |-> NoRequest]
    /\ poll = [d \in Devices |-> NoPoll]
    /\ form = NoForm
    /\ unaccepted = [d \in Devices |-> Nothing]
    /\ typed = 0 /\ forms = 0 /\ lost = 0

InitAttendance == \E listed \in {"active", "inactive"} : Opened(listed)

-----------------------------------------------------------------------------
(* update_recruit_attendance_fields *)

Field(changes, f, old) == IF f \in DOMAIN changes THEN changes[f] ELSE old

(* { ...older, ...newer }, and Object.assign(older, newer).                 *)
Spread(older, newer) ==
    [f \in DOMAIN older \cup DOMAIN newer |-> IF f \in DOMAIN newer THEN newer[f] ELSE older[f]]

(* The row that a handler leaves: every one counts the version.             *)
Rewritten(present, arrival, note, photo, listed) ==
    [present |-> present, arrival |-> arrival, note |-> note, photo |-> photo, listed |-> listed,
     version |-> recruit.version + 1]

(* A present recruit's arrival time is not taken away (422).                *)
Invalid(changes) ==
    Field(changes, "present", recruit.present) /\ Field(changes, "arrival", 1) = 0

Patched(changes) ==
    LET present == Field(changes, "present", recruit.present) IN
    Rewritten(present, IF present THEN Field(changes, "arrival", recruit.arrival) ELSE 0,
              Field(changes, "note", recruit.note), recruit.photo, recruit.listed)

Answer(sent, base) ==
    CASE recruit.listed # "active" -> "missing"
      [] recruit.listed = "active" /\ Invalid(sent) -> "invalid"
      [] recruit.listed = "active" /\ ~Invalid(sent) /\ recruit.version # base -> "conflict"
      [] OTHER -> "saved"

(* What is still unaccepted after a patch is saved.                         *)
Without(values, sent) ==
    [f \in {g \in DOMAIN values : ~(g \in DOMAIN sent /\ sent[g] = values[g])} |-> values[f]]

(* The server handles the patch of a device: 404, 422, 409, or applied.     *)
ServePatch(d) ==
    LET r == request[d]
        answer == Answer(r.sent, r.base)
    IN
    /\ r.kind = "patch" /\ r.answer = "none"
    /\ recruit' = IF answer = "saved" THEN Patched(r.sent) ELSE recruit
    /\ request' = [request EXCEPT ![d] =
           [kind |-> "patch", sent |-> r.sent, base |-> r.base, answer |-> answer,
            saved |-> recruit'.version, current |-> r.current]]
    /\ unaccepted' = IF answer = "saved"
                     THEN [unaccepted EXCEPT ![d] = Without(@, r.sent)] ELSE unaccepted
    /\ UNCHANGED <<draft, queue, poll, form, typed, forms, lost>>

-----------------------------------------------------------------------------
(* The page's queue: queueRecruitSave and runRecruitSave.                   *)

Apply(item, changes) ==
    [present |-> Field(changes, "present", item.present),
     arrival |-> Field(changes, "arrival", item.arrival),
     note |-> Field(changes, "note", item.note),
     photo |-> item.photo, listed |-> item.listed, version |-> item.version]

Type(d, changes) ==
    /\ typed < MaxTyped
    /\ draft[d].listed = "active"
    /\ typed' = typed + 1
    /\ draft' = [draft EXCEPT ![d] = Apply(@, changes)]
    /\ queue' = [queue EXCEPT ![d] =
           [entry |-> TRUE, changes |-> Spread(queue[d].changes, changes), timer |-> TRUE, retries |-> 0]]
    /\ unaccepted' = [unaccepted EXCEPT ![d] = Spread(@, changes)]
    /\ UNCHANGED <<recruit, request, poll, form, forms, lost>>

(* Ticking a recruit present fills in the time; unticking clears it.        *)
TogglePresent(d) ==
    LET present == ~draft[d].present IN
    Type(d, [present |-> present, arrival |-> IF present THEN typed + 1 ELSE 0])

SetArrival(d, time) ==
    draft[d].present /\ Type(d, [arrival |-> time])

TypeNote(d) == Type(d, [note |-> typed + 1])

(* The timer sends what is queued, unless a request is already in flight.   *)
FireTimer(d) ==
    LET q == queue[d]
        sends == q.entry /\ draft[d].listed = "active" /\ request[d].kind = "none"
                 /\ q.changes # Nothing
    IN
    /\ q.timer
    /\ queue' = [queue EXCEPT ![d] =
           [entry |-> q.entry, changes |-> IF sends THEN Nothing ELSE q.changes,
            timer |-> FALSE, retries |-> q.retries]]
    /\ request' = IF sends
                  THEN [request EXCEPT ![d] =
                          [kind |-> "patch", sent |-> q.changes, base |-> draft[d].version,
                           answer |-> "none", saved |-> 0, current |-> TRUE]]
                  ELSE request
    /\ UNCHANGED <<recruit, draft, poll, form, unaccepted, typed, forms, lost>>

(* Mutant: the changes of a refused request are dropped.                    *)
RequeuedMut(d) == queue[d].changes

(* catch: entry.changes = { ...sent, ...entry.changes }.                    *)
Requeued(d) == Spread(request[d].sent, queue[d].changes)

(* Mutant: a save that ends does not look for what was typed meanwhile.     *)
FinishedMut(d, changes, retries) ==
    /\ queue' = [queue EXCEPT ![d] =
           [entry |-> changes # Nothing, changes |-> changes, timer |-> queue[d].timer,
            retries |-> retries]]
    /\ request' = [request EXCEPT ![d] = NoRequest]

(* finally: send again, close the entry, or leave it for attention.         *)
Finished(d, changes, retries) ==
    /\ queue' = [queue EXCEPT ![d] =
           [entry |-> changes # Nothing, changes |-> changes,
            timer |-> queue[d].timer \/ (changes # Nothing /\ retries < MaxRetries),
            retries |-> retries]]
    /\ request' = [request EXCEPT ![d] = NoRequest]

(* The item the request was sent from, if a poll has not replaced it.       *)
Recorded(d, row) == draft' = IF request[d].current THEN [draft EXCEPT ![d] = row] ELSE draft

HandleSaved(d) ==
    /\ request[d].answer = "saved"
    /\ Recorded(d, [present |-> draft[d].present, arrival |-> draft[d].arrival,
                    note |-> draft[d].note, photo |-> draft[d].photo,
                    listed |-> draft[d].listed, version |-> request[d].saved])
    /\ Finished(d, queue[d].changes, 0)
    /\ UNCHANGED <<recruit, poll, form, unaccepted, typed, forms, lost>>

(* A conflict is retried on top of the latest row, three times.             *)
HandleConflict(d) ==
    /\ request[d].answer = "conflict"
    /\ queue[d].retries < MaxRetries
    /\ queue' = [queue EXCEPT ![d] =
           [entry |-> queue[d].entry, changes |-> Requeued(d), timer |-> queue[d].timer,
            retries |-> queue[d].retries + 1]]
    /\ request' = [request EXCEPT ![d] =
           [kind |-> "reload", sent |-> Nothing, base |-> 0, answer |-> "none", saved |-> 0,
            current |-> request[d].current]]
    /\ UNCHANGED <<recruit, draft, poll, form, unaccepted, typed, forms, lost>>

HandleFailure(d) ==
    /\ \/ request[d].answer \in {"missing", "invalid", "lost"}
       \/ request[d].answer = "conflict" /\ queue[d].retries >= MaxRetries
    /\ Finished(d, Requeued(d), queue[d].retries + 1)
    /\ UNCHANGED <<recruit, draft, poll, form, unaccepted, typed, forms, lost>>

(* The roster arrives: take the row over and apply what is pending to it.   *)
Reload(d) ==
    /\ request[d].kind = "reload"
    /\ IF recruit.listed = "active"
       THEN /\ Recorded(d, Apply(recruit, queue[d].changes))
            /\ Finished(d, queue[d].changes, queue[d].retries)
       ELSE /\ Finished(d, queue[d].changes, MaxRetries)
            /\ UNCHANGED draft
    /\ UNCHANGED <<recruit, poll, form, unaccepted, typed, forms, lost>>

(* A request that never arrives, an answer that gets lost, a failed reload. *)
Lose(d) ==
    LET r == request[d] IN
    /\ lost < MaxLost
    /\ \/ /\ r.kind = "patch" /\ r.answer \in {"none", "saved"}
          /\ request' = [request EXCEPT ![d] =
                 [kind |-> "patch", sent |-> r.sent, base |-> r.base, answer |-> "lost",
                  saved |-> r.saved, current |-> r.current]]
          /\ UNCHANGED queue
       \/ r.kind = "reload" /\ Finished(d, queue[d].changes, MaxRetries)
    /\ lost' = lost + 1
    /\ UNCHANGED <<recruit, draft, poll, form, unaccepted, typed, forms>>

(* The poll of five seconds starts only when nothing is queued; what it     *)
(* brings replaces the draft whatever has been typed since. A request in    *)
(* flight keeps the item it was sent from.                                  *)
StartPoll(d) ==
    /\ ~poll[d].answered /\ ~queue[d].entry
    /\ recruit # draft[d]
    /\ poll' = [poll EXCEPT ![d] = [answered |-> TRUE, row |-> recruit]]
    /\ UNCHANGED <<recruit, draft, queue, request, form, unaccepted, typed, forms, lost>>

EndPoll(d) ==
    LET r == request[d] IN
    /\ poll[d].answered
    /\ poll' = [poll EXCEPT ![d] = NoPoll]
    /\ draft' = [draft EXCEPT ![d] = poll[d].row]
    /\ request' = IF r.kind = "none" THEN request
                  ELSE [request EXCEPT ![d] =
                          [kind |-> r.kind, sent |-> r.sent, base |-> r.base, answer |-> r.answer,
                           saved |-> r.saved, current |-> FALSE]]
    /\ UNCHANGED <<recruit, queue, form, unaccepted, typed, forms, lost>>

-----------------------------------------------------------------------------
(* The handlers that read the row first and write it at their commit.       *)

Begin(kind, written) ==
    /\ form = NoForm /\ forms < MaxForms
    /\ recruit.listed # "deleted"
    /\ forms' = forms + 1
    /\ form' = [kind |-> kind, read |-> recruit, written |-> written]
    /\ UNCHANGED <<recruit, draft, queue, request, poll, unaccepted, typed, lost>>

(* save_recruit_attendance, of the admin and of the attendance workspace.   *)
BeginBatch(present, arrival, note, listed) ==
    Begin("batch", Rewritten(present, IF present THEN arrival ELSE 0, note, recruit.photo, listed))

(* write_recruit_photo and clear_recruit_photo.                             *)
Photographed(photo) ==
    Rewritten(recruit.present, recruit.arrival, recruit.note, photo, recruit.listed)

(* upload_recruit_photo of the admin; the attendance workspace asks for an  *)
(* active recruit, and so does bulk_recruit_photos, for the one active      *)
(* recruit whose name is the file's.                                        *)
BeginUpload == Begin("photo", Photographed(TRUE))

BeginUploadFromAttendance == recruit.listed = "active" /\ BeginUpload

BeginBulkUpload(namesakes) ==
    recruit.listed = "active" /\ namesakes = 0 /\ Begin("photo", Photographed(TRUE))

BeginPhotoRemoval ==
    recruit.listed = "active" /\ recruit.photo /\ Begin("photo", Photographed(FALSE))

(* remove_recruit of the admin: a recruit with assignments, a room or a     *)
(* general assessment is only deactivated.                                  *)
Removed(referenced, arrival) ==
    Rewritten(FALSE, arrival, recruit.note, recruit.photo,
              IF referenced THEN "inactive" ELSE "deleted")

BeginRemove(referenced) == Begin("remove", Removed(referenced, recruit.arrival))

(* The attendance workspace also clears the arrival.                        *)
BeginRemoveFromAttendance(referenced) ==
    Begin("remove", Removed(referenced, 0))

(* create_recruit_from_directory lists a removed recruit again.             *)
BeginRestore ==
    /\ recruit.listed = "inactive"
    /\ Begin("restore", Rewritten(FALSE, 0, recruit.note, recruit.photo, "active"))

(* The UPDATE names the primary key only and writes the columns that        *)
(* changed since the read; a row deleted meanwhile fails the request.       *)
Column(read, written, row) == IF written = read THEN row ELSE written

CommitForm ==
    LET r == form.read  w == form.written IN
    /\ form # NoForm
    /\ recruit' = IF recruit.listed = "deleted" THEN recruit
                  ELSE [present |-> Column(r.present, w.present, recruit.present),
                        arrival |-> Column(r.arrival, w.arrival, recruit.arrival),
                        note |-> Column(r.note, w.note, recruit.note),
                        photo |-> Column(r.photo, w.photo, recruit.photo),
                        listed |-> Column(r.listed, w.listed, recruit.listed),
                        version |-> Column(r.version, w.version, recruit.version)]
    /\ form' = NoForm
    /\ UNCHANGED <<draft, queue, request, poll, unaccepted, typed, forms, lost>>

-----------------------------------------------------------------------------
NextAttendance ==
    \/ \E d \in Devices : TogglePresent(d)
    \/ \E d \in Devices : \E time \in {0, typed + 1} : SetArrival(d, time)
    \/ \E d \in Devices : TypeNote(d)
    \/ \E d \in Devices : FireTimer(d)
    \/ \E d \in Devices : ServePatch(d)
    \/ \E d \in Devices : HandleSaved(d)
    \/ \E d \in Devices : HandleConflict(d)
    \/ \E d \in Devices : HandleFailure(d)
    \/ \E d \in Devices : Reload(d)
    \/ \E d \in Devices : Lose(d)
    \/ \E d \in Devices : StartPoll(d)
    \/ \E d \in Devices : EndPoll(d)
    \/ \E present \in BOOLEAN, listed \in {"active", "inactive"} :
          BeginBatch(present, recruit.arrival, recruit.note, listed)
    \/ BeginUpload
    \/ BeginUploadFromAttendance
    \/ \E namesakes \in 0..1 : BeginBulkUpload(namesakes)
    \/ BeginPhotoRemoval
    \/ \E referenced \in BOOLEAN : BeginRemove(referenced)
    \/ \E referenced \in BOOLEAN : BeginRemoveFromAttendance(referenced)
    \/ BeginRestore
    \/ CommitForm

(* Timers fire, the server handles what arrives, answers are handled.       *)
Serviced(d) ==
    \/ FireTimer(d) \/ ServePatch(d)
    \/ HandleSaved(d) \/ HandleConflict(d) \/ HandleFailure(d) \/ Reload(d)

FairAttendance == \A d \in Devices : WF_attendanceVars(Serviced(d))

SpecAttendance == InitAttendance /\ [][NextAttendance]_attendanceVars /\ FairAttendance

-----------------------------------------------------------------------------
Rows == [present : BOOLEAN, arrival : Nat, note : Nat, photo : BOOLEAN,
         listed : {"active", "inactive", "deleted"}, version : Nat \ {0}]

(* Changes typed into fields of the row.                                    *)
Wellformed(changes) ==
    /\ DOMAIN changes \subseteq {"present", "arrival", "note"}
    /\ \A f \in DOMAIN changes : IF f = "present" THEN changes[f] \in BOOLEAN ELSE changes[f] \in Nat

TypeOKAttendance ==
    /\ recruit \in Rows
    /\ draft \in [Devices -> Rows]
    /\ poll \in [Devices -> [answered : BOOLEAN, row : Rows]]
    /\ \A d \in Devices :
          /\ queue[d].entry \in BOOLEAN /\ queue[d].timer \in BOOLEAN
          /\ queue[d].retries \in 0..(MaxRetries + 1)
          /\ Wellformed(queue[d].changes)
          /\ request[d].kind \in {"none", "patch", "reload"}
          /\ request[d].answer \in {"none", "saved", "conflict", "missing", "invalid", "lost"}
          /\ Wellformed(request[d].sent)
          /\ request[d].base \in Nat /\ request[d].current \in BOOLEAN
    /\ form = NoForm \/ (form.read \in Rows /\ form.written \in Rows)
    /\ typed \in 0..MaxTyped /\ forms \in 0..MaxForms /\ lost \in 0..MaxLost

(* "All changes saved": a page whose queue is empty has had the last value  *)
(* typed into every field accepted by the server, although conflicts,       *)
(* failures and polls rebuild the draft while the evaluator types.          *)
SavedWasAccepted ==
    \A d \in Devices : ~queue[d].entry => unaccepted[d] = Nothing

(* A typed change is saved or reported ("Needs attention"): it is never     *)
(* left in the queue with neither a timer nor a request to send it, unless  *)
(* the recruit left the page.                                               *)
AttendanceSettles ==
    \A d \in Devices :
        queue[d].entry ~> \/ ~queue[d].entry
                          \/ queue[d].retries >= MaxRetries
                          \/ draft[d].listed # "active"
=============================================================================
