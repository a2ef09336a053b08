---------------------------- MODULE ProfileNotes ----------------------------
(***************************************************************************)
(* The general assessment of one recruit, as the results pages edit it     *)
(* (assessmentAutosave of static/assessment-autosave.js, mounted by        *)
(* renderProfile of static/viewer.js) and as the server keeps it           *)
(* (save_general_assessment of routes_admin.py, reached by both profile    *)
(* routes).  A page saves by itself: 700 ms after the last key, when a     *)
(* field loses the focus, when the browser comes back online.  One write   *)
(* is under way at a time; a 409 stops the page until its user chooses to  *)
(* reload or to overwrite.                                                 *)
(*                                                                         *)
(* The factors, the comment and the notes travel together, so they are one *)
(* value here.  The handler reads the row, compares the versions and       *)
(* commits without a lock: Check and Commit are two steps.                 *)
(***************************************************************************)
EXTENDS Naturals, FiniteSets

CONSTANTS
    Pages,        \* the open profile pages
    Closed,       \* stands for a page that is gone
    Notes,        \* what can be typed
    EmptyNote,    \* the profile before anyone typed
    MaxNotes,     \* bound on typing, on all pages together
    MaxDropped    \* bound on requests and answers lost

ASSUME NotesAssumption ==
    /\ EmptyNote \notin Notes
    /\ Closed \notin Pages
    /\ MaxNotes \in Nat
    /\ MaxDropped \in Nat

VARIABLES
    profile,    \* the row: version (0 before the first save), note, and seen:
                \* the notes whose authors' work the row's author had before him
    sheet,      \* each page: note shown, acknowledged note, version, timer,
                \* conflict, status, and the version an overwrite fetched
    writes,     \* the requests under way
    highest,    \* history: the highest version ever given
    raced,      \* history: notes saved under a version given before, and those
                \* that such a save replaced
    keyed,      \* how often somebody typed
    dropped     \* requests and answers lost so far

notesVars == <<profile, sheet, writes, highest, raced, keyed, dropped>>

Contents == Notes \cup {EmptyNote}
NotFetched == 0

Sheets == [note : Contents, acknowledged : Contents, version : Nat,
           timer : BOOLEAN, conflict : BOOLEAN,
           status : {"saved", "saving", "conflict", "error"}, latest : Nat]

Writes == [from : Pages \cup {Closed}, note : Contents, base : Nat,
           basis : Contents, forced : BOOLEAN, read : BOOLEAN, at : Nat]

\* The page as it is rendered from the profile just read.
Rendered == [note |-> profile.note, acknowledged |-> profile.note,
             version |-> profile.version, timer |-> FALSE, conflict |-> FALSE,
             status |-> "saved", latest |-> NotFetched]

InitNotes ==
    /\ profile = [version |-> 0, note |-> EmptyNote, seen |-> {EmptyNote}]
    /\ sheet = [page \in Pages |-> Rendered]
    /\ writes = {}
    /\ highest = 0
    /\ raced = {}
    /\ keyed = 0
    /\ dropped = 0

Unsaved(page) == sheet[page].note # sheet[page].acknowledged
InFlight(page) == {write \in writes : write.from = page}

-----------------------------------------------------------------------------
(* The page.                                                               *)

\* The input event: schedule().
Typed(page, note, clean) ==
    [page EXCEPT !.note = note, !.timer = ~clean,
                 !.status = IF clean THEN "saved"
                            ELSE IF page.conflict THEN "conflict" ELSE "saving"]

Typing(page, note) ==
    /\ keyed < MaxNotes
    /\ keyed' = keyed + 1
    /\ LET clean == note = sheet[page].acknowledged /\ InFlight(page) = {}
       IN  sheet' = [sheet EXCEPT ![page] = Typed(sheet[page], note, clean)]
    /\ UNCHANGED <<profile, writes, highest, raced, dropped>>

Request(page, base, forced) ==
    [from |-> page, note |-> sheet[page].note, base |-> base,
     basis |-> sheet[page].acknowledged, forced |-> forced,
     read |-> FALSE, at |-> 0]

\* save(): the timer, a focusout, the online event and Enter all come here.
\* With a write under way the caller waits for it and finds nothing left to do,
\* because the answer itself starts the next write when there is one.
Held(page) == [page EXCEPT !.timer = FALSE]

Sending(page) ==
    [page EXCEPT !.timer = FALSE,
                 !.status = IF page.note # page.acknowledged THEN "saving" ELSE "saved"]

SavePage(page) ==
    /\ ~sheet[page].conflict \/ sheet[page].timer
    /\ IF sheet[page].conflict \/ InFlight(page) # {}
       THEN /\ sheet' = [sheet EXCEPT ![page] = Held(sheet[page])]
            /\ UNCHANGED writes
       ELSE /\ sheet' = [sheet EXCEPT ![page] = Sending(sheet[page])]
            /\ writes' = writes \cup
                 (IF Unsaved(page) THEN {Request(page, sheet[page].version, FALSE)} ELSE {})
    /\ UNCHANGED <<profile, highest, raced, keyed, dropped>>

\* The Overwrite button, shown in a conflict: read the version, then save(version).
\* It is pressed again only when the first answer is there.
Fetched(page) == [page EXCEPT !.latest = profile.version]

FetchLatest(page) ==
    /\ sheet[page].conflict
    /\ sheet[page].latest = NotFetched
    /\ InFlight(page) = {}
    /\ sheet' = [sheet EXCEPT ![page] = Fetched(sheet[page])]
    /\ UNCHANGED <<profile, writes, highest, raced, keyed, dropped>>

Overwriting(page) == [page EXCEPT !.latest = NotFetched, !.timer = FALSE, !.status = "saving"]

Overwrite(page) ==
    /\ sheet[page].latest # NotFetched
    /\ writes' = writes \cup {Request(page, sheet[page].latest, TRUE)}
    /\ sheet' = [sheet EXCEPT ![page] = Overwriting(sheet[page])]
    /\ UNCHANGED <<profile, highest, raced, keyed, dropped>>

Orphaned(write, page) == [write EXCEPT !.from = IF write.from = page THEN Closed ELSE write.from]

\* The Reload button: the page is disposed of and rendered again; the answer to
\* a write still under way reaches nobody.
ReloadPage(page) ==
    /\ sheet[page].latest = NotFetched
    /\ sheet[page] # Rendered
    /\ sheet' = [sheet EXCEPT ![page] = Rendered]
    /\ writes' = {Orphaned(write, page) : write \in writes}
    /\ UNCHANGED <<profile, highest, raced, keyed, dropped>>

\* Mutant: what the form shows when the answer comes counts as saved.
AcknowledgedMut(page, write, version) ==
    [page EXCEPT !.version = version, !.acknowledged = page.note, !.conflict = FALSE,
                 !.timer = FALSE, !.status = "saved"]

\* A success: only what was sent is acknowledged, what was typed since goes next.
Acknowledged(page, write, version) ==
    [page EXCEPT !.version = version, !.acknowledged = write.note, !.conflict = FALSE,
                 !.timer = page.timer /\ page.note = write.note,
                 !.status = IF page.note = write.note THEN "saved" ELSE "saving"]

\* What is typed during a write goes out in the next one, without the timer.
Followed(write, version) ==
    LET page == write.from
        new == Acknowledged(sheet[page], write, version)
    IN  IF new.note = new.acknowledged THEN {}
        ELSE {[from |-> page, note |-> new.note, base |-> version,
               basis |-> new.acknowledged, forced |-> FALSE,
               read |-> FALSE, at |-> 0]}

Failed(page, refused) ==
    LET conflict == page.conflict \/ refused
    IN  [page EXCEPT !.conflict = conflict,
                     !.status = IF conflict THEN "conflict" ELSE "error"]

\* The catch clause of a write, in the page that made it if that is still open.
Answered(write, refused) ==
    sheet' = IF write.from = Closed THEN sheet
             ELSE [sheet EXCEPT ![write.from] = Failed(sheet[write.from], refused)]

-----------------------------------------------------------------------------
(* The server.                                                             *)

UpToDate(write) == profile.version = 0 \/ write.base = profile.version

Read(write) == [write EXCEPT !.read = TRUE, !.at = profile.version]

\* The handler reads the row and compares the versions; a refusal is a 409.
Check(write) ==
    /\ ~write.read
    /\ IF UpToDate(write)
       THEN /\ writes' = (writes \ {write}) \cup {Read(write)}
            /\ UNCHANGED sheet
       ELSE /\ writes' = writes \ {write}
            /\ Answered(write, TRUE)
    /\ UNCHANGED <<profile, highest, raced, keyed, dropped>>

\* Two first saves both insert: the second breaks the primary key, a 500.
Collides(write) == write.at = 0 /\ profile.version # 0

Refuse(write) ==
    /\ write.read
    /\ Collides(write)
    /\ writes' = writes \ {write}
    /\ Answered(write, FALSE)
    /\ UNCHANGED <<profile, highest, raced, keyed, dropped>>

\* The row is written as it was read plus one, which turns the version back if
\* others saved since; it may then be given a second time.  Whose work it contains: its
\* author's, and all of the row's when that is the row the author looked at or
\* the row he was told of and chose to overwrite.
Stored(write) ==
    /\ write.read
    /\ ~Collides(write)
    /\ profile' = [version |-> write.at + 1, note |-> write.note,
                   seen |-> {write.note} \cup
                            (IF write.forced \/ write.basis = profile.note
                             THEN profile.seen ELSE {})]
    /\ highest' = IF write.at < highest THEN highest ELSE write.at + 1
    /\ raced' = IF write.at = profile.version /\ write.at = highest THEN raced
                ELSE raced \cup profile.seen \cup {write.note}
    /\ UNCHANGED keyed

Accept(write) ==
    /\ Stored(write)
    /\ IF write.from = Closed
       THEN /\ writes' = writes \ {write}
            /\ UNCHANGED sheet
       ELSE /\ writes' = (writes \ {write}) \cup Followed(write, write.at + 1)
            /\ sheet' = [sheet EXCEPT ![write.from] = Acknowledged(sheet[write.from], write, write.at + 1)]
    /\ UNCHANGED dropped

\* The answer to a save that was made is lost: the page takes it for an error.
SaveUnheard(write) ==
    /\ dropped < MaxDropped
    /\ write.from # Closed
    /\ Stored(write)
    /\ writes' = writes \ {write}
    /\ Answered(write, FALSE)
    /\ dropped' = dropped + 1

\* A request that never arrives.
DropWrite(write) ==
    /\ dropped < MaxDropped
    /\ ~write.read
    /\ writes' = writes \ {write}
    /\ Answered(write, FALSE)
    /\ dropped' = dropped + 1
    /\ UNCHANGED <<profile, highest, raced, keyed>>

NextNotes ==
    \/ \E page \in Pages :
         \/ \E note \in Contents : Typing(page, note)
         \/ SavePage(page)
         \/ FetchLatest(page)
         \/ Overwrite(page)
         \/ ReloadPage(page)
    \/ \E write \in writes :
         \/ Check(write)
         \/ Refuse(write)
         \/ Accept(write)
         \/ SaveUnheard(write)
         \/ DropWrite(write)

SpecNotes == InitNotes /\ [][NextNotes]_notesVars

-----------------------------------------------------------------------------
TypeOKNotes ==
    /\ profile \in [version : Nat, note : Contents, seen : SUBSET Contents]
    /\ sheet \in [Pages -> Sheets]
    /\ writes \subseteq Writes
    /\ highest \in Nat
    /\ raced \subseteq Contents
    /\ keyed \in 0 .. MaxNotes
    /\ dropped \in 0 .. MaxDropped

\* "Only an acknowledged payload is considered saved", and it stays in the row
\* until somebody who looked at it, or was told and chose to overwrite, wrote
\* the next one: a page that says Saved shows a note the row's history contains.
\* The one exception are saves under a version that was given before: those of
\* transactions that overlapped on the server, and those made after one of them
\* turned the version back, until it is higher than ever.
SavedNotesAreKept ==
    \A page \in Pages :
        sheet[page].status = "saved" =>
            /\ ~Unsaved(page)
            /\ sheet[page].note \in profile.seen \cup raced
=============================================================================
