-------------------------------- MODULE Roster --------------------------------
(***************************************************************************)
(* The evaluators of the workspace: its directory, their accounts, and the *)
(* roster of each Journee. An account belongs to a directory entry, a      *)
(* roster row names the entry it comes from (0: none) and keeps the name   *)
(* it was added under. Nothing in the schema ties the three together; the  *)
(* handlers below are what keeps an evaluator on every roster.             *)
(*                                                                         *)
(* A handler is one step, at its commit. The creation of a Journee is two: *)
(* it reads the directory, and commits its roster later.                   *)
(***************************************************************************)
EXTENDS Naturals, Sequences

CONSTANTS
    RosterJournees,    \* Journees that may be created
    EvaluatorNames,    \* names, already case-folded
    NoSource,          \* a Journee created, not duplicated
    MaxRosterWrites          \* bound: handlers that change something

ASSUME RosterAssumption == NoSource \notin RosterJournees /\ MaxRosterWrites \in Nat

VARIABLES
    entries,           \* evaluator_directory; "names" is history: every name it had
    members,           \* user_accounts: name and directory entry
    phase,             \* per Journee: "none", "creating", "created"
    roster,            \* evaluators, per Journee (uncommitted while "creating")
    excused,           \* history: entries a Journee may lack, removed from it or
                       \* registered while it was being created
    rosterWrites

rosterVars == <<entries, members, phase, roster, excused, rosterWrites>>

AbsentRow(e, n) == [entry |-> e, name |-> n, active |-> TRUE, present |-> FALSE]
Marked(row, active, present) ==
    [entry |-> row.entry, name |-> row.name, active |-> active, present |-> present]

CreatedJournees == {j \in RosterJournees : phase[j] = "created"}
EntryNamed(dir, n) == {e \in DOMAIN dir : dir[e].name = n}
ActiveEntries(dir) == {e \in DOMAIN dir : dir[e].active}
HasName(rows, n) == \E row \in rows : row.name = n
Unlisted(rows, e) == ~\E row \in rows : row.entry = e

InitRoster ==
    /\ entries = <<>>
    /\ members = {}
    /\ phase = [j \in RosterJournees |-> "none"]
    /\ roster = [j \in RosterJournees |-> {}]
    /\ excused = {}
    /\ rosterWrites = 0

(* Every active entry is looked for by link, then by name; a namesake with  *)
(* no link is linked, one linked to another entry stands in for this one.   *)
Linked(row, rows, dir) ==
    LET mine == {e \in ActiveEntries(dir) : dir[e].name = row.name /\ Unlisted(rows, e)}
    IN  IF row.entry = 0 /\ mine # {} THEN [row EXCEPT !.entry = CHOOSE e \in mine : TRUE] ELSE row

Populated(rows, dir) ==
    {Linked(row, rows, dir) : row \in rows} \cup
    {AbsentRow(e, dir[e].name) : e \in {f \in ActiveEntries(dir) :
                                    Unlisted(rows, f) /\ ~HasName(rows, dir[f].name)}}

(* Mutant: the entry of a deleted account is found and not made active.     *)
RegisteredMut(dir, n) ==
    IF EntryNamed(dir, n) # {} THEN dir
    ELSE Append(dir, [name |-> n, names |-> {n}, active |-> TRUE])

Registered(dir, n) ==
    IF EntryNamed(dir, n) # {}
    THEN [e \in DOMAIN dir |-> IF dir[e].name = n THEN [dir[e] EXCEPT !.active = TRUE] ELSE dir[e]]
    ELSE Append(dir, [name |-> n, names |-> {n}, active |-> TRUE])

EntryOf(dir, n) == CHOOSE e \in DOMAIN dir : dir[e].name = n

Write ==
    /\ rosterWrites < MaxRosterWrites
    /\ rosterWrites' = rosterWrites + 1

(* create_account_record and the directory half of add_evaluator: the entry *)
(* is added or made active again, and every Journee's roster populated. A   *)
(* Journee that is being created is not among them yet.                     *)
RegisterEverywhere(n) ==
    LET dir == Registered(entries, n)
    IN  /\ entries' = dir
        /\ members' = members \cup
               (IF \E m \in members : m.name = n THEN {} ELSE {[name |-> n, entry |-> EntryOf(dir, n)]})
        /\ roster' = [j \in RosterJournees |->
               IF j \in CreatedJournees THEN Populated(roster[j], dir) ELSE roster[j]]
        /\ excused' = {pair \in excused : pair[1] \notin CreatedJournees} \cup
               {<<j, EntryOf(dir, n)>> : j \in {k \in RosterJournees : phase[k] = "creating"}}

(* add_account; generate_missing_accounts does the same for each active     *)
(* entry that has no account.                                               *)
CreateAccount(n) ==
    /\ Write
    /\ ~\E m \in members : m.name = n
    /\ RegisterEverywhere(n)
    /\ UNCHANGED phase

(* add_evaluator, with "add to the directory".                              *)
AddEvaluator(j, n) ==
    /\ Write
    /\ j \in CreatedJournees /\ ~HasName(roster[j], n)
    /\ RegisterEverywhere(n)
    /\ UNCHANGED phase

(* add_evaluator without it: linked to the entry of that name, if any; a    *)
(* row that already has that link is made active.                           *)
AddToJournee(j, n) ==
    /\ Write
    /\ j \in CreatedJournees /\ ~HasName(roster[j], n)
    /\ LET known == EntryNamed(entries, n)
           same  == {row \in roster[j] : row.entry \in known}
       IN  roster' = [roster EXCEPT ![j] =
               IF same # {}
               THEN {Marked(row, row.active \/ row \in same, row.present) : row \in roster[j]}
               ELSE @ \cup {AbsentRow(IF known = {} THEN 0 ELSE EntryOf(entries, n), n)}]
    /\ UNCHANGED <<entries, members, phase, excused>>

(* One row of import_people: the entry is added to the directory, never     *)
(* made active again, and no other Journee is populated.                    *)
Import(j, n) ==
    /\ Write
    /\ j \in CreatedJournees /\ ~HasName(roster[j], n)
    /\ LET dir == IF EntryNamed(entries, n) # {} THEN entries ELSE Registered(entries, n)
       IN  /\ entries' = dir
           /\ roster' = [roster EXCEPT ![j] = @ \cup {AbsentRow(EntryOf(dir, n), n)}]
    /\ UNCHANGED <<members, phase, excused>>

(* reuse_directory_evaluator looks at the link alone.                       *)
Reuse(j, e) ==
    /\ Write
    /\ j \in CreatedJournees /\ e \in ActiveEntries(entries)
    /\ \A row \in roster[j] : row.entry = e => ~row.active
    /\ roster' = [roster EXCEPT ![j] =
           IF Unlisted(@, e) THEN @ \cup {AbsentRow(e, entries[e].name)}
           ELSE {Marked(row, row.active \/ row.entry = e, row.present) : row \in @}]
    /\ UNCHANGED <<entries, members, phase, excused>>

(* One item of save_evaluator_attendance.                                   *)
SaveAttendance(j, row, active, present) ==
    /\ Write
    /\ j \in CreatedJournees /\ row \in roster[j]
    /\ <<active, present>> # <<row.active, row.present>>
    /\ roster' = [roster EXCEPT ![j] = (@ \ {row}) \cup {Marked(row, active, present)}]
    /\ UNCHANGED <<entries, members, phase, excused>>

(* A row that assignments or room plans refer to is kept, inactive.         *)
RemoveEvaluator(j, row, referenced) ==
    /\ Write
    /\ j \in CreatedJournees /\ row \in roster[j]
    /\ roster' = [roster EXCEPT ![j] = (@ \ {row}) \cup
           (IF referenced THEN {Marked(row, FALSE, FALSE)} ELSE {})]
    /\ excused' = excused \cup (IF referenced THEN {} ELSE
           {<<j, e>> : e \in {f \in DOMAIN entries : f = row.entry \/ row.name \in entries[f].names}})
    /\ UNCHANGED <<entries, members, phase>>

(* update_account with a username: account and entry, not the roster rows.  *)
Rename(m, n) ==
    /\ Write
    /\ m \in members /\ m.name # n
    /\ ~\E other \in members : other.name = n
    /\ EntryNamed(entries, n) \subseteq {m.entry}
    /\ members' = (members \ {m}) \cup {[name |-> n, entry |-> m.entry]}
    /\ entries' = [entries EXCEPT ![m.entry] =
           [name |-> n, names |-> @.names \cup {n}, active |-> @.active]]
    /\ UNCHANGED <<phase, roster, excused>>

(* delete_account: refused while the evaluator is present in a Journee that *)
(* is active ("running": which are is ActiveJournee's). The entry becomes   *)
(* inactive, the roster rows stay.                                          *)
DeleteEvaluatorAccount(m, running) ==
    /\ Write
    /\ m \in members
    /\ ~\E j \in running : \E row \in roster[j] : row.entry = m.entry /\ row.active /\ row.present
    /\ members' = members \ {m}
    /\ entries' = [entries EXCEPT ![m.entry].active = FALSE]
    /\ UNCHANGED <<phase, roster, excused>>

(* add_journey, or duplicate_journey of a source: the directory's active    *)
(* entries, and the source's active rows that match none of them.           *)
BeginRoster(j, source) ==
    /\ Write
    /\ phase[j] = "none" /\ source \in CreatedJournees \cup {NoSource}
    /\ phase' = [phase EXCEPT ![j] = "creating"]
    /\ LET own    == Populated({}, entries)
           copied == IF source = NoSource THEN {} ELSE
                         {row \in roster[source] : row.active /\ ~HasName(own, row.name) /\
                             (row.entry = 0 \/ Unlisted(own, row.entry))}
       IN  roster' = [roster EXCEPT ![j] = own \cup {AbsentRow(row.entry, row.name) : row \in copied}]
    /\ UNCHANGED <<entries, members, excused>>

CommitRoster(j) ==
    /\ phase[j] = "creating"
    /\ phase' = [phase EXCEPT ![j] = "created"]
    /\ UNCHANGED <<entries, members, roster, excused, rosterWrites>>

NextRoster ==
    \/ \E n \in EvaluatorNames : CreateAccount(n)
    \/ \E j \in RosterJournees, n \in EvaluatorNames : AddEvaluator(j, n)
    \/ \E j \in RosterJournees, n \in EvaluatorNames : AddToJournee(j, n)
    \/ \E j \in RosterJournees, n \in EvaluatorNames : Import(j, n)
    \/ \E j \in RosterJournees, e \in DOMAIN entries : Reuse(j, e)
    \/ \E j \in RosterJournees : \E row \in roster[j], active \in BOOLEAN, present \in BOOLEAN :
           SaveAttendance(j, row, active, present)
    \/ \E j \in RosterJournees : \E row \in roster[j], referenced \in BOOLEAN :
           RemoveEvaluator(j, row, referenced)
    \/ \E m \in members, n \in EvaluatorNames : Rename(m, n)
    \/ \E m \in members, running \in SUBSET CreatedJournees : DeleteEvaluatorAccount(m, running)
    \/ \E j \in RosterJournees, source \in RosterJournees \cup {NoSource} : BeginRoster(j, source)
    \/ \E j \in RosterJournees : CommitRoster(j)

SpecRoster == InitRoster /\ [][NextRoster]_rosterVars

DirectoryEntries == [name : EvaluatorNames, names : SUBSET EvaluatorNames, active : BOOLEAN]
RosterRows == [entry : 0..MaxRosterWrites, name : EvaluatorNames, active : BOOLEAN, present : BOOLEAN]

TypeOKRoster ==
    /\ entries \in Seq(DirectoryEntries) /\ Len(entries) <= rosterWrites
    /\ members \subseteq [name : EvaluatorNames, entry : DOMAIN entries]
    /\ phase \in [RosterJournees -> {"none", "creating", "created"}]
    /\ roster \in [RosterJournees -> SUBSET RosterRows]
    /\ rosterWrites \in 0..MaxRosterWrites

(* routes_auth.py's comment: "every newly created account must immediately  *)
(* be available there as an absent assessor". Whatever the order of account *)
(* creations, deletions, renamings, imports, removals and new Journees, an  *)
(* account's evaluator is on every roster, unless it was removed from it,   *)
(* the two were created at the same time, or the roster has a row under a   *)
(* name the entry bore: populate_journey_evaluators_from_directory takes a  *)
(* namesake, whoever it is linked to, for the evaluator.                    *)
AccountsAreOnEveryRoster ==
    \A m \in members, j \in CreatedJournees :
        \/ <<j, m.entry>> \in excused
        \/ \E row \in roster[j] : row.entry = m.entry \/ row.name \in entries[m.entry].names
=============================================================================
