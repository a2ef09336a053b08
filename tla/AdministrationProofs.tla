------------------------- MODULE AdministrationProofs -------------------------
(***************************************************************************)
(* Proofs about the administration: the publications of a workspace, the   *)
(* room plans, the active Journee and the guard, and, with the proofs of   *)
(* RecordsProofs and AlgorithmProofs, the administration as a whole.       *)
(***************************************************************************)
EXTENDS MCAdministration, RecordsProofs, AlgorithmProofs, TLAPS

(***************************************************************************)
(* Workspaces and their publications.                                      *)
(***************************************************************************)

Structures == {Structure[d] : d \in Definitions}

SavedEntries == [system : Systems, structure : Structures, role : Roles, raced : BOOLEAN]

OpenRequests ==
    [kind : {"draft", "publish", "journee"}, system : Systems, definition : Definitions, name : Names,
     at : Nat, after : Nat, role : Roles, known : SUBSET SavedJournees]

WorkspacesTyped ==
    /\ Here \subseteq Systems
    /\ workspace \in [Here -> [name : Names, draft : Definitions, version : Nat, published : Nat]]
    /\ published \in [Here -> Seq(Definitions)]
    /\ assessor \in [Here -> Roles]
    /\ DOMAIN saved \subseteq SavedJournees
    /\ saved \in [DOMAIN saved -> SavedEntries]
    /\ requests \subseteq OpenRequests

(* Versions are numbered from 1, and the last one is the published one.      *)
PublicationsNumbered ==
    /\ \A w \in Here : /\ workspace[w].published = Len(published[w])
                      /\ Len(published[w]) \in Nat \ {0}
    /\ \A j \in DOMAIN saved : saved[j].system \in Here

(* A request knows a version there was, and Journees there are.              *)
DraftsBased ==
    \A r \in requests :
        /\ r.system \in Here
        /\ r.after \in 1..Len(published[r.system])
        /\ r.known \subseteq DOMAIN saved
        /\ r.kind = "journee" => r.definition = published[r.system][r.after]

(* As long as its number is free, what a publication was checked against is  *)
(* still published.                                                          *)
RequestsChecked ==
    \A r \in requests : \A j \in r.known :
        /\ r.kind = "publish" /\ r.after = Len(published[r.system])
        /\ saved[j].system = r.system /\ ~saved[j].raced
        => Structure[r.definition] = Structure[Published(r.system)]

WorkspacesInv ==
    /\ WorkspacesTyped
    /\ PublicationsNumbered
    /\ DraftsBased
    /\ RequestsChecked
    /\ SavedResultsFit

-----------------------------------------------------------------------------
LEMMA Extension ==
    ASSUME NEW f, NEW x, NEW value
    PROVE  /\ DOMAIN With(f, x, value) = DOMAIN f \cup {x}
           /\ With(f, x, value)[x] = value
           /\ \A y \in DOMAIN f : y # x => With(f, x, value)[y] = f[y]
           /\ \A S : f \in [DOMAIN f -> S] /\ value \in S =>
                      With(f, x, value) \in [DOMAIN f \cup {x} -> S]
  BY DEF With

LEMMA Reduction ==
    ASSUME NEW f, NEW x
    PROVE  /\ DOMAIN Without(f, x) = DOMAIN f \ {x}
           /\ \A y \in DOMAIN f : y # x => Without(f, x)[y] = f[y]
           /\ \A S : f \in [DOMAIN f -> S] => Without(f, x) \in [DOMAIN f \ {x} -> S]
  BY DEF Without

LEMMA RolesAreRoles ==
    /\ \A d \in Definitions : FallbackOf[d] \in Roles /\ CategoriesOf[d] \subseteq Roles
    /\ \A d \in Definitions, role \in Roles : Configured(role, d) \in Roles
  BY WorkspacesAssumption DEF Roles, Configured

(* A request that is forgotten knows fewer Journees, and is the same else.   *)
LEMMA ForgottenRequests ==
    ASSUME requests \subseteq OpenRequests, NEW S, NEW r \in Forgotten(S)
    PROVE  \E q \in requests :
              /\ r \in OpenRequests /\ r.kind = q.kind /\ r.system = q.system
              /\ r.definition = q.definition /\ r.after = q.after /\ r.known = q.known \ S
<1>1. PICK q \in requests : r = [q EXCEPT !.known = @ \ S]
  BY DEF Forgotten
<1>2. q \in OpenRequests
  BY <1>1
<1>3. QED
  BY <1>1, <1>2 DEF OpenRequests

LEMMA ForgottenRemember ==
    ASSUME requests \subseteq OpenRequests, NEW S, NEW r \in Forgotten(S)
    PROVE  \E q \in requests : r.at = q.at /\ r.kind = q.kind
<1>1. PICK q \in requests : r = [q EXCEPT !.known = @ \ S]
  BY DEF Forgotten
<1>2. q \in OpenRequests
  BY <1>1
<1>3. QED
  BY <1>1, <1>2 DEF OpenRequests

LEMMA InitWorkspacesInv == InitWorkspaces => WorkspacesInv
<1> SUFFICES ASSUME InitWorkspaces
             PROVE  WorkspacesInv
  OBVIOUS
<1>1. workspace = <<>> /\ published = <<>> /\ assessor = <<>> /\ saved = <<>> /\ requests = {}
  BY DEF InitWorkspaces
<1>2. Here = {} /\ DOMAIN saved = {} /\ DOMAIN published = {} /\ DOMAIN assessor = {}
  BY <1>1 DEF Here
<1>3. WorkspacesTyped
  BY <1>1, <1>2 DEF WorkspacesTyped
<1>4. QED
  BY <1>1, <1>2, <1>3 DEF WorkspacesInv, PublicationsNumbered, DraftsBased, RequestsChecked, SavedResultsFit

LEMMA CreateWorkspaceKeepsInv ==
    ASSUME WorkspacesInv, NEW w \in Systems, NEW name \in Names, CreateWorkspace(w, name)
    PROVE  WorkspacesInv'
<1> DEFINE row == [name |-> name, draft |-> Neutral, version |-> 1, published |-> 1]
<1>1. /\ w \notin Here /\ UNCHANGED <<saved, requests>>
      /\ workspace' = With(workspace, w, row) /\ published' = With(published, w, <<Neutral>>)
      /\ assessor' = With(assessor, w, FallbackOf[Neutral])
  BY DEF CreateWorkspace
<1>2. /\ row \in [name : Names, draft : Definitions, version : Nat, published : Nat]
      /\ row.published = 1 /\ <<Neutral>> \in Seq(Definitions) /\ Len(<<Neutral>>) = 1
      /\ FallbackOf[Neutral] \in Roles
  BY WorkspacesAssumption, RolesAreRoles
<1>3. DOMAIN workspace = Here /\ DOMAIN published = Here /\ DOMAIN assessor = Here
  BY DEF WorkspacesInv, WorkspacesTyped, Here
<1> HIDE DEF row
<1>4. /\ Here' = Here \cup {w}
      /\ workspace'[w] = row /\ published'[w] = <<Neutral>>
      /\ \A v \in Here : v # w => workspace'[v] = workspace[v] /\ published'[v] = published[v]
  <2>1. /\ DOMAIN workspace' = Here \cup {w} /\ workspace'[w] = row
        /\ \A v \in Here : v # w => workspace'[v] = workspace[v]
    BY <1>1, <1>3 DEF With
  <2>2. /\ published'[w] = <<Neutral>>
        /\ \A v \in Here : v # w => published'[v] = published[v]
    BY <1>1, <1>3 DEF With
  <2>3. Here' = DOMAIN workspace'
    BY DEF Here
  <2>4. QED
    BY <2>1, <2>2, <2>3
<1>5. WorkspacesTyped'
  <2>1. workspace' \in [Here' -> [name : Names, draft : Definitions, version : Nat, published : Nat]]
    BY <1>1, <1>2, <1>3, <1>4, Extension DEF WorkspacesInv, WorkspacesTyped
  <2>2. published' \in [Here' -> Seq(Definitions)]
    BY <1>1, <1>2, <1>3, <1>4, Extension DEF WorkspacesInv, WorkspacesTyped
  <2>3. assessor' \in [Here' -> Roles]
    BY <1>1, <1>2, <1>3, <1>4, Extension DEF WorkspacesInv, WorkspacesTyped
  <2>4. QED
    BY <1>1, <1>4, <2>1, <2>2, <2>3 DEF WorkspacesInv, WorkspacesTyped
<1>6. \A v \in Here : v # w
  BY <1>1
<1>7. PublicationsNumbered'
  <2>1. workspace'[w].published = Len(published'[w]) /\ Len(published'[w]) \in Nat \ {0}
    BY <1>2, <1>4
  <2>2. \A v \in Here : /\ workspace'[v].published = Len(published'[v])
                        /\ Len(published'[v]) \in Nat \ {0}
    BY <1>4, <1>6 DEF WorkspacesInv, PublicationsNumbered
  <2>3. \A j \in DOMAIN saved : saved[j].system \in Here
    BY DEF WorkspacesInv, PublicationsNumbered
  <2>4. QED
    BY <1>1, <1>4, <2>1, <2>2, <2>3 DEF PublicationsNumbered
<1>8. DraftsBased'
  BY <1>1, <1>4, <1>6 DEF WorkspacesInv, DraftsBased
<1>9. \A v \in Here : Published(v)' = Published(v)
  BY <1>4, <1>6 DEF Published
<1>10. RequestsChecked'
  BY <1>1, <1>4, <1>6, <1>9 DEF WorkspacesInv, RequestsChecked, DraftsBased
<1>11. SavedResultsFit'
  BY <1>1, <1>9 DEF WorkspacesInv, SavedResultsFit, PublicationsNumbered
<1>12. QED
  BY <1>5, <1>7, <1>8, <1>10, <1>11 DEF WorkspacesInv

LEMMA RemoveWorkspaceKeepsInv ==
    ASSUME WorkspacesInv, NEW w \in Systems, RemoveWorkspace(w)
    PROVE  WorkspacesInv'
<1>1. /\ workspace' = Without(workspace, w) /\ published' = Without(published, w)
      /\ assessor' = Without(assessor, w)
      /\ saved' = [j \in DOMAIN saved \ SavedIn(w) |-> saved[j]]
      /\ requests' = {r \in Forgotten(SavedIn(w)) : r.system # w}
  BY DEF RemoveWorkspace
<1>2. DOMAIN workspace = Here /\ DOMAIN published = Here /\ DOMAIN assessor = Here
      /\ requests \subseteq OpenRequests /\ saved \in [DOMAIN saved -> SavedEntries]
  BY DEF WorkspacesInv, WorkspacesTyped, Here
<1>3. /\ Here' = Here \ {w}
      /\ \A v \in Here : v # w => workspace'[v] = workspace[v] /\ published'[v] = published[v]
  BY <1>1, <1>2, Reduction DEF Here
<1>4. /\ DOMAIN saved' \subseteq DOMAIN saved
      /\ \A j \in DOMAIN saved' : saved'[j] = saved[j] /\ saved[j].system # w
      /\ \A j \in DOMAIN saved : j \notin SavedIn(w) => j \in DOMAIN saved'
  BY <1>1 DEF SavedIn
<1>5. \A r \in requests' : \E q \in requests :
         /\ r \in OpenRequests /\ r.kind = q.kind /\ r.system = q.system /\ r.system # w
         /\ r.definition = q.definition /\ r.after = q.after /\ r.known = q.known \ SavedIn(w)
  BY <1>1, <1>2, ForgottenRequests
<1>6. WorkspacesTyped'
  <2>1. workspace' \in [Here' -> [name : Names, draft : Definitions, version : Nat, published : Nat]]
    BY <1>1, <1>2, <1>3, Reduction DEF WorkspacesInv, WorkspacesTyped
  <2>2. published' \in [Here' -> Seq(Definitions)] /\ assessor' \in [Here' -> Roles]
    BY <1>1, <1>2, <1>3, Reduction DEF WorkspacesInv, WorkspacesTyped
  <2>3. saved' \in [DOMAIN saved' -> SavedEntries]
    BY <1>1, <1>2, <1>4
  <2>4. requests' \subseteq OpenRequests
    BY <1>5
  <2>5. QED
    BY <1>3, <1>4, <2>1, <2>2, <2>3, <2>4 DEF WorkspacesInv, WorkspacesTyped
<1>7. PublicationsNumbered'
  BY <1>3, <1>4 DEF WorkspacesInv, PublicationsNumbered
<1>8. \A v \in Here : v # w => Published(v)' = Published(v)
  BY <1>3 DEF Published
<1>9. DraftsBased'
  <2> SUFFICES ASSUME NEW r \in requests'
               PROVE  /\ r.system \in Here'
                      /\ r.after \in 1..Len(published'[r.system])
                      /\ r.known \subseteq DOMAIN saved'
                      /\ r.kind = "journee" => r.definition = published'[r.system][r.after]
    BY DEF DraftsBased
  <2>1. PICK q \in requests :
           /\ r.kind = q.kind /\ r.system = q.system /\ r.system # w
           /\ r.definition = q.definition /\ r.after = q.after /\ r.known = q.known \ SavedIn(w)
    BY <1>5
  <2>2. /\ q.system \in Here /\ q.after \in 1..Len(published[q.system]) /\ q.known \subseteq DOMAIN saved
        /\ q.kind = "journee" => q.definition = published[q.system][q.after]
    BY DEF WorkspacesInv, DraftsBased
  <2>3. QED
    BY <1>3, <1>4, <2>1, <2>2
<1>10. RequestsChecked'
  <2> SUFFICES ASSUME NEW r \in requests', NEW j \in r.known, r.kind = "publish",
                      r.after = Len(published'[r.system]), saved'[j].system = r.system, ~saved'[j].raced
               PROVE  Structure[r.definition] = Structure[Published(r.system)']
    BY DEF RequestsChecked
  <2>1. PICK q \in requests :
           /\ r.kind = q.kind /\ r.system = q.system /\ r.system # w
           /\ r.definition = q.definition /\ r.after = q.after /\ r.known = q.known \ SavedIn(w)
    BY <1>5
  <2>2. q.system \in Here /\ j \in DOMAIN saved' /\ j \in q.known
    BY <1>4, <2>1 DEF WorkspacesInv, DraftsBased
  <2>3. QED
    BY <1>3, <1>4, <1>8, <2>1, <2>2 DEF WorkspacesInv, RequestsChecked
<1>11. SavedResultsFit'
  BY <1>4, <1>8 DEF WorkspacesInv, SavedResultsFit, PublicationsNumbered
<1>12. QED
  BY <1>6, <1>7, <1>9, <1>10, <1>11 DEF WorkspacesInv

(* A request is read and checked.                                            *)
LEMMA AdmitKeepsInv ==
    ASSUME WorkspacesInv, NEW request \in OpenRequests, Admit(request), request.system \in Here,
           request.after = workspace[request.system].published,
           request.known \subseteq DOMAIN saved,
           request.kind = "journee" => request.definition = Published(request.system),
           request.kind = "publish" => ~Blocked(request.system, request.definition)
    PROVE  WorkspacesInv'
<1>1. requests' = requests \cup {request} /\ UNCHANGED <<workspace, published, assessor, saved>>
  BY DEF Admit
<1>2. Here' = Here /\ \A w : Published(w)' = Published(w)
  BY <1>1 DEF Here, Published
<1>3. WorkspacesTyped' /\ PublicationsNumbered' /\ SavedResultsFit'
  BY <1>1, <1>2 DEF WorkspacesInv, WorkspacesTyped, PublicationsNumbered, SavedResultsFit
<1>4. request.after = Len(published[request.system]) /\ request.after \in 1..Len(published[request.system])
  BY DEF WorkspacesInv, PublicationsNumbered
<1>5. request.kind = "journee" => request.definition = published[request.system][request.after]
  BY DEF Published
<1>6. DraftsBased'
  BY <1>1, <1>2, <1>4, <1>5 DEF WorkspacesInv, DraftsBased
<1>7. ASSUME request.kind = "publish", NEW j \in request.known, saved[j].system = request.system
      PROVE  Structure[request.definition] = Structure[Published(request.system)]
  BY <1>7 DEF Blocked, SavedIn
<1>8. RequestsChecked'
  BY <1>1, <1>2, <1>7 DEF WorkspacesInv, RequestsChecked
<1>9. QED
  BY <1>3, <1>6, <1>8 DEF WorkspacesInv

LEMMA BeginRequestKeepsInv ==
    ASSUME WorkspacesInv, NEW w \in Systems, NEW definition \in Definitions, NEW name \in Names,
           \/ BeginDraft(w, definition, name) \/ BeginPublish(w, definition, name) \/ BeginJournee(w)
    PROVE  WorkspacesInv'
<1>1. w \in Here /\ w \in Systems
  BY DEF BeginDraft, BeginPublish, BeginJournee, Selected
<1>2. /\ workspace[w].name \in Names /\ workspace[w].version \in Nat /\ workspace[w].published \in Nat
      /\ assessor[w] \in Roles /\ DOMAIN saved \subseteq SavedJournees
  BY <1>1 DEF WorkspacesInv, WorkspacesTyped
<1>3. Published(w) \in Definitions
  <2>1. published[w] \in Seq(Definitions) /\ workspace[w].published \in 1..Len(published[w])
    BY <1>1 DEF WorkspacesInv, WorkspacesTyped, PublicationsNumbered
  <2>2. QED
    BY <2>1 DEF Published
<1>4. ASSUME NEW kind \in {"draft", "publish", "journee"}, NEW d \in Definitions, NEW n \in Names,
             NEW known \in SUBSET DOMAIN saved, Admit(RequestOf(kind, w, d, n, known)),
             kind = "journee" => d = Published(w),
             kind = "publish" => ~Blocked(w, d)
      PROVE  WorkspacesInv'
  <2> DEFINE request == RequestOf(kind, w, d, n, known)
  <2>1. /\ request \in OpenRequests /\ request.kind = kind /\ request.system = w /\ request.definition = d
        /\ request.after = workspace[w].published /\ request.known = known
    BY <1>1, <1>2 DEF RequestOf, OpenRequests
  <2>2. Admit(request)
    BY <1>4
  <2> HIDE DEF request
  <2>3. QED
    BY <1>1, <1>4, <2>1, <2>2, AdmitKeepsInv
<1>5. CASE BeginDraft(w, definition, name)
  BY <1>4, <1>5 DEF BeginDraft
<1>6. CASE BeginPublish(w, definition, name)
  BY <1>4, <1>6 DEF BeginPublish
<1>7. CASE BeginJournee(w)
  BY <1>2, <1>3, <1>4, <1>7 DEF BeginJournee, Runtime
<1>8. QED
  BY <1>5, <1>6, <1>7

LEMMA CommitDraftKeepsInv ==
    ASSUME WorkspacesInv, NEW r \in requests, CommitDraft(r)
    PROVE  WorkspacesInv'
<1> DEFINE row == [name |-> r.name, draft |-> r.definition, version |-> r.at + 1,
                   published |-> workspace[r.system].published]
<1>1. /\ workspace' = [workspace EXCEPT ![r.system] = row]
      /\ requests' = requests \ {r} /\ UNCHANGED <<published, assessor, saved>>
  BY DEF CommitDraft
<1>2. r \in OpenRequests /\ r.system \in Here
  BY DEF WorkspacesInv, WorkspacesTyped, DraftsBased
<1>3. /\ row \in [name : Names, draft : Definitions, version : Nat, published : Nat]
      /\ row.published = workspace[r.system].published
  BY <1>2 DEF OpenRequests, WorkspacesInv, WorkspacesTyped
<1> HIDE DEF row
<1>4. workspace \in [Here -> [name : Names, draft : Definitions, version : Nat, published : Nat]]
  BY DEF WorkspacesInv, WorkspacesTyped
<1>5. /\ workspace' \in [Here -> [name : Names, draft : Definitions, version : Nat, published : Nat]]
      /\ Here' = Here /\ \A w \in Here : workspace'[w].published = workspace[w].published
  <2>1. DOMAIN workspace' = DOMAIN workspace
    BY <1>1
  <2>2. QED
    BY <1>1, <1>2, <1>3, <1>4, <2>1 DEF Here
<1>6. \A w \in Here : Published(w)' = Published(w)
  BY <1>1, <1>5 DEF Published
<1>7. WorkspacesTyped' /\ PublicationsNumbered' /\ DraftsBased'
  BY <1>1, <1>5 DEF WorkspacesInv, WorkspacesTyped, PublicationsNumbered, DraftsBased
<1>8. RequestsChecked' /\ SavedResultsFit'
  BY <1>1, <1>6 DEF WorkspacesInv, RequestsChecked, SavedResultsFit, DraftsBased, PublicationsNumbered
<1>9. QED
  BY <1>7, <1>8 DEF WorkspacesInv

(* The record is published under the number that follows the one it was      *)
(* checked against, so the check still holds of every Journee it read.       *)
LEMMA CommitPublishKeepsInv ==
    ASSUME WorkspacesInv, NEW r \in requests, CommitPublish(r)
    PROVE  WorkspacesInv'
<1> DEFINE w == r.system
           row == [name |-> r.name, draft |-> r.definition, version |-> r.at + 1, published |-> r.after + 1]
           more == Append(published[w], r.definition)
           entry(j) == [system |-> saved[j].system, structure |-> saved[j].structure,
                        role |-> IF j \in Reassigned(r) THEN Configured(saved[j].role, r.definition)
                                                        ELSE saved[j].role,
                        raced |-> saved[j].raced \/ (saved[j].system = w /\ j \notin r.known)]
<1>1. /\ r.kind = "publish" /\ ~(Len(published[w]) > r.after)
      /\ workspace' = [workspace EXCEPT ![w] = row] /\ published' = [published EXCEPT ![w] = more]
      /\ assessor' = [assessor EXCEPT ![w] = Configured(@, r.definition)]
      /\ saved' = [j \in DOMAIN saved |-> entry(j)]
      /\ requests' = requests \ {r}
  BY DEF CommitPublish, NumberTaken
<1>2. r \in OpenRequests /\ w \in Here /\ r.after \in 1..Len(published[w]) /\ r.definition \in Definitions
  BY DEF WorkspacesInv, WorkspacesTyped, DraftsBased, OpenRequests
<1>3. /\ workspace \in [Here -> [name : Names, draft : Definitions, version : Nat, published : Nat]]
      /\ published \in [Here -> Seq(Definitions)] /\ assessor \in [Here -> Roles]
      /\ saved \in [DOMAIN saved -> SavedEntries]
  BY DEF WorkspacesInv, WorkspacesTyped
<1>4. r.after = Len(published[w]) /\ r.after \in Nat
  <2>1. Len(published[w]) \in Nat
    BY <1>2, <1>3
  <2>2. QED
    BY <1>1, <1>2, <2>1
<1>5. /\ more \in Seq(Definitions) /\ Len(more) = r.after + 1 /\ more[r.after + 1] = r.definition
      /\ \A i \in 1..r.after : more[i] = published[w][i]
  BY <1>2, <1>3, <1>4
<1>6. /\ row \in [name : Names, draft : Definitions, version : Nat, published : Nat]
      /\ row.published = r.after + 1
  BY <1>2, <1>4 DEF OpenRequests
<1>7. \A j \in DOMAIN saved : entry(j) \in SavedEntries
  BY <1>2, <1>3, RolesAreRoles DEF SavedEntries
<1>8. \A j \in DOMAIN saved :
         /\ saved'[j] = entry(j) /\ saved'[j].system = saved[j].system
         /\ saved'[j].structure = saved[j].structure
         /\ saved'[j].raced = (saved[j].raced \/ (saved[j].system = w /\ j \notin r.known))
  BY <1>1
<1> HIDE DEF row, more, entry
<1>9. /\ Here' = Here /\ workspace'[w] = row /\ published'[w] = more
      /\ \A v \in Here : v # w => workspace'[v] = workspace[v] /\ published'[v] = published[v]
  <2>1. DOMAIN workspace' = DOMAIN workspace
    BY <1>1
  <2>2. QED
    BY <1>1, <1>2, <1>3, <2>1 DEF Here
<1>10. WorkspacesTyped'
  <2>1. workspace' \in [Here -> [name : Names, draft : Definitions, version : Nat, published : Nat]]
    BY <1>1, <1>3, <1>6
  <2>2. published' \in [Here -> Seq(Definitions)]
    BY <1>1, <1>3, <1>5
  <2>3. assessor' \in [Here -> Roles]
    BY <1>1, <1>2, <1>3, RolesAreRoles
  <2>4. saved' \in [DOMAIN saved -> SavedEntries] /\ DOMAIN saved' = DOMAIN saved
    BY <1>1, <1>7
  <2>5. requests' \subseteq OpenRequests
    BY <1>1 DEF WorkspacesInv, WorkspacesTyped
  <2>6. Here \subseteq Systems /\ DOMAIN saved \subseteq SavedJournees
    BY DEF WorkspacesInv, WorkspacesTyped
  <2>7. QED
    BY <1>9, <2>1, <2>2, <2>3, <2>4, <2>5, <2>6 DEF WorkspacesTyped
<1>11. DOMAIN saved' = DOMAIN saved
  BY <1>1
<1>12. PublicationsNumbered'
  <2>1. workspace'[w].published = Len(published'[w]) /\ Len(published'[w]) \in Nat \ {0}
    BY <1>4, <1>5, <1>6, <1>9
  <2>2. \A v \in Here : v # w => /\ workspace'[v].published = Len(published'[v])
                                  /\ Len(published'[v]) \in Nat \ {0}
    BY <1>9 DEF WorkspacesInv, PublicationsNumbered
  <2>3. \A j \in DOMAIN saved' : saved'[j].system \in Here
    BY <1>8, <1>11 DEF WorkspacesInv, PublicationsNumbered
  <2>4. QED
    BY <1>9, <2>1, <2>2, <2>3 DEF PublicationsNumbered
<1>13. Published(w)' = r.definition /\ \A v \in Here : v # w => Published(v)' = Published(v)
  BY <1>5, <1>6, <1>9 DEF Published
<1>14. \A q \in requests : q.system = w => q.after \in 1..r.after
  BY <1>4 DEF WorkspacesInv, DraftsBased
<1>15. DraftsBased'
  <2> SUFFICES ASSUME NEW q \in requests
               PROVE  /\ q.system \in Here
                      /\ q.after \in 1..Len(published'[q.system])
                      /\ q.known \subseteq DOMAIN saved
                      /\ q.kind = "journee" => q.definition = published'[q.system][q.after]
    BY <1>1, <1>9, <1>11 DEF DraftsBased
  <2>1. /\ q.system \in Here /\ q.after \in 1..Len(published[q.system]) /\ q.known \subseteq DOMAIN saved
        /\ q.kind = "journee" => q.definition = published[q.system][q.after]
    BY DEF WorkspacesInv, DraftsBased
  <2>2. CASE q.system = w
    BY <1>4, <1>5, <1>9, <1>14, <2>1, <2>2
  <2>3. QED
    BY <1>9, <2>1, <2>2
<1>16. RequestsChecked'
  <2> SUFFICES ASSUME NEW q \in requests, NEW j \in q.known, q.kind = "publish",
                      q.after = Len(published'[q.system]), saved'[j].system = q.system, ~saved'[j].raced
               PROVE  Structure[q.definition] = Structure[Published(q.system)']
    BY <1>1 DEF RequestsChecked
  <2>1. q.system \in Here /\ j \in DOMAIN saved
    BY DEF WorkspacesInv, DraftsBased
  <2>2. q.system # w
    BY <1>4, <1>5, <1>9, <1>14
  <2>3. published'[q.system] = published[q.system] /\ Published(q.system)' = Published(q.system)
    BY <1>9, <1>13, <2>1, <2>2
  <2>4. saved[j].system = q.system /\ ~saved[j].raced
    BY <1>8, <2>1
  <2>5. QED
    BY <2>3, <2>4 DEF WorkspacesInv, RequestsChecked
<1>17. SavedResultsFit'
  <2> SUFFICES ASSUME NEW j \in DOMAIN saved, ~saved'[j].raced
               PROVE  saved'[j].structure = Structure[Published(saved[j].system)']
    BY <1>11 DEF SavedResultsFit
  <2>1. /\ saved'[j].system = saved[j].system /\ saved'[j].structure = saved[j].structure
        /\ ~saved[j].raced /\ (saved[j].system = w => j \in r.known) /\ saved[j].system \in Here
    BY <1>8 DEF WorkspacesInv, PublicationsNumbered
  <2>2. saved[j].structure = Structure[Published(saved[j].system)]
    BY <2>1 DEF WorkspacesInv, SavedResultsFit
  <2>3. Published(saved[j].system)' = published'[saved[j].system][workspace'[saved[j].system].published]
    BY <2>1 DEF Published
  <2>4. CASE saved[j].system = w
    <3>1. Structure[r.definition] = Structure[Published(w)]
      BY <1>1, <1>4, <2>1, <2>4 DEF WorkspacesInv, RequestsChecked
    <3>2. published'[w][workspace'[w].published] = r.definition
      BY <1>5, <1>6, <1>9
    <3>3. QED
      BY <2>1, <2>2, <2>3, <2>4, <3>1, <3>2
  <2>5. CASE saved[j].system # w
    <3>1. Published(saved[j].system) = published[saved[j].system][workspace[saved[j].system].published]
      BY DEF Published
    <3>2. QED
      BY <1>9, <2>1, <2>2, <2>3, <2>5, <3>1
  <2>6. QED
    BY <2>4, <2>5
<1>18. QED
  BY <1>10, <1>12, <1>15, <1>16, <1>17 DEF WorkspacesInv

LEMMA RolesKeepInv ==
    ASSUME WorkspacesInv, UNCHANGED <<workspace, published, saved>>, requests' \subseteq requests,
           assessor' \in [Here -> Roles]
    PROVE  WorkspacesInv'
<1>1. Here' = Here /\ \A w : Published(w)' = Published(w)
  BY DEF Here, Published
<1>2. WorkspacesTyped' /\ PublicationsNumbered' /\ DraftsBased'
  BY <1>1 DEF WorkspacesInv, WorkspacesTyped, PublicationsNumbered, DraftsBased
<1>3. RequestsChecked' /\ SavedResultsFit'
  BY <1>1 DEF WorkspacesInv, RequestsChecked, SavedResultsFit
<1>4. QED
  BY <1>2, <1>3 DEF WorkspacesInv

(* A Journee keeps the structure of the version its request arrived under.   *)
LEMMA CommitJourneeKeepsInv ==
    ASSUME WorkspacesInv, NEW r \in requests, NEW j \in SavedJournees, CommitJournee(r, j)
    PROVE  WorkspacesInv'
<1> DEFINE w == r.system
           entry == [system |-> w, structure |-> Structure[r.definition], role |-> r.role,
                     raced |-> workspace[w].published # r.after]
<1>1. /\ r.kind = "journee" /\ j \notin DOMAIN saved /\ saved' = With(saved, j, entry)
      /\ requests' = requests \ {r} /\ UNCHANGED <<workspace, published, assessor>>
  BY DEF CommitJournee
<1>2. r \in OpenRequests /\ w \in Here /\ r.definition = published[w][r.after]
  BY <1>1 DEF WorkspacesInv, WorkspacesTyped, DraftsBased
<1>3. /\ entry \in SavedEntries /\ entry.system = w /\ entry.structure = Structure[r.definition]
      /\ entry.raced = (workspace[w].published # r.after)
  BY <1>2 DEF OpenRequests, SavedEntries, Structures
<1> HIDE DEF entry
<1>4. /\ DOMAIN saved' = DOMAIN saved \cup {j} /\ saved'[j] = entry
      /\ \A k \in DOMAIN saved : saved'[k] = saved[k]
  BY <1>1 DEF With
<1>5. Here' = Here /\ \A v : Published(v)' = Published(v)
  BY <1>1 DEF Here, Published
<1>6. WorkspacesTyped'
  <2>1. saved \in [DOMAIN saved -> SavedEntries] /\ DOMAIN saved \subseteq SavedJournees
    BY DEF WorkspacesInv, WorkspacesTyped
  <2>2. saved' \in [DOMAIN saved' -> SavedEntries]
    BY <1>1, <1>3, <2>1 DEF With
  <2>3. QED
    BY <1>1, <1>4, <1>5, <2>1, <2>2 DEF WorkspacesInv, WorkspacesTyped
<1>7. PublicationsNumbered' /\ DraftsBased'
  BY <1>1, <1>2, <1>3, <1>4, <1>5 DEF WorkspacesInv, PublicationsNumbered, DraftsBased
<1>8. RequestsChecked'
  BY <1>1, <1>4, <1>5 DEF WorkspacesInv, RequestsChecked, DraftsBased
<1>9. ASSUME ~entry.raced
      PROVE  entry.structure = Structure[Published(w)]
  BY <1>2, <1>3, <1>9 DEF Published
<1>10. SavedResultsFit'
  <2> SUFFICES ASSUME NEW k \in DOMAIN saved', ~saved'[k].raced
               PROVE  saved'[k].structure = Structure[Published(saved[k].system)']
    BY DEF SavedResultsFit
  <2>1. CASE k = j
    BY <1>3, <1>4, <1>5, <1>9, <2>1
  <2>2. CASE k # j
    BY <1>4, <1>5, <2>2 DEF WorkspacesInv, SavedResultsFit
  <2>3. QED
    BY <2>1, <2>2
<1>11. QED
  BY <1>6, <1>7, <1>8, <1>10 DEF WorkspacesInv

LEMMA DeleteJourneeKeepsInv ==
    ASSUME WorkspacesInv, NEW j \in SavedJournees, DeleteJournee(j)
    PROVE  WorkspacesInv'
<1>1. /\ saved' = Without(saved, j) /\ requests' = Forgotten({j})
      /\ UNCHANGED <<workspace, published, assessor>>
  BY DEF DeleteJournee
<1>2. /\ DOMAIN saved' = DOMAIN saved \ {j}
      /\ \A k \in DOMAIN saved' : saved'[k] = saved[k]
  BY <1>1 DEF Without
<1>3. Here' = Here /\ \A w : Published(w)' = Published(w)
  BY <1>1 DEF Here, Published
<1>4. requests \subseteq OpenRequests /\ saved \in [DOMAIN saved -> SavedEntries]
  BY DEF WorkspacesInv, WorkspacesTyped
<1>5. \A r \in requests' : \E q \in requests :
         /\ r \in OpenRequests /\ r.kind = q.kind /\ r.system = q.system
         /\ r.definition = q.definition /\ r.after = q.after /\ r.known = q.known \ {j}
  BY <1>1, <1>4, ForgottenRequests
<1>6. WorkspacesTyped'
  <2>1. saved' \in [DOMAIN saved' -> SavedEntries]
    BY <1>1, <1>4 DEF Without
  <2>2. QED
    BY <1>1, <1>2, <1>3, <1>5, <2>1 DEF WorkspacesInv, WorkspacesTyped
<1>7. PublicationsNumbered' /\ SavedResultsFit'
  BY <1>1, <1>2, <1>3 DEF WorkspacesInv, PublicationsNumbered, SavedResultsFit
<1>8. DraftsBased' /\ RequestsChecked'
  <2> SUFFICES ASSUME NEW r \in requests'
               PROVE  /\ r.system \in Here
                      /\ r.after \in 1..Len(published[r.system])
                      /\ r.known \subseteq DOMAIN saved'
                      /\ r.kind = "journee" => r.definition = published[r.system][r.after]
                      /\ \A k \in r.known :
                            /\ r.kind = "publish" /\ r.after = Len(published[r.system])
                            /\ saved'[k].system = r.system /\ ~saved'[k].raced
                            => Structure[r.definition] = Structure[Published(r.system)]
    BY <1>1, <1>3 DEF DraftsBased, RequestsChecked
  <2>1. PICK q \in requests :
           /\ r.kind = q.kind /\ r.system = q.system
           /\ r.definition = q.definition /\ r.after = q.after /\ r.known = q.known \ {j}
    BY <1>5
  <2>2. /\ q.system \in Here /\ q.after \in 1..Len(published[q.system]) /\ q.known \subseteq DOMAIN saved
        /\ q.kind = "journee" => q.definition = published[q.system][q.after]
        /\ \A k \in q.known :
              /\ q.kind = "publish" /\ q.after = Len(published[q.system])
              /\ saved[k].system = q.system /\ ~saved[k].raced
              => Structure[q.definition] = Structure[Published(q.system)]
    BY DEF WorkspacesInv, DraftsBased, RequestsChecked
  <2>3. QED
    BY <1>2, <2>1, <2>2
<1>9. QED
  BY <1>6, <1>7, <1>8 DEF WorkspacesInv

-----------------------------------------------------------------------------
(* The type invariant also needs the bounds of the model: a draft or a        *)
(* publication is admitted below the last version, and every step but an     *)
(* admission leaves at most as many requests as there were.                  *)
WithinBounds ==
    /\ \A w \in Here : workspace[w].version \in 1..MaxVersion
    /\ \A r \in requests : r.at + 1 \in 1..MaxVersion \/ r.kind = "journee"
    /\ IsFiniteSet(requests) /\ Cardinality(requests) <= MaxOpen

LEMMA FewerRequests ==
    ASSUME IsFiniteSet(requests), Cardinality(requests) <= MaxOpen, NEW S \in SUBSET requests
    PROVE  IsFiniteSet(S) /\ Cardinality(S) <= MaxOpen
<1>1. Cardinality(requests) \in Nat /\ MaxOpen \in Nat
  BY FS_CardinalityType, WorkspacesAssumption
<1>2. IsFiniteSet(S) /\ Cardinality(S) <= Cardinality(requests)
  BY FS_Subset
<1>3. Cardinality(S) \in Nat
  BY <1>2, FS_CardinalityType
<1>4. QED
  BY <1>1, <1>2, <1>3

LEMMA ForgottenAreFew ==
    ASSUME IsFiniteSet(requests), Cardinality(requests) <= MaxOpen, NEW S, NEW T \in SUBSET Forgotten(S)
    PROVE  IsFiniteSet(T) /\ Cardinality(T) <= MaxOpen
<1> DEFINE image == [r \in requests |-> [r EXCEPT !.known = @ \ S]]
<1>1. image \in Surjection(requests, Forgotten(S))
  <2>1. \A r \in requests : image[r] \in Forgotten(S)
    BY DEF Forgotten
  <2>2. \A t \in Forgotten(S) : \E r \in requests : image[r] = t
    BY DEF Forgotten
  <2>3. image \in [requests -> Forgotten(S)]
    BY <2>1
  <2> HIDE DEF image
  <2>4. QED
    BY <2>2, <2>3 DEF Surjection
<1> HIDE DEF image
<1>2. IsFiniteSet(Forgotten(S)) /\ Cardinality(Forgotten(S)) <= Cardinality(requests)
  BY <1>1, FS_Surjection
<1>3. IsFiniteSet(T) /\ Cardinality(T) <= Cardinality(Forgotten(S))
  BY <1>2, FS_Subset
<1>4. Cardinality(requests) \in Nat /\ Cardinality(Forgotten(S)) \in Nat /\ Cardinality(T) \in Nat /\ MaxOpen \in Nat
  BY <1>2, <1>3, FS_CardinalityType, WorkspacesAssumption
<1>5. QED
  BY <1>2, <1>3, <1>4

LEMMA AdmittedAreFew ==
    ASSUME IsFiniteSet(requests), NEW request, Admit(request)
    PROVE  IsFiniteSet(requests') /\ Cardinality(requests') <= MaxOpen
<1>1. Cardinality(requests) < MaxOpen /\ request \notin requests /\ requests' = requests \cup {request}
  BY DEF Admit
<1>2. IsFiniteSet(requests') /\ Cardinality(requests') = Cardinality(requests) + 1
  BY <1>1, FS_AddElement
<1>3. Cardinality(requests) \in Nat /\ MaxOpen \in Nat
  BY FS_CardinalityType, WorkspacesAssumption
<1>4. QED
  BY <1>1, <1>2, <1>3

LEMMA InitBounded == InitWorkspaces => WithinBounds
  BY FS_EmptySet, WorkspacesAssumption DEF InitWorkspaces, WithinBounds, Here

LEMMA StepKeepsBounded ==
    ASSUME WorkspacesInv, WithinBounds, [NextWorkspaces]_workspaceVars
    PROVE  WithinBounds'
<1>1. ASSUME UNCHANGED workspace, requests' \subseteq requests
      PROVE  WithinBounds'
  <2>1. Here' = Here
    BY <1>1 DEF Here
  <2>2. QED
    BY <1>1, <2>1, FewerRequests DEF WithinBounds
<1>2. ASSUME NEW request, Admit(request), request.at + 1 \in 1..MaxVersion \/ request.kind = "journee"
      PROVE  WithinBounds'
  <2>1. Here' = Here /\ workspace' = workspace /\ requests' = requests \cup {request}
    BY <1>2 DEF Here, Admit
  <2>2. QED
    BY <1>2, <2>1, AdmittedAreFew DEF WithinBounds
<1>3. ASSUME NEW w \in Systems, NEW name \in Names, CreateWorkspace(w, name)
      PROVE  WithinBounds'
  <2>1. /\ Here' = Here \cup {w} /\ workspace'[w].version = 1 /\ requests' = requests
        /\ \A v \in Here : v # w => workspace'[v] = workspace[v]
    BY <1>3 DEF CreateWorkspace, With, Here
  <2>2. QED
    BY <2>1, WorkspacesAssumption DEF WithinBounds
<1>4. ASSUME NEW w \in Systems, RemoveWorkspace(w)
      PROVE  WithinBounds'
  <2>1. /\ Here' \subseteq Here /\ \A v \in Here' : workspace'[v] = workspace[v]
        /\ requests' \subseteq Forgotten(SavedIn(w))
    BY <1>4 DEF RemoveWorkspace, Without, Here
  <2>2. \A r \in requests' : \E q \in requests : r.at = q.at /\ r.kind = q.kind
    BY <2>1, ForgottenRemember DEF WorkspacesInv, WorkspacesTyped
  <2>3. IsFiniteSet(requests') /\ Cardinality(requests') <= MaxOpen
    BY <2>1, ForgottenAreFew DEF WithinBounds
  <2>4. QED
    BY <2>1, <2>2, <2>3 DEF WithinBounds
<1>5. ASSUME NEW w \in Systems, NEW definition, NEW name, NEW kind, NEW known,
             Selected(w), workspace[w].version < MaxVersion,
             Admit(RequestOf(kind, w, definition, name, known))
      PROVE  WithinBounds'
  <2>1. RequestOf(kind, w, definition, name, known).at = workspace[w].version
    BY DEF RequestOf
  <2>2. workspace[w].version \in 1..MaxVersion
    BY <1>5 DEF Selected, WithinBounds
  <2>3. RequestOf(kind, w, definition, name, known).at + 1 \in 1..MaxVersion
    BY <1>5, <2>1, <2>2, WorkspacesAssumption
  <2>4. QED
    BY <1>2, <1>5, <2>3
<1>6. ASSUME NEW w \in Systems, BeginJournee(w)
      PROVE  WithinBounds'
  <2>1. RequestOf("journee", w, Runtime(w), workspace[w].name, {}).kind = "journee"
    BY DEF RequestOf
  <2>2. QED
    BY <1>2, <1>6, <2>1 DEF BeginJournee
<1>7. ASSUME NEW r \in requests, NEW row,
             r.kind # "journee", row.version = r.at + 1,
             workspace' = [workspace EXCEPT ![r.system] = row], requests' = requests \ {r}
      PROVE  WithinBounds'
  <2>1. r.system \in Here
    BY DEF WorkspacesInv, DraftsBased
  <2>2. Here' = Here /\ workspace'[r.system] = row
    BY <1>7, <2>1 DEF Here
  <2>3. \A v \in Here : v # r.system => workspace'[v] = workspace[v]
    BY <1>7 DEF Here
  <2>4. row.version \in 1..MaxVersion
    BY <1>7 DEF WithinBounds
  <2>5. QED
    BY <1>7, <2>2, <2>3, <2>4, FewerRequests DEF WithinBounds
<1>8. ASSUME NEW r \in requests, CommitDraft(r)
      PROVE  WithinBounds'
  BY <1>7, <1>8 DEF CommitDraft
<1>9. ASSUME NEW r \in requests, CommitPublish(r)
      PROVE  WithinBounds'
  BY <1>7, <1>9 DEF CommitPublish
<1>10. ASSUME NEW j \in SavedJournees, DeleteJournee(j)
       PROVE  WithinBounds'
  <2>1. workspace' = workspace /\ Here' = Here /\ requests' = Forgotten({j})
    BY <1>10 DEF DeleteJournee, Here
  <2>2. \A r \in requests' : \E q \in requests : r.at = q.at /\ r.kind = q.kind
    BY <2>1, ForgottenRemember DEF WorkspacesInv, WorkspacesTyped
  <2>3. IsFiniteSet(requests') /\ Cardinality(requests') <= MaxOpen
    BY <2>1, ForgottenAreFew DEF WithinBounds
  <2>4. QED
    BY <2>1, <2>2, <2>3 DEF WithinBounds
<1>11. CASE UNCHANGED workspaceVars
  BY <1>1, <1>11 DEF workspaceVars
<1>12. ASSUME NEW w \in Systems, NEW definition \in Definitions, SyncAssessors(w, definition)
       PROVE  WithinBounds'
  BY <1>1, <1>12 DEF SyncAssessors
<1>13. ASSUME NEW w \in Systems, NEW definition \in Definitions, NEW name \in Names,
              BeginDraft(w, definition, name) \/ BeginPublish(w, definition, name)
       PROVE  WithinBounds'
  BY <1>5, <1>13 DEF BeginDraft, BeginPublish
<1>14. ASSUME NEW r \in requests, RefusePublish(r)
       PROVE  WithinBounds'
  BY <1>1, <1>14 DEF RefusePublish
<1>15. ASSUME NEW r \in requests, NEW j \in SavedJournees, CommitJournee(r, j)
       PROVE  WithinBounds'
  BY <1>1, <1>15 DEF CommitJournee
<1>16. QED
  BY <1>3, <1>4, <1>6, <1>8, <1>9, <1>10, <1>11, <1>12, <1>13, <1>14, <1>15 DEF NextWorkspaces

LEMMA WorkspacesAreTyped == WorkspacesInv /\ WithinBounds => TypeOKWorkspaces
<1> SUFFICES ASSUME WorkspacesInv, WithinBounds
             PROVE  TypeOKWorkspaces
  OBVIOUS
<1>1. ASSUME NEW w \in Here
      PROVE  /\ workspace[w] \in [name : Names, draft : Definitions, version : 1 .. MaxVersion,
                                  published : 1 .. Len(published[w])]
             /\ published[w] \in Seq(Definitions)
             /\ assessor[w] \in Roles
  <2>1. workspace[w] \in [name : Names, draft : Definitions, version : Nat, published : Nat]
    BY DEF WorkspacesInv, WorkspacesTyped
  <2>2. workspace[w].version \in 1..MaxVersion
    BY DEF WithinBounds
  <2>3. workspace[w].published \in 1..Len(published[w])
    BY DEF WorkspacesInv, PublicationsNumbered
  <2>4. published[w] \in Seq(Definitions) /\ assessor[w] \in Roles
    BY DEF WorkspacesInv, WorkspacesTyped
  <2>5. QED
    BY <2>1, <2>2, <2>3, <2>4
<1>2. Here \subseteq Systems /\ DOMAIN published = Here /\ DOMAIN assessor = Here /\ DOMAIN saved \subseteq SavedJournees
  BY DEF WorkspacesInv, WorkspacesTyped
<1>3. \A j \in DOMAIN saved : saved[j].system \in Here /\ saved[j].role \in Roles /\ saved[j].raced \in BOOLEAN
  BY DEF WorkspacesInv, WorkspacesTyped, PublicationsNumbered, SavedEntries
<1>4. QED
  BY <1>1, <1>2, <1>3 DEF TypeOKWorkspaces, WithinBounds

-----------------------------------------------------------------------------
LEMMA WorkspacesStep == WorkspacesInv /\ [NextWorkspaces]_workspaceVars => WorkspacesInv'
<1> SUFFICES ASSUME WorkspacesInv, [NextWorkspaces]_workspaceVars
             PROVE  WorkspacesInv'
  OBVIOUS
<1>1. CASE UNCHANGED workspaceVars
  BY <1>1, RolesKeepInv DEF workspaceVars, WorkspacesInv, WorkspacesTyped
<1>2. ASSUME NEW w \in Systems, NEW name \in Names, CreateWorkspace(w, name)
      PROVE  WorkspacesInv'
  BY <1>2, CreateWorkspaceKeepsInv
<1>3. ASSUME NEW w \in Systems, RemoveWorkspace(w)
      PROVE  WorkspacesInv'
  BY <1>3, RemoveWorkspaceKeepsInv
<1>4. ASSUME NEW w \in Systems, NEW definition \in Definitions, SyncAssessors(w, definition)
      PROVE  WorkspacesInv'
  BY <1>4, RolesKeepInv, RolesAreRoles DEF SyncAssessors, WorkspacesInv, WorkspacesTyped
<1>5. ASSUME NEW w \in Systems, NEW definition \in Definitions, NEW name \in Names,
             BeginDraft(w, definition, name) \/ BeginPublish(w, definition, name)
      PROVE  WorkspacesInv'
  BY <1>5, BeginRequestKeepsInv
<1>6. ASSUME NEW w \in Systems, BeginJournee(w)
      PROVE  WorkspacesInv'
  <2>1. workspace[w].name \in Names
    BY <1>6 DEF BeginJournee, Selected, WorkspacesInv, WorkspacesTyped
  <2>2. QED
    BY <1>6, <2>1, BeginRequestKeepsInv, WorkspacesAssumption
<1>7. ASSUME NEW r \in requests, CommitDraft(r)
      PROVE  WorkspacesInv'
  BY <1>7, CommitDraftKeepsInv
<1>8. ASSUME NEW r \in requests, CommitPublish(r)
      PROVE  WorkspacesInv'
  BY <1>8, CommitPublishKeepsInv
<1>9. ASSUME NEW r \in requests, RefusePublish(r)
      PROVE  WorkspacesInv'
  BY <1>9, RolesKeepInv DEF RefusePublish, WorkspacesInv, WorkspacesTyped
<1>10. ASSUME NEW r \in requests, NEW j \in SavedJournees, CommitJournee(r, j)
       PROVE  WorkspacesInv'
  BY <1>10, CommitJourneeKeepsInv
<1>11. ASSUME NEW j \in SavedJournees, DeleteJournee(j)
       PROVE  WorkspacesInv'
  BY <1>11, DeleteJourneeKeepsInv
<1>12. QED
  BY <1>1, <1>2, <1>3, <1>4, <1>5, <1>6, <1>7, <1>8, <1>9, <1>10, <1>11 DEF NextWorkspaces

(* The invariant of the workspaces: what a request between its two steps     *)
(* still knows about the definitions and the Journees.                       *)
THEOREM WorkspacesInvariant == SpecWorkspaces => []WorkspacesInv
<1>1. InitWorkspaces => WorkspacesInv
  BY InitWorkspacesInv
<1>2. WorkspacesInv /\ [NextWorkspaces]_workspaceVars => WorkspacesInv'
  BY WorkspacesStep
<1>3. QED
  BY <1>1, <1>2, PTL DEF SpecWorkspaces

(* TypeOKWorkspaces: every workspace's published number is one of its        *)
(* records, its version is within the bound, and its Journees are its own.   *)
THEOREM WorkspacesTypeCorrect == SpecWorkspaces => []TypeOKWorkspaces
<1>1. InitWorkspaces => WorkspacesInv /\ WithinBounds
  BY InitWorkspacesInv, InitBounded
<1>2. WorkspacesInv /\ WithinBounds /\ [NextWorkspaces]_workspaceVars => WorkspacesInv' /\ WithinBounds'
  BY WorkspacesStep, StepKeepsBounded
<1>3. WorkspacesInv /\ WithinBounds => TypeOKWorkspaces
  BY WorkspacesAreTyped
<1>4. QED
  BY <1>1, <1>2, <1>3, PTL DEF SpecWorkspaces

(* SavedResultsFit: publish_definition and create_journey, which read and    *)
(* commit without a lock, leave every Journee readable under the published   *)
(* definition, unless the two did not see each other.                        *)
THEOREM ResultsFitDefinition == SpecWorkspaces => []SavedResultsFit
<1>1. WorkspacesInv => SavedResultsFit
  BY DEF WorkspacesInv
<1>2. QED
  BY <1>1, WorkspacesInvariant, PTL

-----------------------------------------------------------------------------
(***************************************************************************)
(* The room plans.                                                         *)
(***************************************************************************)

LEMMA MaxOfRange ==
    ASSUME NEW n \in Nat, NEW S \in SUBSET (1..n), S # {}
    PROVE  Max(S) \in S
<1> DEFINE T == {n - x : x \in S}
<1>1. T \subseteq Nat /\ T # {}
  <2>1. \A x \in S : n - x \in Nat
    OBVIOUS
  <2>2. QED
    BY <2>1
<1>2. PICK least \in T : \A y \in T : ~(<<y, least>> \in OpToRel(<, Nat))
  BY <1>1, NatLessThanWellFounded, WFMin
<1>3. PICK x \in S : least = n - x
  BY <1>2
<1>4. \A y \in S : x >= y
  <2> TAKE y \in S
  <2>1. n - y \in T /\ n - y \in Nat /\ n - x \in Nat
    BY <1>1, <1>3
  <2>2. ~(n - y < n - x)
    BY <1>2, <1>3, <2>1 DEF OpToRel
  <2>3. QED
    BY <2>1, <2>2
<1>5. QED
  BY <1>4 DEF Max

-----------------------------------------------------------------------------
(* What the operators of the plans return.                                   *)

LEMMA WithLocksTyped ==
    ASSUME NEW rooms, NEW locks, DOMAIN rooms \subseteq Recruits,
           \A r \in DOMAIN rooms : rooms[r] \in 1..MaxRooms
    PROVE  WithLocks(rooms, locks) \in RecruitRooms
<1>1. WithLocks(rooms, locks) \in [DOMAIN rooms -> [room : 1..MaxRooms, locked : BOOLEAN]]
  BY DEF WithLocks
<1>2. QED
  BY <1>1 DEF RecruitRooms

LEMMA MembersTyped ==
    ASSUME NEW rooms, NEW must, NEW locks, DOMAIN rooms \subseteq Evaluators,
           \A e \in DOMAIN rooms : rooms[e] \in 1..MaxRooms
    PROVE  Members(rooms, must, locks) \in EvaluatorRooms
<1>1. Members(rooms, must, locks)
         \in [DOMAIN rooms -> [room : 1..MaxRooms, mandatory : BOOLEAN, locked : BOOLEAN]]
  BY DEF Members
<1>2. QED
  BY <1>1 DEF EvaluatorRooms

LEMMA MembersKnown ==
    /\ \A f \in RecruitRooms :
          /\ DOMAIN f \subseteq Recruits
          /\ \A r \in DOMAIN f : f[r] \in [room : 1..MaxRooms, locked : BOOLEAN]
    /\ \A f \in EvaluatorRooms :
          /\ DOMAIN f \subseteq Evaluators
          /\ \A e \in DOMAIN f : f[e] \in [room : 1..MaxRooms, mandatory : BOOLEAN, locked : BOOLEAN]
    /\ \A f \in PartialRooms(Evaluators) :
          /\ DOMAIN f \subseteq Evaluators
          /\ \A e \in DOMAIN f : f[e] \in 1..MaxRooms
<1>1. ASSUME NEW f \in RecruitRooms
      PROVE  /\ DOMAIN f \subseteq Recruits
             /\ \A r \in DOMAIN f : f[r] \in [room : 1..MaxRooms, locked : BOOLEAN]
  <2>1. PICK p \in SUBSET Recruits : f \in [p -> [room : 1..MaxRooms, locked : BOOLEAN]]
    BY DEF RecruitRooms
  <2>2. QED
    BY <2>1
<1>2. ASSUME NEW f \in EvaluatorRooms
      PROVE  /\ DOMAIN f \subseteq Evaluators
             /\ \A e \in DOMAIN f :
                   f[e] \in [room : 1..MaxRooms, mandatory : BOOLEAN, locked : BOOLEAN]
  <2>1. PICK p \in SUBSET Evaluators :
           f \in [p -> [room : 1..MaxRooms, mandatory : BOOLEAN, locked : BOOLEAN]]
    BY DEF EvaluatorRooms
  <2>2. QED
    BY <2>1
<1>3. ASSUME NEW f \in PartialRooms(Evaluators)
      PROVE  /\ DOMAIN f \subseteq Evaluators
             /\ \A e \in DOMAIN f : f[e] \in 1..MaxRooms
  <2>1. PICK p \in SUBSET Evaluators : f \in [p -> 1..MaxRooms]
    BY DEF PartialRooms
  <2>2. QED
    BY <2>1
<1>4. QED
  BY <1>1, <1>2, <1>3

LEMMA PartialRoomsTyped ==
    ASSUME NEW f, NEW p \in SUBSET Evaluators, f \in [p -> 1..MaxRooms]
    PROVE  f \in PartialRooms(Evaluators)
BY DEF PartialRooms

LEMMA EmptyMembers == Empty \in RecruitRooms /\ Empty \in EvaluatorRooms
<1>1. /\ Empty \in [{} -> [room : 1..MaxRooms, locked : BOOLEAN]]
      /\ Empty \in [{} -> [room : 1..MaxRooms, mandatory : BOOLEAN, locked : BOOLEAN]]
  BY DEF Empty
<1>2. {} \in SUBSET Recruits /\ {} \in SUBSET Evaluators
  OBVIOUS
<1>3. QED
  BY <1>1, <1>2 DEF RecruitRooms, EvaluatorRooms

LEMMA PlanTyped ==
    ASSUME NEW a \in RoomActivities, NEW status \in {"preview", "published", "superseded"},
           NEW revision \in 1..(MaxEdits + 1),
           NEW recruits \in RecruitRooms, NEW evaluators \in EvaluatorRooms
    PROVE  /\ Plan(a, status, revision, recruits, evaluators) \in Plans
           /\ Plan(a, status, revision, recruits, evaluators).revision = revision
           /\ Plan(a, status, revision, recruits, evaluators).recruits = recruits
           /\ Plan(a, status, revision, recruits, evaluators).evaluators = evaluators
BY DEF Plan, Plans

LEMMA DroppedTyped ==
    ASSUME NEW plan, plan.activity \in RoomActivities
    PROVE  Dropped(plan) \in Plans /\ Dropped(plan).revision = 1
<1>1. 1 \in 1..(MaxEdits + 1) /\ "superseded" \in {"preview", "published", "superseded"}
  BY RoomsAssumption
<1>2. QED
  BY <1>1, PlanTyped, EmptyMembers DEF Dropped

RevisionsFit == \A i \in DOMAIN plans : plans[i].revision <= edits + 1

RoomsInv == TypeOKRooms /\ RevisionsFit

LEMMA PlanKnown ==
    ASSUME RoomsInv, NEW i \in DOMAIN plans
    PROVE  /\ i \in 1..Len(plans) /\ plans[i] \in Plans
           /\ plans[i].activity \in RoomActivities
           /\ plans[i].status \in {"preview", "published", "superseded"}
           /\ plans[i].revision \in 1..(MaxEdits + 1) /\ plans[i].revision <= edits + 1
           /\ plans[i].recruits \in RecruitRooms /\ plans[i].evaluators \in EvaluatorRooms
<1>1. plans \in Seq(Plans)
  BY DEF RoomsInv, TypeOKRooms
<1>2. i \in 1..Len(plans) /\ plans[i] \in Plans
  BY <1>1
<1>3. QED
  BY <1>2 DEF RoomsInv, RevisionsFit, Plans

LEMMA SupersededTyped ==
    ASSUME RoomsInv, NEW a, NEW status
    PROVE  /\ Superseded(a, status) \in Seq(Plans)
           /\ Len(Superseded(a, status)) = Len(plans)
           /\ DOMAIN Superseded(a, status) = 1..Len(plans)
           /\ \A i \in 1..Len(plans) : Superseded(a, status)[i].revision <= edits + 1
<1>1. plans \in Seq(Plans) /\ Len(plans) \in Nat /\ DOMAIN plans = 1..Len(plans)
      /\ edits \in Nat /\ MaxEdits \in Nat
  BY RoomsAssumption DEF RoomsInv, TypeOKRooms
<1>2. ASSUME NEW i \in 1..Len(plans)
      PROVE  /\ Superseded(a, status)[i] \in Plans
             /\ Superseded(a, status)[i].revision <= edits + 1
  <2>1. plans[i] \in Plans /\ plans[i].activity \in RoomActivities /\ plans[i].revision <= edits + 1
    BY <1>1, PlanKnown
  <2>2. 1 <= edits + 1
    BY <1>1
  <2>3. Dropped(plans[i]) \in Plans /\ Dropped(plans[i]).revision = 1
    BY <2>1, DroppedTyped
  <2>4. Superseded(a, status)[i] \in {plans[i], Dropped(plans[i])}
    BY <1>1 DEF Superseded
  <2>5. QED
    BY <2>1, <2>2, <2>3, <2>4
<1>3. Superseded(a, status) \in [1..Len(plans) -> Plans]
  BY <1>1, <1>2 DEF Superseded
<1>4. QED
  BY <1>1, <1>2, <1>3

(* A new working plan is the last one.                                       *)
LEMMA WorkingTyped ==
    ASSUME RoomsInv, NEW a \in RoomActivities,
           NEW recruits \in RecruitRooms, NEW evaluators \in EvaluatorRooms
    PROVE  /\ Working(a, recruits, evaluators) \in Seq(Plans)
           /\ Len(Working(a, recruits, evaluators)) = Len(plans) + 1
           /\ Working(a, recruits, evaluators)[Len(plans) + 1].recruits = recruits
           /\ Working(a, recruits, evaluators)[Len(plans) + 1].evaluators = evaluators
           /\ \A i \in 1..(Len(plans) + 1) : Working(a, recruits, evaluators)[i].revision <= edits + 1
<1> DEFINE s == Superseded(a, "preview")
           p == Plan(a, "preview", 1, recruits, evaluators)
<1>1. edits \in Nat /\ MaxEdits \in Nat /\ Len(plans) \in Nat
  BY RoomsAssumption DEF RoomsInv, TypeOKRooms
<1>2. p \in Plans /\ p.revision = 1 /\ p.recruits = recruits /\ p.evaluators = evaluators
  BY <1>1, PlanTyped
<1>3. /\ s \in Seq(Plans) /\ Len(s) = Len(plans)
      /\ \A i \in 1..Len(plans) : s[i].revision <= edits + 1
  BY SupersededTyped
<1>4. Working(a, recruits, evaluators) = Append(s, p)
  BY DEF Working
<1> HIDE DEF s, p
<1>5. /\ Append(s, p) \in Seq(Plans) /\ Len(Append(s, p)) = Len(plans) + 1
      /\ Append(s, p)[Len(plans) + 1] = p
      /\ \A i \in 1..Len(plans) : Append(s, p)[i] = s[i]
  BY <1>1, <1>2, <1>3
<1>6. \A i \in 1..(Len(plans) + 1) : Append(s, p)[i].revision <= edits + 1
  <2> TAKE i \in 1..(Len(plans) + 1)
  <2>1. CASE i = Len(plans) + 1
    BY <1>1, <1>2, <1>5, <2>1
  <2>2. CASE i # Len(plans) + 1
    <3>1. i \in 1..Len(plans)
      BY <1>1, <2>2
    <3>2. QED
      BY <1>3, <1>5, <3>1
  <2>3. QED
    BY <2>1, <2>2
<1>7. QED
  BY <1>2, <1>4, <1>5, <1>6

LEMMA EnsuredTyped ==
    ASSUME RoomsInv, NEW a \in RoomActivities
    PROVE  /\ Ensured(a) \in [RoomActivities -> [rooms : 0..MaxRooms, version : Nat]]
           /\ Ensured(a)[a].rooms \in 0..MaxRooms
<1>1. /\ operation \in [RoomActivities -> [rooms : 0..MaxRooms, version : Nat]]
      /\ journeyRooms \in 1..MaxRooms /\ MaxRooms \in Nat
      /\ First \in RoomActivities
  BY RoomsAssumption DEF RoomsInv, TypeOKRooms, RoomActivities
<1>2. ASSUME NEW b \in RoomActivities
      PROVE  Ensured(a)[b] \in [rooms : 0..MaxRooms, version : Nat]
  <2>1. /\ operation[b] \in [rooms : 0..MaxRooms, version : Nat]
        /\ operation[First].rooms \in 0..MaxRooms /\ journeyRooms \in 0..MaxRooms
    BY <1>1
  <2>2. \/ Ensured(a)[b] = operation[b]
        \/ Ensured(a)[b] = [rooms |-> operation[First].rooms, version |-> 1]
        \/ Ensured(a)[b] = [rooms |-> journeyRooms, version |-> 1]
    BY DEF Ensured
  <2>3. QED
    BY <2>1, <2>2
<1>3. Ensured(a) \in [RoomActivities -> [rooms : 0..MaxRooms, version : Nat]]
  BY <1>2 DEF Ensured
<1>4. QED
  BY <1>3

LEMMA CountedTyped ==
    ASSUME RoomsInv, NEW a \in RoomActivities, NEW n \in 0..MaxRooms
    PROVE  Counted(a, n) \in [RoomActivities -> [rooms : 0..MaxRooms, version : Nat]]
<1>1. /\ Ensured(a) \in [RoomActivities -> [rooms : 0..MaxRooms, version : Nat]]
      /\ Ensured(a)[a].version + 1 \in Nat
  BY EnsuredTyped
<1>2. QED
  BY <1>1 DEF Counted

LEMMA SyncedTyped ==
    ASSUME RoomsInv, NEW a \in RoomActivities
    PROVE  \A b \in RoomActivities : DOMAIN Synced(a)[b] \in {{}, Evaluators}
<1> TAKE b \in RoomActivities
<1>1. DOMAIN available[b] \in {{}, Evaluators}
  BY DEF RoomsInv, TypeOKRooms
<1>2. CASE b \notin {a} \cup Before(a)
  BY <1>1, <1>2 DEF Synced
<1>3. CASE b \in {a} \cup Before(a) /\ b = First
  BY <1>3 DEF Synced
<1>4. CASE b \in {a} \cup Before(a) /\ b # First
  BY <1>4 DEF Synced
<1>5. QED
  BY <1>2, <1>3, <1>4

LEMMA LatestKnown ==
    ASSUME RoomsInv, NEW a, NEW status, Latest(a, status) # 0
    PROVE  Latest(a, status) \in DOMAIN plans
<1> DEFINE of == {i \in DOMAIN plans : plans[i].activity = a /\ plans[i].status = status}
<1>1. Len(plans) \in Nat /\ DOMAIN plans = 1..Len(plans)
  BY DEF RoomsInv, TypeOKRooms
<1>2. of # {} /\ Latest(a, status) = Max(of)
  BY DEF Latest
<1>3. Max(of) \in of
  BY <1>1, <1>2, MaxOfRange
<1>4. QED
  BY <1>2, <1>3

LEMMA CurrentKnown ==
    ASSUME RoomsInv, NEW a
    PROVE  /\ Current(a) # 0 => Current(a) \in DOMAIN plans
           /\ Source(a) # 0 => Source(a) \in DOMAIN plans
BY LatestKnown DEF Current, Source

(* The half of the current plan that is kept.                                *)
LEMMA KeptTyped ==
    ASSUME RoomsInv, NEW a \in RoomActivities
    PROVE  /\ DOMAIN KeptRecruits(a) \subseteq attending
           /\ \A r \in DOMAIN KeptRecruits(a) : KeptRecruits(a)[r] \in 1..MaxRooms
           /\ DOMAIN KeptEvaluators(a) \subseteq Free(a)
           /\ \A e \in DOMAIN KeptEvaluators(a) : KeptEvaluators(a)[e] \in 1..MaxRooms
           /\ Current(a) # 0 =>
                 /\ \A r \in DOMAIN plans[Current(a)].recruits \cap attending :
                       /\ r \in DOMAIN KeptRecruits(a)
                       /\ KeptRecruits(a)[r] = plans[Current(a)].recruits[r].room
                 /\ \A e \in DOMAIN plans[Current(a)].evaluators \cap Free(a) :
                       /\ e \in DOMAIN KeptEvaluators(a)
                       /\ KeptEvaluators(a)[e] = plans[Current(a)].evaluators[e].room
<1>1. CASE Current(a) = 0
  BY <1>1 DEF KeptRecruits, KeptEvaluators, Empty
<1>2. CASE Current(a) # 0
  <2> DEFINE plan == plans[Current(a)]
  <2>1. plan.recruits \in RecruitRooms /\ plan.evaluators \in EvaluatorRooms
    BY <1>2, CurrentKnown, PlanKnown
  <2>2. /\ \A r \in DOMAIN plan.recruits : plan.recruits[r].room \in 1..MaxRooms
        /\ \A e \in DOMAIN plan.evaluators : plan.evaluators[e].room \in 1..MaxRooms
    BY <2>1, MembersKnown
  <2>3. /\ KeptRecruits(a) = [r \in DOMAIN plan.recruits \cap attending |-> plan.recruits[r].room]
        /\ KeptEvaluators(a) = [e \in DOMAIN plan.evaluators \cap Free(a) |-> plan.evaluators[e].room]
    BY <1>2 DEF KeptRecruits, KeptEvaluators, Placed, Rooms
  <2>4. QED
    BY <2>2, <2>3
<1>3. QED
  BY <1>1, <1>2

-----------------------------------------------------------------------------
LEMMA InitRoomsInv == InitRooms => RoomsInv
<1> SUFFICES ASSUME InitRooms
             PROVE  RoomsInv
  OBVIOUS
<1>1. Empty \in PartialRooms(Evaluators) /\ DOMAIN Empty = {}
  <2>1. Empty \in [{} -> 1..MaxRooms] /\ {} \in SUBSET Evaluators
    BY DEF Empty
  <2>2. QED
    BY <2>1, PartialRoomsTyped DEF Empty
<1>2. /\ attending \subseteq Recruits /\ staff \subseteq Evaluators /\ journeyRooms \in 1..MaxRooms
      /\ settings \in 0..MaxSettings /\ edits \in 0..MaxEdits
  BY RoomsAssumption DEF InitRooms
<1>3. operation \in [RoomActivities -> [rooms : 0..MaxRooms, version : Nat]]
  <2>1. NoOperation \in [rooms : 0..MaxRooms, version : Nat]
    BY RoomsAssumption DEF NoOperation
  <2>2. QED
    BY <2>1 DEF InitRooms
<1>4. plans = <<>> /\ plans \in Seq(Plans) /\ Len(plans) = 0 /\ DOMAIN plans = {}
  BY DEF InitRooms
<1>5. QED
  BY <1>1, <1>2, <1>3, <1>4, RoomsAssumption DEF InitRooms, RoomsInv, TypeOKRooms, RevisionsFit

(* The plans as one of their operators made them, the rest typed.            *)
LEMMA TypedKeepsInv ==
    ASSUME RoomsInv,
           attending' \subseteq Recruits, staff' \subseteq Evaluators, journeyRooms' \in 1..MaxRooms,
           operation' \in [RoomActivities -> [rooms : 0..MaxRooms, version : Nat]],
           \A a \in RoomActivities : DOMAIN available'[a] \in {{}, Evaluators},
           mandatory' \in [RoomActivities -> PartialRooms(Evaluators)],
           legacyMandatory' \in PartialRooms(Evaluators),
           settings' \in 0..MaxSettings, edits' \in 0..MaxEdits,
           plans' \in Seq(Plans), Len(plans') <= MaxPlans,
           \A i \in 1..Len(plans') : plans'[i].revision <= edits' + 1
    PROVE  RoomsInv'
<1>1. DOMAIN plans' = 1..Len(plans')
  OBVIOUS
<1>2. QED
  BY <1>1 DEF RoomsInv, TypeOKRooms, RevisionsFit

LEMMA NewPlanKeepsInv ==
    ASSUME RoomsInv, NEW a \in RoomActivities, NEW recruits \in RecruitRooms,
           NEW evaluators \in EvaluatorRooms, Len(plans) < MaxPlans,
           plans' = Working(a, recruits, evaluators),
           operation' \in [RoomActivities -> [rooms : 0..MaxRooms, version : Nat]],
           \A b \in RoomActivities : DOMAIN available'[b] \in {{}, Evaluators},
           mandatory' \in [RoomActivities -> PartialRooms(Evaluators)],
           UNCHANGED <<attending, staff, journeyRooms, legacyMandatory, settings, edits>>
    PROVE  RoomsInv'
<1>1. /\ plans' \in Seq(Plans) /\ Len(plans') = Len(plans) + 1
      /\ \A i \in 1..(Len(plans) + 1) : plans'[i].revision <= edits + 1
  BY WorkingTyped
<1>2. Len(plans') <= MaxPlans
  BY <1>1, RoomsAssumption DEF RoomsInv, TypeOKRooms
<1>3. \A i \in 1..Len(plans') : plans'[i].revision <= edits' + 1
  BY <1>1
<1>4. QED
  BY <1>1, <1>2, <1>3, TypedKeepsInv DEF RoomsInv, TypeOKRooms

(* A preview of activity a, its operation ensured, the settings as they were. *)
LEMMA PreviewKeepsInv ==
    ASSUME RoomsInv, NEW a \in RoomActivities, NEW recruits \in RecruitRooms,
           NEW evaluators \in EvaluatorRooms, Len(plans) < MaxPlans,
           plans' = Working(a, recruits, evaluators), Ensure(a), UnchangedSettings
    PROVE  RoomsInv'
<1>1. /\ operation' = Ensured(a) /\ available' = Synced(a)
      /\ UNCHANGED <<attending, staff, journeyRooms, legacyMandatory, settings, edits, mandatory>>
  BY DEF Ensure, UnchangedSettings, SameSettings
<1>2. operation' \in [RoomActivities -> [rooms : 0..MaxRooms, version : Nat]]
  BY <1>1, EnsuredTyped
<1>3. \A b \in RoomActivities : DOMAIN available'[b] \in {{}, Evaluators}
  BY <1>1, SyncedTyped
<1>4. mandatory' \in [RoomActivities -> PartialRooms(Evaluators)]
  BY <1>1 DEF RoomsInv, TypeOKRooms
<1>5. QED
  BY <1>1, <1>2, <1>3, <1>4, NewPlanKeepsInv

LEMMA PreviewFullKeepsInv ==
    ASSUME RoomsInv, NEW a \in RoomActivities, PreviewFull(a)
    PROVE  RoomsInv'
<1> DEFINE n == Ensured(a)[a].rooms
<1>1. n \in 0..MaxRooms /\ MaxRooms \in Nat /\ attending \subseteq Recruits
  BY EnsuredTyped, RoomsAssumption DEF RoomsInv, TypeOKRooms
<1>2. Len(plans) < MaxPlans /\ Ensure(a) /\ UnchangedSettings
  BY DEF PreviewFull
<1>3. PICK f \in Dealt(attending, n), g \in Seated(Free(a), mandatory[a], Empty, n) :
         plans' = Working(a, WithLocks(f, {}), Members(g, SeatedMust(a, n), {}))
  BY DEF PreviewFull
<1>4. f \in [attending -> 1..n] /\ g \in [Free(a) -> 1..n]
  BY DEF Dealt, Seated
<1> HIDE DEF n
<1>5. WithLocks(f, {}) \in RecruitRooms
  <2>1. DOMAIN f \subseteq Recruits /\ \A r \in DOMAIN f : f[r] \in 1..MaxRooms
    BY <1>1, <1>4
  <2>2. QED
    BY <2>1, WithLocksTyped
<1>6. Members(g, SeatedMust(a, n), {}) \in EvaluatorRooms
  <2>1. DOMAIN g \subseteq Evaluators /\ \A e \in DOMAIN g : g[e] \in 1..MaxRooms
    BY <1>1, <1>4 DEF Free
  <2>2. QED
    BY <2>1, MembersTyped
<1>7. QED
  BY <1>2, <1>3, <1>5, <1>6, PreviewKeepsInv

LEMMA RecruitsKept ==
    ASSUME RoomsInv, NEW a \in RoomActivities, Current(a) # 0,
           NEW r \in LockedIn(plans[Current(a)].recruits) \cap attending
    PROVE  /\ r \in DOMAIN KeptRecruits(a) /\ r \in RecruitLocks(a)
           /\ plans[Current(a)].recruits[r] = [room |-> KeptRecruits(a)[r], locked |-> TRUE]
<1> DEFINE old == plans[Current(a)]
<1>1. old.recruits \in RecruitRooms
  BY CurrentKnown, PlanKnown
<1>2. /\ r \in DOMAIN old.recruits /\ old.recruits[r] \in [room : 1..MaxRooms, locked : BOOLEAN]
      /\ old.recruits[r].locked
  BY <1>1, MembersKnown DEF LockedIn
<1>3. r \in DOMAIN KeptRecruits(a) /\ KeptRecruits(a)[r] = old.recruits[r].room
  BY <1>2, KeptTyped
<1>4. old.recruits[r] = [room |-> old.recruits[r].room, locked |-> TRUE]
  BY <1>2
<1>5. r \in RecruitLocks(a)
  BY DEF RecruitLocks
<1>6. QED
  BY <1>3, <1>4, <1>5

(* A locked evaluator, mandatory neither now nor in the plan.                *)
LEMMA EvaluatorsKept ==
    ASSUME RoomsInv, NEW a \in RoomActivities, Current(a) # 0,
           NEW e \in LockedIn(plans[Current(a)].evaluators) \cap Free(a),
           ~plans[Current(a)].evaluators[e].mandatory
    PROVE  /\ e \in DOMAIN KeptEvaluators(a) /\ e \in EvaluatorLocks(a)
           /\ plans[Current(a)].evaluators[e]
                 = [room |-> KeptEvaluators(a)[e], mandatory |-> FALSE, locked |-> TRUE]
<1> DEFINE old == plans[Current(a)]
<1>1. old.evaluators \in EvaluatorRooms
  BY CurrentKnown, PlanKnown
<1>2. /\ e \in DOMAIN old.evaluators /\ old.evaluators[e].locked
      /\ old.evaluators[e] \in [room : 1..MaxRooms, mandatory : BOOLEAN, locked : BOOLEAN]
  BY <1>1, MembersKnown DEF LockedIn
<1>3. e \in DOMAIN KeptEvaluators(a) /\ KeptEvaluators(a)[e] = old.evaluators[e].room
  BY <1>2, KeptTyped
<1>4. old.evaluators[e] = [room |-> old.evaluators[e].room, mandatory |-> FALSE, locked |-> TRUE]
  BY <1>2
<1>5. e \in EvaluatorLocks(a)
  BY DEF EvaluatorLocks
<1>6. QED
  BY <1>3, <1>4, <1>5

(* Only the recruits are seated again: what the plan and its locks become.   *)
LEMMA PreviewRecruitsResult ==
    ASSUME RoomsInv, NEW a \in RoomActivities, PreviewRecruits(a)
    PROVE  \E recruits \in RecruitRooms, evaluators \in EvaluatorRooms :
              /\ plans' = Working(a, recruits, evaluators)
              /\ Current(a) # 0 =>
                    LET old == plans[Current(a)]
                    IN  /\ \A r \in LockedIn(old.recruits) \cap attending :
                              recruits[r] = old.recruits[r]
                        /\ \A e \in LockedIn(old.evaluators) \cap Free(a) :
                              \/ e \in DOMAIN mandatory[a] \/ old.evaluators[e].mandatory
                              \/ evaluators[e] = old.evaluators[e]
<1> DEFINE locks == RecruitLocks(a)
           seats == KeptEvaluators(a)
           must == {e \in DOMAIN seats \cap DOMAIN mandatory[a] : seats[e] = mandatory[a][e]}
           seated == Placed(KeptRecruits(a), locks)
           n == Ensured(a)[a].rooms
           old == plans[Current(a)]
<1>1. PICK f \in Refilled(attending, seated, n) :
         plans' = Working(a, WithLocks(f, locks), Members(seats, must, EvaluatorLocks(a)))
  BY DEF PreviewRecruits
<1>2. /\ f \in [attending -> 1..MaxRooms]
      /\ \A r \in attending \cap DOMAIN seated : f[r] = seated[r]
  BY DEF Refilled
<1>3. attending \subseteq Recruits
  BY DEF RoomsInv, TypeOKRooms
<1>4. WithLocks(f, locks) \in RecruitRooms
  <2>1. DOMAIN f \subseteq Recruits /\ \A r \in DOMAIN f : f[r] \in 1..MaxRooms
    BY <1>2, <1>3
  <2>2. QED
    BY <2>1, WithLocksTyped
<1>5. Members(seats, must, EvaluatorLocks(a)) \in EvaluatorRooms
  <2>1. DOMAIN seats \subseteq Evaluators /\ \A e \in DOMAIN seats : seats[e] \in 1..MaxRooms
    BY KeptTyped DEF Free
  <2>2. QED
    BY <2>1, MembersTyped
<1>6. ASSUME Current(a) # 0, NEW r \in LockedIn(old.recruits) \cap attending
      PROVE  WithLocks(f, locks)[r] = old.recruits[r]
  <2>1. /\ r \in DOMAIN KeptRecruits(a) /\ r \in locks /\ r \in attending
        /\ old.recruits[r] = [room |-> KeptRecruits(a)[r], locked |-> TRUE]
    BY <1>6, RecruitsKept
  <2>2. r \in DOMAIN seated /\ seated[r] = KeptRecruits(a)[r]
    BY <2>1 DEF Placed
  <2>3. f[r] = KeptRecruits(a)[r] /\ r \in DOMAIN f /\ (r \in locks) = TRUE
    BY <1>2, <2>1, <2>2
  <2>4. QED
    BY <2>1, <2>3 DEF WithLocks
<1>7. ASSUME Current(a) # 0, NEW e \in LockedIn(old.evaluators) \cap Free(a),
             e \notin DOMAIN mandatory[a], ~old.evaluators[e].mandatory
      PROVE  Members(seats, must, EvaluatorLocks(a))[e] = old.evaluators[e]
  <2>1. /\ e \in DOMAIN seats /\ e \in EvaluatorLocks(a)
        /\ old.evaluators[e] = [room |-> seats[e], mandatory |-> FALSE, locked |-> TRUE]
    BY <1>7, EvaluatorsKept
  <2>2. (e \in must) = FALSE /\ (e \in EvaluatorLocks(a)) = TRUE
    BY <1>7, <2>1
  <2>3. QED
    BY <2>1, <2>2 DEF Members
<1> HIDE DEF locks, seats, must, seated, n
<1>8. QED
  BY <1>1, <1>4, <1>5, <1>6, <1>7

(* Only the evaluators are distributed again.                                *)
LEMMA PreviewEvaluatorsResult ==
    ASSUME RoomsInv, NEW a \in RoomActivities, PreviewEvaluators(a)
    PROVE  \E recruits \in RecruitRooms, evaluators \in EvaluatorRooms :
              /\ plans' = Working(a, recruits, evaluators)
              /\ Current(a) # 0 =>
                    LET old == plans[Current(a)]
                    IN  /\ \A r \in LockedIn(old.recruits) \cap attending :
                              recruits[r] = old.recruits[r]
                        /\ \A e \in LockedIn(old.evaluators) \cap Free(a) :
                              \/ old.evaluators[e].room > operation'[a].rooms
                              \/ e \in DOMAIN mandatory[a] \/ old.evaluators[e].mandatory
                              \/ evaluators[e] = old.evaluators[e]
<1> DEFINE n == Ensured(a)[a].rooms
           rooms == KeptRecruits(a)
           locks == EvaluatorLocks(a)
           seated == Placed(KeptEvaluators(a), locks)
           old == plans[Current(a)]
<1>1. PICK g \in Seated(Free(a), mandatory[a], seated, n) :
         plans' = Working(a, WithLocks(rooms, RecruitLocks(a)), Members(g, SeatedMust(a, n), locks))
  BY DEF PreviewEvaluators
<1>2. g \in [Free(a) -> 1..n]
  BY DEF Seated
<1>3. operation'[a].rooms = n /\ n \in 0..MaxRooms /\ MaxRooms \in Nat /\ attending \subseteq Recruits
  BY EnsuredTyped, RoomsAssumption DEF PreviewEvaluators, Ensure, RoomsInv, TypeOKRooms
<1>4. WithLocks(rooms, RecruitLocks(a)) \in RecruitRooms
  <2>1. DOMAIN rooms \subseteq Recruits /\ \A r \in DOMAIN rooms : rooms[r] \in 1..MaxRooms
    BY <1>3, KeptTyped
  <2>2. QED
    BY <2>1, WithLocksTyped
<1>5. Members(g, SeatedMust(a, n), locks) \in EvaluatorRooms
  <2> HIDE DEF n
  <2>1. DOMAIN g \subseteq Evaluators /\ \A e \in DOMAIN g : g[e] \in 1..MaxRooms
    BY <1>2, <1>3 DEF Free
  <2>2. QED
    BY <2>1, MembersTyped
<1>6. ASSUME Current(a) # 0, NEW r \in LockedIn(old.recruits) \cap attending
      PROVE  WithLocks(rooms, RecruitLocks(a))[r] = old.recruits[r]
  <2>1. /\ r \in DOMAIN rooms /\ r \in RecruitLocks(a)
        /\ old.recruits[r] = [room |-> rooms[r], locked |-> TRUE]
    BY <1>6, RecruitsKept
  <2>2. (r \in RecruitLocks(a)) = TRUE
    BY <2>1
  <2>3. QED
    BY <2>1, <2>2 DEF WithLocks
<1>7. ASSUME Current(a) # 0, NEW e \in LockedIn(old.evaluators) \cap Free(a),
             ~(old.evaluators[e].room > n),
             e \notin DOMAIN mandatory[a], ~old.evaluators[e].mandatory
      PROVE  Members(g, SeatedMust(a, n), locks)[e] = old.evaluators[e]
  <2>1. /\ e \in DOMAIN KeptEvaluators(a) /\ e \in locks /\ e \in Free(a)
        /\ old.evaluators[e] = [room |-> KeptEvaluators(a)[e], mandatory |-> FALSE, locked |-> TRUE]
    BY <1>7, EvaluatorsKept
  <2>2. KeptEvaluators(a)[e] \in 1..MaxRooms
    BY <2>1, KeptTyped
  <2>3. e \in DOMAIN seated /\ seated[e] = KeptEvaluators(a)[e]
    BY <2>1 DEF Placed
  <2>4. seated[e] <= n
    <3>1. old.evaluators[e].room = KeptEvaluators(a)[e]
      BY <2>1
    <3> HIDE DEF n, old, seated
    <3>2. QED
      BY <1>3, <1>7, <2>2, <2>3, <3>1
  <2>5. g[e] = seated[e]
    BY <1>7, <2>1, <2>3, <2>4 DEF Seated
  <2>6. (e \in SeatedMust(a, n)) = FALSE /\ (e \in locks) = TRUE
    BY <1>7, <2>1 DEF SeatedMust
  <2>7. e \in DOMAIN g
    BY <1>2, <2>1
  <2>8. QED
    BY <2>1, <2>3, <2>5, <2>6, <2>7 DEF Members
<1> HIDE DEF n, rooms, locks, seated
<1>8. QED
  BY <1>1, <1>3, <1>4, <1>5, <1>6, <1>7

LEMMA PreviewHalfKeepsInv ==
    ASSUME RoomsInv, NEW a \in RoomActivities, PreviewRecruits(a) \/ PreviewEvaluators(a)
    PROVE  RoomsInv'
<1>1. Len(plans) < MaxPlans /\ Ensure(a) /\ UnchangedSettings
  BY DEF PreviewRecruits, PreviewEvaluators
<1>2. \E recruits \in RecruitRooms, evaluators \in EvaluatorRooms :
         plans' = Working(a, recruits, evaluators)
  BY PreviewRecruitsResult, PreviewEvaluatorsResult
<1>3. QED
  BY <1>1, <1>2, PreviewKeepsInv

(* The rooms of the activity before, as far as its people are still there.   *)
LEMMA SourceTyped ==
    ASSUME RoomsInv, NEW a, Source(a) # 0
    PROVE  LET source == plans[Source(a)]
               rooms == Placed(Rooms(source.recruits), attending)
               seats == Placed(Rooms(source.evaluators), Free(Second))
           IN  /\ DOMAIN rooms \subseteq Recruits
               /\ \A r \in DOMAIN rooms : rooms[r] \in 1..MaxRooms
               /\ DOMAIN seats \subseteq Evaluators
               /\ \A e \in DOMAIN seats : seats[e] \in 1..MaxRooms
<1> DEFINE source == plans[Source(a)]
<1>1. source.recruits \in RecruitRooms /\ source.evaluators \in EvaluatorRooms
  BY CurrentKnown, PlanKnown
<1>2. /\ \A r \in DOMAIN source.recruits : source.recruits[r].room \in 1..MaxRooms
      /\ \A e \in DOMAIN source.evaluators : source.evaluators[e].room \in 1..MaxRooms
      /\ DOMAIN source.recruits \subseteq Recruits /\ DOMAIN source.evaluators \subseteq Evaluators
  BY <1>1, MembersKnown
<1>3. /\ Placed(Rooms(source.recruits), attending)
            = [r \in DOMAIN source.recruits \cap attending |-> source.recruits[r].room]
      /\ Placed(Rooms(source.evaluators), Free(Second))
            = [e \in DOMAIN source.evaluators \cap Free(Second) |-> source.evaluators[e].room]
  BY DEF Placed, Rooms
<1>4. QED
  BY <1>2, <1>3

LEMMA CopyRecruitsKeepsInv ==
    ASSUME RoomsInv, CopyRecruits
    PROVE  RoomsInv'
<1> DEFINE n == Ensured(Second)[Second].rooms
           rooms == Placed(Rooms(plans[Source(Second)].recruits), attending)
<1>1. /\ Len(plans) < MaxPlans /\ Source(Second) # 0 /\ Second \in RoomActivities
      /\ Ensure(Second) /\ UnchangedSettings
  BY DEF CopyRecruits, RoomActivities
<1>2. PICK g \in Seated(Free(Second), mandatory[Second], Empty, n) :
         plans' = Working(Second, WithLocks(rooms, DOMAIN rooms),
                          Members(g, SeatedMust(Second, n), EvaluatorLocks(Second)))
  BY DEF CopyRecruits
<1>3. g \in [Free(Second) -> 1..n]
  BY DEF Seated
<1>4. n \in 0..MaxRooms /\ MaxRooms \in Nat
  BY <1>1, EnsuredTyped, RoomsAssumption
<1>5. WithLocks(rooms, DOMAIN rooms) \in RecruitRooms
  BY <1>1, SourceTyped, WithLocksTyped
<1>6. Members(g, SeatedMust(Second, n), EvaluatorLocks(Second)) \in EvaluatorRooms
  <2> HIDE DEF n
  <2>1. DOMAIN g \subseteq Evaluators /\ \A e \in DOMAIN g : g[e] \in 1..MaxRooms
    BY <1>3, <1>4 DEF Free
  <2>2. QED
    BY <2>1, MembersTyped
<1> HIDE DEF n, rooms
<1>7. QED
  BY <1>1, <1>2, <1>5, <1>6, PreviewKeepsInv

LEMMA CopyFullKeepsInv ==
    ASSUME RoomsInv, CopyFull
    PROVE  RoomsInv'
<1> DEFINE source == plans[Source(Second)]
           rooms == Placed(Rooms(source.recruits), attending)
           seats == Placed(Rooms(source.evaluators), Free(Second))
           must == Placed(mandatory[First], Free(Second))
           locks == {e \in LockedIn(source.evaluators) \cap Free(Second) :
                        ~source.evaluators[e].mandatory}
           recruits == WithLocks(rooms, LockedIn(source.recruits) \cap attending)
           evaluators == Members(seats, DOMAIN must, locks)
<1>1. /\ Len(plans) < MaxPlans /\ Source(Second) # 0
      /\ plans' = Working(Second, recruits, evaluators)
      /\ mandatory' = [mandatory EXCEPT ![Second] = must]
      /\ operation' = Counted(Second, Ensured(Second)[First].rooms)
      /\ available' = Synced(Second)
      /\ UNCHANGED <<attending, staff, journeyRooms, legacyMandatory, settings, edits>>
      /\ First \in RoomActivities /\ Second \in RoomActivities
  BY DEF CopyFull, RoomActivities
<1>2. recruits \in RecruitRooms
  BY <1>1, SourceTyped, WithLocksTyped
<1>3. evaluators \in EvaluatorRooms
  BY <1>1, SourceTyped, MembersTyped
<1>4. must \in PartialRooms(Evaluators)
  <2>1. mandatory[First] \in PartialRooms(Evaluators)
    BY <1>1 DEF RoomsInv, TypeOKRooms
  <2>2. \A e \in DOMAIN mandatory[First] : mandatory[First][e] \in 1..MaxRooms
    BY <2>1, MembersKnown
  <2>3. must \in [DOMAIN mandatory[First] \cap Free(Second) -> 1..MaxRooms]
    BY <2>2 DEF Placed
  <2>4. DOMAIN mandatory[First] \cap Free(Second) \in SUBSET Evaluators
    BY DEF Free
  <2>5. QED
    BY <2>3, <2>4, PartialRoomsTyped
<1>5. mandatory' \in [RoomActivities -> PartialRooms(Evaluators)]
  <2> HIDE DEF must
  <2>1. QED
    BY <1>1, <1>4 DEF RoomsInv, TypeOKRooms
<1>6. operation' \in [RoomActivities -> [rooms : 0..MaxRooms, version : Nat]]
  <2>1. Ensured(Second)[First].rooms \in 0..MaxRooms
    BY <1>1, EnsuredTyped
  <2>2. QED
    BY <1>1, <2>1, CountedTyped
<1>7. \A b \in RoomActivities : DOMAIN available'[b] \in {{}, Evaluators}
  BY <1>1, SyncedTyped
<1> HIDE DEF recruits, evaluators
<1>8. QED
  BY <1>1, <1>2, <1>3, <1>5, <1>6, <1>7, NewPlanKeepsInv

LEMMA EditPublishedRoomsKeepsInv ==
    ASSUME RoomsInv, NEW a \in RoomActivities, EditPublishedRooms(a)
    PROVE  RoomsInv'
<1> DEFINE i == Latest(a, "published")
<1>1. /\ Len(plans) < MaxPlans /\ i # 0
      /\ plans' = Working(a, plans[i].recruits, plans[i].evaluators)
      /\ UNCHANGED <<operation, available, attending, staff, journeyRooms, mandatory,
                     legacyMandatory, settings, edits>>
  BY DEF EditPublishedRooms, UnchangedSettings, SameSettings
<1>2. plans[i].recruits \in RecruitRooms /\ plans[i].evaluators \in EvaluatorRooms
  BY <1>1, LatestKnown, PlanKnown
<1>3. /\ operation' \in [RoomActivities -> [rooms : 0..MaxRooms, version : Nat]]
      /\ \A b \in RoomActivities : DOMAIN available'[b] \in {{}, Evaluators}
      /\ mandatory' \in [RoomActivities -> PartialRooms(Evaluators)]
  BY <1>1 DEF RoomsInv, TypeOKRooms
<1> HIDE DEF i
<1>4. QED
  BY <1>1, <1>2, <1>3, NewPlanKeepsInv

(* One plan is replaced, edited or published.                                *)
LEMMA OnePlanKeepsInv ==
    ASSUME RoomsInv, NEW i \in DOMAIN plans, NEW p \in Plans,
           NEW others \in Seq(Plans), Len(others) = Len(plans),
           \A k \in 1..Len(plans) : others[k].revision <= edits + 1,
           plans' = [others EXCEPT ![i] = p],
           edits' \in 0..MaxEdits, edits <= edits', p.revision <= edits' + 1,
           operation' \in [RoomActivities -> [rooms : 0..MaxRooms, version : Nat]],
           \A b \in RoomActivities : DOMAIN available'[b] \in {{}, Evaluators},
           SameSettings
    PROVE  RoomsInv'
<1>1. i \in 1..Len(plans) /\ edits \in Nat /\ Len(plans) \in Nat /\ MaxEdits \in Nat
  BY PlanKnown, RoomsAssumption DEF RoomsInv, TypeOKRooms
<1>2. /\ plans' \in Seq(Plans) /\ Len(plans') = Len(plans)
      /\ \A k \in 1..Len(plans) : plans'[k] = IF k = i THEN p ELSE others[k]
  BY <1>1
<1>3. Len(plans') <= MaxPlans
  BY <1>2 DEF RoomsInv, TypeOKRooms
<1>4. \A k \in 1..Len(plans') : plans'[k].revision <= edits' + 1
  <2> TAKE k \in 1..Len(plans')
  <2>1. CASE k = i
    BY <1>2, <2>1
  <2>2. CASE k # i
    <3>1. others[k] \in Plans /\ plans'[k] = others[k] /\ others[k].revision <= edits + 1
      BY <1>1, <1>2, <2>2
    <3>2. others[k].revision \in 1..(MaxEdits + 1)
      BY <3>1 DEF Plans
    <3>3. others[k].revision \in Nat /\ edits' \in Nat
      BY <1>1, <3>2
    <3>4. QED
      BY <1>1, <3>1, <3>3
  <2>3. QED
    BY <2>1, <2>2
<1>5. QED
  BY <1>2, <1>3, <1>4, TypedKeepsInv DEF SameSettings, RoomsInv, TypeOKRooms

LEMMA SamePlans ==
    ASSUME RoomsInv
    PROVE  /\ plans \in Seq(Plans) /\ Len(plans) <= MaxPlans
           /\ \A k \in 1..Len(plans) : plans[k].revision <= edits + 1
<1>1. plans \in Seq(Plans) /\ Len(plans) <= MaxPlans /\ DOMAIN plans = 1..Len(plans)
  BY DEF RoomsInv, TypeOKRooms
<1>2. QED
  BY <1>1 DEF RoomsInv, RevisionsFit

LEMMA EditRoomsKeepsInv ==
    ASSUME RoomsInv, NEW i \in DOMAIN plans, NEW rooms, NEW locks, NEW seats, NEW seatLocks,
           EditRooms(i, rooms, locks, seats, seatLocks),
           DOMAIN rooms \subseteq Recruits, \A r \in DOMAIN rooms : rooms[r] \in 1..MaxRooms,
           DOMAIN seats \subseteq Evaluators, \A e \in DOMAIN seats : seats[e] \in 1..MaxRooms
    PROVE  RoomsInv'
<1> DEFINE a == plans[i].activity
           must == {e \in DOMAIN seats \cap DOMAIN mandatory[a] : seats[e] = mandatory[a][e]}
           p == Plan(a, "preview", plans[i].revision + 1, WithLocks(rooms, locks),
                     Members(seats, must, seatLocks \ must))
<1>1. /\ edits < MaxEdits /\ edits' = edits + 1 /\ plans' = [plans EXCEPT ![i] = p]
      /\ operation' = Ensured(a) /\ available' = Synced(a) /\ SameSettings
  BY DEF EditRooms, Ensure
<1>2. /\ a \in RoomActivities /\ plans[i].revision \in 1..(MaxEdits + 1)
      /\ plans[i].revision <= edits + 1 /\ edits \in 0..MaxEdits /\ MaxEdits \in Nat
  BY PlanKnown, RoomsAssumption DEF RoomsInv, TypeOKRooms
<1>3. plans[i].revision + 1 \in 1..(MaxEdits + 1) /\ plans[i].revision + 1 <= edits' + 1
      /\ edits' \in 0..MaxEdits /\ edits <= edits'
  BY <1>1, <1>2
<1>4. WithLocks(rooms, locks) \in RecruitRooms /\ Members(seats, must, seatLocks \ must) \in EvaluatorRooms
  BY WithLocksTyped, MembersTyped
<1>5. p \in Plans /\ p.revision = plans[i].revision + 1
  BY <1>2, <1>3, <1>4, PlanTyped
<1>6. operation' \in [RoomActivities -> [rooms : 0..MaxRooms, version : Nat]]
  BY <1>1, <1>2, EnsuredTyped
<1>7. \A b \in RoomActivities : DOMAIN available'[b] \in {{}, Evaluators}
  BY <1>1, <1>2, SyncedTyped
<1> HIDE DEF p, a
<1>8. QED
  BY <1>1, <1>3, <1>5, <1>6, <1>7, SamePlans, OnePlanKeepsInv

LEMMA EditOneKeepsInv ==
    ASSUME RoomsInv, NEW i \in DOMAIN plans, NEW p \in Recruits \cup Evaluators,
           NEW room \in 0..MaxRooms, NEW lock \in BOOLEAN, EditOne(i, p, room, lock)
    PROVE  RoomsInv'
<1> DEFINE Moved(rooms) ==
               IF room = 0 THEN Placed(rooms, DOMAIN rooms \ {p})
               ELSE [q \in DOMAIN rooms \cup {p} |-> IF q = p THEN room ELSE rooms[q]]
           Relocked(locks) == IF lock /\ room # 0 THEN locks \cup {p} ELSE locks \ {p}
           rooms == Rooms(plans[i].recruits)
           locks == LockedIn(plans[i].recruits)
           seats == Rooms(plans[i].evaluators)
           seatLocks == LockedIn(plans[i].evaluators)
<1>1. /\ DOMAIN rooms \subseteq Recruits /\ \A r \in DOMAIN rooms : rooms[r] \in 1..MaxRooms
      /\ DOMAIN seats \subseteq Evaluators /\ \A e \in DOMAIN seats : seats[e] \in 1..MaxRooms
  <2>1. plans[i].recruits \in RecruitRooms /\ plans[i].evaluators \in EvaluatorRooms
    BY PlanKnown
  <2>2. QED
    BY <2>1, MembersKnown DEF Rooms
<1>2. ASSUME NEW f, \A q \in DOMAIN f : f[q] \in 1..MaxRooms
      PROVE  /\ DOMAIN Moved(f) \subseteq DOMAIN f \cup {p}
             /\ \A q \in DOMAIN Moved(f) : Moved(f)[q] \in 1..MaxRooms
  <2>1. MaxRooms \in Nat
    BY RoomsAssumption
  <2>2. CASE room = 0
    BY <1>2, <2>2 DEF Placed
  <2>3. CASE room # 0
    <3>1. room \in 1..MaxRooms
      BY <2>1, <2>3
    <3>2. QED
      BY <1>2, <2>3, <3>1
  <2>4. QED
    BY <2>2, <2>3
<1>3. /\ DOMAIN Moved(rooms) \subseteq DOMAIN rooms \cup {p}
      /\ \A r \in DOMAIN Moved(rooms) : Moved(rooms)[r] \in 1..MaxRooms
  BY <1>1, <1>2
<1>4. /\ DOMAIN Moved(seats) \subseteq DOMAIN seats \cup {p}
      /\ \A e \in DOMAIN Moved(seats) : Moved(seats)[e] \in 1..MaxRooms
  BY <1>1, <1>2
<1>5. \/ p \in Recruits /\ EditRooms(i, Moved(rooms), Relocked(locks), seats, seatLocks)
      \/ p \in Evaluators /\ EditRooms(i, rooms, locks, Moved(seats), Relocked(seatLocks))
  BY DEF EditOne
<1> HIDE DEF Moved, Relocked, rooms, locks, seats, seatLocks
<1>6. CASE p \in Recruits /\ EditRooms(i, Moved(rooms), Relocked(locks), seats, seatLocks)
  <2>1. DOMAIN Moved(rooms) \subseteq Recruits
    BY <1>1, <1>3, <1>6
  <2>2. QED
    BY <1>1, <1>3, <1>6, <2>1, EditRoomsKeepsInv
<1>7. CASE p \in Evaluators /\ EditRooms(i, rooms, locks, Moved(seats), Relocked(seatLocks))
  <2>1. DOMAIN Moved(seats) \subseteq Evaluators
    BY <1>1, <1>4, <1>7
  <2>2. QED
    BY <1>1, <1>4, <1>7, <2>1, EditRoomsKeepsInv
<1>8. QED
  BY <1>5, <1>6, <1>7

LEMMA EditAllRoomsKeepsInv ==
    ASSUME RoomsInv, NEW i \in DOMAIN plans, NEW rooms \in [attending -> 1..MaxRooms],
           NEW seats \in [staff -> 1..MaxRooms], EditAllRooms(i, rooms, seats)
    PROVE  RoomsInv'
<1> DEFINE p == Plan(plans[i].activity, "preview", plans[i].revision, WithLocks(rooms, {}),
                     Members(seats, DOMAIN legacyMandatory, {}))
<1>1. /\ edits < MaxEdits /\ edits' = edits + 1 /\ plans' = [plans EXCEPT ![i] = p]
      /\ UNCHANGED <<operation, available>> /\ SameSettings
  BY DEF EditAllRooms
<1>2. /\ plans[i].activity \in RoomActivities /\ plans[i].revision \in 1..(MaxEdits + 1)
      /\ plans[i].revision <= edits + 1 /\ edits \in 0..MaxEdits /\ MaxEdits \in Nat
      /\ attending \subseteq Recruits /\ staff \subseteq Evaluators
  BY PlanKnown, RoomsAssumption DEF RoomsInv, TypeOKRooms
<1>3. plans[i].revision <= edits' + 1 /\ edits' \in 0..MaxEdits /\ edits <= edits'
  BY <1>1, <1>2
<1>4. WithLocks(rooms, {}) \in RecruitRooms /\ Members(seats, DOMAIN legacyMandatory, {}) \in EvaluatorRooms
  <2>1. /\ DOMAIN rooms \subseteq Recruits /\ \A r \in DOMAIN rooms : rooms[r] \in 1..MaxRooms
        /\ DOMAIN seats \subseteq Evaluators /\ \A e \in DOMAIN seats : seats[e] \in 1..MaxRooms
    BY <1>2
  <2>2. QED
    BY <2>1, WithLocksTyped, MembersTyped
<1>5. p \in Plans /\ p.revision = plans[i].revision
  BY <1>2, <1>4, PlanTyped
<1>6. /\ operation' \in [RoomActivities -> [rooms : 0..MaxRooms, version : Nat]]
      /\ \A b \in RoomActivities : DOMAIN available'[b] \in {{}, Evaluators}
  BY <1>1 DEF RoomsInv, TypeOKRooms
<1> HIDE DEF p
<1>7. QED
  BY <1>1, <1>3, <1>5, <1>6, SamePlans, OnePlanKeepsInv

LEMMA PublishRoomPlanKeepsInv ==
    ASSUME RoomsInv, NEW i \in DOMAIN plans, PublishRoomPlan(i)
    PROVE  RoomsInv'
<1> DEFINE p == Plan(plans[i].activity, "published", plans[i].revision,
                     plans[i].recruits, plans[i].evaluators)
           others == Superseded(plans[i].activity, "published")
<1>1. /\ plans' = [others EXCEPT ![i] = p]
      /\ UNCHANGED <<operation, available, edits>> /\ SameSettings
  BY DEF PublishRoomPlan, UnchangedSettings
<1>2. /\ plans[i].activity \in RoomActivities /\ plans[i].revision \in 1..(MaxEdits + 1)
      /\ plans[i].recruits \in RecruitRooms /\ plans[i].evaluators \in EvaluatorRooms
      /\ plans[i].revision <= edits + 1 /\ edits \in 0..MaxEdits
  BY PlanKnown DEF RoomsInv, TypeOKRooms
<1>3. p \in Plans /\ p.revision = plans[i].revision
  BY <1>2, PlanTyped
<1>4. edits' \in 0..MaxEdits /\ edits <= edits' /\ p.revision <= edits' + 1
  BY <1>1, <1>2, <1>3
<1>5. /\ operation' \in [RoomActivities -> [rooms : 0..MaxRooms, version : Nat]]
      /\ \A b \in RoomActivities : DOMAIN available'[b] \in {{}, Evaluators}
  BY <1>1 DEF RoomsInv, TypeOKRooms
<1>6. /\ others \in Seq(Plans) /\ Len(others) = Len(plans)
      /\ \A k \in 1..Len(plans) : others[k].revision <= edits + 1
  BY SupersededTyped
<1> HIDE DEF p, others
<1>7. QED
  BY <1>1, <1>3, <1>4, <1>5, <1>6, OnePlanKeepsInv

(* Plans put aside, or left alone, under new settings.                       *)
LEMMA SettingsKeepInv ==
    ASSUME RoomsInv, UNCHANGED edits,
           \/ UNCHANGED plans
           \/ \E a, status : plans' = Superseded(a, status)
           \/ plans' = [i \in DOMAIN plans |-> Dropped(plans[i])],
           attending' \subseteq Recruits, staff' \subseteq Evaluators, journeyRooms' \in 1..MaxRooms,
           operation' \in [RoomActivities -> [rooms : 0..MaxRooms, version : Nat]],
           \A a \in RoomActivities : DOMAIN available'[a] \in {{}, Evaluators},
           mandatory' \in [RoomActivities -> PartialRooms(Evaluators)],
           legacyMandatory' \in PartialRooms(Evaluators),
           settings' \in 0..MaxSettings
    PROVE  RoomsInv'
<1>1. edits' \in 0..MaxEdits /\ edits \in Nat /\ MaxEdits \in Nat
  BY RoomsAssumption DEF RoomsInv, TypeOKRooms
<1>2. CASE UNCHANGED plans
  BY <1>1, <1>2, SamePlans, TypedKeepsInv
<1>3. CASE \E a, status : plans' = Superseded(a, status)
  <2>1. PICK a, status : plans' = Superseded(a, status)
    BY <1>3
  <2>2. /\ plans' \in Seq(Plans) /\ Len(plans') = Len(plans)
        /\ \A i \in 1..Len(plans) : plans'[i].revision <= edits + 1
    BY <2>1, SupersededTyped
  <2>3. Len(plans') <= MaxPlans /\ \A i \in 1..Len(plans') : plans'[i].revision <= edits' + 1
    BY <2>2, SamePlans
  <2>4. QED
    BY <1>1, <2>2, <2>3, TypedKeepsInv
<1>4. CASE plans' = [i \in DOMAIN plans |-> Dropped(plans[i])]
  <2>1. Len(plans) \in Nat /\ DOMAIN plans = 1..Len(plans)
    BY SamePlans
  <2>2. ASSUME NEW i \in 1..Len(plans)
        PROVE  Dropped(plans[i]) \in Plans /\ Dropped(plans[i]).revision = 1
    BY <2>1, PlanKnown, DroppedTyped
  <2>3. plans' \in [1..Len(plans) -> Plans]
    BY <1>4, <2>1, <2>2
  <2>4. plans' \in Seq(Plans) /\ Len(plans') = Len(plans)
    BY <2>1, <2>3
  <2>5. \A i \in 1..Len(plans') : plans'[i].revision <= edits' + 1
    <3> TAKE i \in 1..Len(plans')
    <3>1. plans'[i].revision = 1
      BY <1>4, <2>1, <2>2, <2>4
    <3>2. QED
      BY <1>1, <3>1
  <2>6. Len(plans') <= MaxPlans
    BY <2>4, SamePlans
  <2>7. QED
    BY <1>1, <2>4, <2>5, <2>6, TypedKeepsInv
<1>5. QED
  BY <1>2, <1>3, <1>4

LEMMA ClearWorkingPlanKeepsInv ==
    ASSUME RoomsInv, NEW a \in RoomActivities, ClearWorkingPlan(a)
    PROVE  RoomsInv'
<1>1. /\ plans' = Superseded(a, "preview")
      /\ UNCHANGED <<operation, available, attending, staff, journeyRooms, mandatory,
                     legacyMandatory, settings, edits>>
  BY DEF ClearWorkingPlan, UnchangedSettings, SameSettings
<1>2. QED
  BY <1>1, SettingsKeepInv DEF RoomsInv, TypeOKRooms

LEMMA SettingTyped ==
    ASSUME RoomsInv, Setting
    PROVE  settings' \in 0..MaxSettings /\ UNCHANGED edits
BY RoomsAssumption DEF Setting, RoomsInv, TypeOKRooms

LEMMA AttendKeepsInv ==
    ASSUME RoomsInv, NEW p \in Recruits \cup Evaluators, Attend(p)
    PROVE  RoomsInv'
<1>1. /\ Setting
      /\ UNCHANGED <<journeyRooms, operation, available, mandatory, legacyMandatory, plans>>
  BY DEF Attend
<1>2. attending' \subseteq Recruits /\ staff' \subseteq Evaluators
  BY DEF Attend, Toggled, RoomsInv, TypeOKRooms
<1>3. QED
  BY <1>1, <1>2, SettingTyped, SettingsKeepInv DEF RoomsInv, TypeOKRooms

LEMMA AvailabilityKeepsInv ==
    ASSUME RoomsInv, NEW a \in RoomActivities, NEW free, SetAvailability(a, free)
    PROVE  RoomsInv'
<1>1. /\ Setting /\ operation' = Ensured(a)
      /\ available' = [Synced(a) EXCEPT ![a] = [e \in Evaluators |-> e \in free]]
      /\ UNCHANGED <<attending, staff, journeyRooms, mandatory, legacyMandatory, plans>>
  BY DEF SetAvailability
<1>2. \A b \in RoomActivities : DOMAIN available'[b] \in {{}, Evaluators}
  <2> TAKE b \in RoomActivities
  <2>1. DOMAIN Synced(a) = RoomActivities
    BY DEF Synced
  <2>2. CASE b = a
    BY <1>1, <2>1, <2>2
  <2>3. CASE b # a
    <3>1. available'[b] = Synced(a)[b]
      BY <1>1, <2>1, <2>3
    <3>2. QED
      BY <3>1, SyncedTyped
  <2>4. QED
    BY <2>2, <2>3
<1>3. operation' \in [RoomActivities -> [rooms : 0..MaxRooms, version : Nat]]
  BY <1>1, EnsuredTyped
<1>4. QED
  BY <1>1, <1>2, <1>3, SettingTyped, SettingsKeepInv DEF RoomsInv, TypeOKRooms

LEMMA MandatoryKeepsInv ==
    ASSUME RoomsInv, NEW a \in RoomActivities, NEW must \in PartialRooms(Evaluators),
           SetMandatory(a, must)
    PROVE  RoomsInv'
<1>1. /\ Setting /\ operation' = Ensured(a) /\ available' = Synced(a)
      /\ mandatory' = [mandatory EXCEPT ![a] = must]
      /\ UNCHANGED <<attending, staff, journeyRooms, legacyMandatory, plans>>
  BY DEF SetMandatory, Ensure
<1>2. mandatory' \in [RoomActivities -> PartialRooms(Evaluators)]
  BY <1>1 DEF RoomsInv, TypeOKRooms
<1>3. /\ operation' \in [RoomActivities -> [rooms : 0..MaxRooms, version : Nat]]
      /\ \A b \in RoomActivities : DOMAIN available'[b] \in {{}, Evaluators}
  BY <1>1, EnsuredTyped, SyncedTyped
<1>4. QED
  BY <1>1, <1>2, <1>3, SettingTyped, SettingsKeepInv DEF RoomsInv, TypeOKRooms

LEMMA RoomCountKeepsInv ==
    ASSUME RoomsInv, NEW a \in RoomActivities, NEW n \in 1..MaxRooms, SetRoomCount(a, n)
    PROVE  RoomsInv'
<1>1. /\ Setting /\ operation' = Counted(a, n) /\ available' = Synced(a)
      /\ UNCHANGED <<attending, staff, journeyRooms, mandatory, legacyMandatory, plans>>
  BY DEF SetRoomCount
<1>2. n \in 0..MaxRooms
  BY RoomsAssumption
<1>3. /\ operation' \in [RoomActivities -> [rooms : 0..MaxRooms, version : Nat]]
      /\ \A b \in RoomActivities : DOMAIN available'[b] \in {{}, Evaluators}
  BY <1>1, <1>2, CountedTyped, SyncedTyped
<1>4. QED
  BY <1>1, <1>3, SettingTyped, SettingsKeepInv DEF RoomsInv, TypeOKRooms

LEMMA JourneyKeepsInv ==
    ASSUME RoomsInv,
           \/ \E n \in 1..MaxRooms : ChangeRoomCount(n)
           \/ \E must \in PartialRooms(Evaluators) : SaveMandatoryRooms(must)
    PROVE  RoomsInv'
<1>1. ASSUME NEW n \in 1..MaxRooms, ChangeRoomCount(n)
      PROVE  RoomsInv'
  <2>1. /\ Setting /\ journeyRooms' = n
        /\ plans' = [i \in DOMAIN plans |-> Dropped(plans[i])]
        /\ UNCHANGED <<attending, staff, operation, available, mandatory, legacyMandatory>>
    BY <1>1 DEF ChangeRoomCount
  <2>2. QED
    BY <2>1, SettingTyped, SettingsKeepInv DEF RoomsInv, TypeOKRooms
<1>2. ASSUME NEW must \in PartialRooms(Evaluators), SaveMandatoryRooms(must)
      PROVE  RoomsInv'
  <2>1. /\ Setting /\ legacyMandatory' = must
        /\ UNCHANGED <<attending, staff, journeyRooms, operation, available, mandatory, plans>>
    BY <1>2 DEF SaveMandatoryRooms
  <2>2. QED
    BY <2>1, SettingTyped, SettingsKeepInv DEF RoomsInv, TypeOKRooms
<1>3. QED
  BY <1>1, <1>2

-----------------------------------------------------------------------------
LEMMA RoomsStep == RoomsInv /\ [NextRooms]_roomsVars => RoomsInv'
<1> SUFFICES ASSUME RoomsInv, [NextRooms]_roomsVars
             PROVE  RoomsInv'
  OBVIOUS
<1>1. ASSUME NEW a \in RoomActivities, PreviewActivityRooms(a)
      PROVE  RoomsInv'
  BY <1>1, PreviewFullKeepsInv DEF PreviewActivityRooms
<1>2. CASE PreviewRooms
  BY <1>2, PreviewFullKeepsInv DEF PreviewRooms, RoomActivities
<1>3. ASSUME NEW a \in RoomActivities, PreviewRecruits(a) \/ PreviewEvaluators(a)
      PROVE  RoomsInv'
  BY <1>3, PreviewHalfKeepsInv
<1>4. CASE CopyRecruits \/ CopyFull
  BY <1>4, CopyRecruitsKeepsInv, CopyFullKeepsInv
<1>5. ASSUME NEW a \in RoomActivities, EditPublishedRooms(a) \/ ClearWorkingPlan(a)
      PROVE  RoomsInv'
  BY <1>5, EditPublishedRoomsKeepsInv, ClearWorkingPlanKeepsInv
<1>6. ASSUME NEW i \in DOMAIN plans, NEW p \in Recruits \cup Evaluators,
             NEW room \in 0..MaxRooms, NEW lock \in BOOLEAN, EditOne(i, p, room, lock)
      PROVE  RoomsInv'
  BY <1>6, EditOneKeepsInv
<1>7. ASSUME NEW i \in DOMAIN plans, NEW rooms \in [attending -> 1..MaxRooms],
             NEW seats \in [staff -> 1..MaxRooms], EditAllRooms(i, rooms, seats)
      PROVE  RoomsInv'
  BY <1>7, EditAllRoomsKeepsInv
<1>8. ASSUME NEW i \in DOMAIN plans,
             \/ \E a \in RoomActivities, base \in 0..(MaxEdits + 1) : PublishActivityRooms(a, i, base)
             \/ ConfirmRoomPlan(i)
             \/ \E reason \in {"", "reason"} : OverrideRoomPlan(i, reason)
      PROVE  RoomsInv'
  BY <1>8, PublishRoomPlanKeepsInv DEF PublishActivityRooms, ConfirmRoomPlan, OverrideRoomPlan
<1>9. ASSUME NEW p \in Recruits \cup Evaluators, Attend(p)
      PROVE  RoomsInv'
  BY <1>9, AttendKeepsInv
<1>10. ASSUME NEW a \in RoomActivities,
              \/ \E free \in SUBSET Evaluators : SetAvailability(a, free)
              \/ ResetAvailability(a)
       PROVE  RoomsInv'
  BY <1>10, AvailabilityKeepsInv DEF ResetAvailability
<1>11. ASSUME NEW a \in RoomActivities,
              \/ \E must \in PartialRooms(Evaluators) : SetMandatory(a, must)
              \/ \E n \in 1..MaxRooms : SetRoomCount(a, n)
       PROVE  RoomsInv'
  BY <1>11, MandatoryKeepsInv, RoomCountKeepsInv
<1>12. CASE UNCHANGED roomsVars
  BY <1>12, SettingsKeepInv DEF roomsVars, RoomsInv, TypeOKRooms
<1>13. QED
  BY <1>1, <1>2, <1>3, <1>4, <1>5, <1>6, <1>7, <1>8, <1>9, <1>10, <1>11, <1>12,
     JourneyKeepsInv DEF NextRooms

(* The rooms, their plans and settings are typed, whatever is generated.     *)
THEOREM RoomsTypeCorrect == SpecRooms => []TypeOKRooms
<1>1. RoomsInv => TypeOKRooms
  BY DEF RoomsInv
<1>2. QED
  BY InitRoomsInv, RoomsStep, <1>1, PTL DEF SpecRooms

LEMMA LocksKeptStep ==
    ASSUME RoomsInv, Len(plans') > Len(plans), NEW a \in RoomActivities,
           PreviewRecruits(a) \/ PreviewEvaluators(a), Current(a) # 0
    PROVE  LET new == plans'[Len(plans')]
               old == plans[Current(a)]
           IN  /\ \A r \in LockedIn(old.recruits) \cap attending :
                     new.recruits[r] = old.recruits[r]
               /\ \A e \in LockedIn(old.evaluators) \cap Free(a) :
                     \/ old.evaluators[e].room > operation'[a].rooms
                     \/ e \in DOMAIN mandatory[a] \/ old.evaluators[e].mandatory
                     \/ new.evaluators[e] = old.evaluators[e]
<1> DEFINE old == plans[Current(a)]
           Kept(recruits, evaluators) ==
               /\ \A r \in LockedIn(old.recruits) \cap attending : recruits[r] = old.recruits[r]
               /\ \A e \in LockedIn(old.evaluators) \cap Free(a) :
                     \/ old.evaluators[e].room > operation'[a].rooms
                     \/ e \in DOMAIN mandatory[a] \/ old.evaluators[e].mandatory
                     \/ evaluators[e] = old.evaluators[e]
<1>1. PICK recruits \in RecruitRooms, evaluators \in EvaluatorRooms :
         plans' = Working(a, recruits, evaluators) /\ Kept(recruits, evaluators)
  BY PreviewRecruitsResult, PreviewEvaluatorsResult
<1> HIDE DEF Kept
<1>2. /\ Len(plans') = Len(plans) + 1
      /\ plans'[Len(plans) + 1].recruits = recruits
      /\ plans'[Len(plans) + 1].evaluators = evaluators
  BY <1>1, WorkingTyped
<1>3. QED
  BY <1>1, <1>2 DEF Kept

LEMMA KeepsLocksStep == RoomsInv => KeepsLocks
  BY LocksKeptStep DEF KeepsLocks

(* Who is locked to a room stays there when half of the plan is generated    *)
(* again, for any number of people, rooms, plans and edits.                  *)
THEOREM LocksAreKept == SpecRooms => LocksKept
<1>1. RoomsInv /\ [NextRooms]_roomsVars => [KeepsLocks]_roomsVars
  BY KeepsLocksStep
<1>2. QED
  BY InitRoomsInv, RoomsStep, <1>1, PTL DEF SpecRooms, LocksKept

-----------------------------------------------------------------------------
(***************************************************************************)
(* The active Journee.                                                     *)
(***************************************************************************)

(* Every status change may raise a version by one, and a handler writes the  *)
(* version it read plus one: a change was counted when it began.             *)
Versions ==
    /\ changes \in 0..MaxChanges
    /\ \A j \in ActiveJournees :
         /\ state[j].version <= changes + 1
         /\ handler[j] # NoHandler => handler[j].version <= changes

(* As long as no two handlers of different Journees have overlapped, the one *)
(* that has checked is alone, and what it saw still holds: nobody else can   *)
(* make a Journee active before it commits.                                  *)
CheckStillHolds ==
    \A j \in ActiveJournees : handler[j] # NoHandler =>
        \A k \in ActiveJournees \ {j} : state[k].status # "active" /\ handler[k] = NoHandler

ActiveInv ==
    /\ TypeOKActive
    /\ overlapped \in BOOLEAN
    /\ Versions
    /\ overlapped \/ CheckStillHolds
    /\ SingleActiveUnlessOverlapped

(* All Journees start as drafts, without handlers.                           *)
LEMMA InitActiveInv == InitActive => ActiveInv
<1> SUFFICES ASSUME InitActive
             PROVE  ActiveInv
  OBVIOUS
<1> USE ActiveAssumption DEF InitActive
<1>1. TypeOKActive
  BY DEF TypeOKActive, NoHandler
<1>2. Versions
  BY DEF Versions
<1>3. CheckStillHolds
  BY DEF CheckStillHolds
<1>4. SingleActiveUnlessOverlapped
  BY DEF SingleActiveUnlessOverlapped
<1>5. QED
  BY <1>1, <1>2, <1>3, <1>4 DEF ActiveInv

(* A handler that begins finds no other Journee active, and is alone unless  *)
(* handlers overlap.                                                         *)
LEMMA BeginChangeKeepsInv ==
    ASSUME ActiveInv, NEW j \in ActiveJournees, NEW kind \in {"update", "open", "protect"},
           BeginActivation(j, kind)
    PROVE  ActiveInv'
<1> USE ActiveAssumption DEF ActiveInv
<1>1. TypeOKActive' /\ (overlapped \in BOOLEAN)'
  BY DEF TypeOKActive, BeginActivation
<1>2. Versions'
  BY DEF TypeOKActive, BeginActivation, Versions
<1>3. SingleActiveUnlessOverlapped'
  BY DEF SingleActiveUnlessOverlapped, BeginActivation
<1>4. ASSUME ~overlapped'
      PROVE  CheckStillHolds'
  BY <1>4 DEF CheckStillHolds, BeginActivation, NoOtherActive, TypeOKActive
<1>5. QED
  BY <1>1, <1>2, <1>3, <1>4

(* A commit makes its Journee active; no other is, as its check still holds.  *)
LEMMA CommitChangeKeepsInv ==
    ASSUME ActiveInv, NEW j \in ActiveJournees, Commit(j)
    PROVE  ActiveInv'
<1> USE ActiveAssumption DEF ActiveInv
<1>1. handler[j].version \in 0..changes
  BY DEF Commit, Versions, TypeOKActive
<1>2. TypeOKActive' /\ (overlapped \in BOOLEAN)'
  BY <1>1 DEF TypeOKActive, Commit, NoHandler, Versions
<1>3. Versions'
  BY <1>1 DEF TypeOKActive, Commit, Versions
<1>4. ASSUME ~overlapped'
      PROVE  CheckStillHolds' /\ SingleActiveUnlessOverlapped'
  BY <1>4 DEF CheckStillHolds, SingleActiveUnlessOverlapped, Commit, TypeOKActive
<1>5. SingleActiveUnlessOverlapped'
  BY <1>4 DEF SingleActiveUnlessOverlapped
<1>6. QED
  BY <1>2, <1>3, <1>4, <1>5

(* Leaving the status active, or deleting, makes no Journee active.          *)
LEMMA LeaveStatusKeepsInv ==
    ASSUME ActiveInv, NEW j \in ActiveJournees,
           NEW status \in {"draft", "completed", "archived", "deleted"},
           LeaveActive(j, status)
    PROVE  ActiveInv'
<1> USE ActiveAssumption DEF ActiveInv
<1>1. TypeOKActive' /\ (overlapped \in BOOLEAN)'
  BY DEF TypeOKActive, LeaveActive, Versions
<1>2. Versions'
  BY DEF TypeOKActive, LeaveActive, Versions
<1>3. ASSUME ~overlapped'
      PROVE  CheckStillHolds'
  BY <1>3 DEF CheckStillHolds, LeaveActive, TypeOKActive
<1>4. SingleActiveUnlessOverlapped'
  BY DEF SingleActiveUnlessOverlapped, LeaveActive, TypeOKActive
<1>5. QED
  BY <1>1, <1>2, <1>3, <1>4

(* Every handler keeps the invariant.                                        *)
LEMMA NextKeepsActiveInv == ActiveInv /\ [NextActive]_activeVars => ActiveInv'
<1> SUFFICES ASSUME ActiveInv, [NextActive]_activeVars
             PROVE  ActiveInv'
  OBVIOUS
<1>1. ASSUME NEW j \in ActiveJournees, NEW base \in 0..(MaxChanges + 1), BeginUpdate(j, base)
      PROVE  ActiveInv'
  BY <1>1, BeginChangeKeepsInv DEF BeginUpdate
<1>2. ASSUME NEW j \in ActiveJournees, BeginOpening(j)
      PROVE  ActiveInv'
  BY <1>2, BeginChangeKeepsInv DEF BeginOpening
<1>3. ASSUME NEW j \in ActiveJournees, BeginProtection(j)
      PROVE  ActiveInv'
  BY <1>3, BeginChangeKeepsInv DEF BeginProtection
<1>4. ASSUME NEW j \in ActiveJournees, Commit(j)
      PROVE  ActiveInv'
  BY <1>4, CommitChangeKeepsInv
<1>5. ASSUME NEW j \in ActiveJournees, NEW status \in {"draft", "completed", "archived"},
             LeaveActive(j, status)
      PROVE  ActiveInv'
  BY <1>5, LeaveStatusKeepsInv
<1>6. ASSUME NEW j \in ActiveJournees, Delete(j)
      PROVE  ActiveInv'
  BY <1>6, LeaveStatusKeepsInv DEF Delete
<1>7. CASE UNCHANGED activeVars
  BY <1>7 DEF activeVars, ActiveInv, TypeOKActive, Versions, CheckStillHolds,
     SingleActiveUnlessOverlapped
<1>8. QED
  BY <1>1, <1>2, <1>3, <1>4, <1>5, <1>6, <1>7 DEF NextActive

(* The invariant holds in every reachable state.                             *)
THEOREM ActiveInvariant == SpecActive => []ActiveInv
  BY InitActiveInv, NextKeepsActiveInv, PTL DEF SpecActive

(* Types of the status, the versions and the open handlers.                  *)
THEOREM ActiveTypeCorrect == SpecActive => []TypeOKActive
<1>1. ActiveInv => TypeOKActive
  BY DEF ActiveInv
<1>2. QED
  BY <1>1, ActiveInvariant, PTL

(* "The server allows at most one Active Journee" (PLAN.md), for any number  *)
(* of Journees and handlers, as long as no two of different Journees have    *)
(* overlapped.                                                               *)
THEOREM OneJourneeActive == SpecActive => []SingleActiveUnlessOverlapped
<1>1. ActiveInv => SingleActiveUnlessOverlapped
  BY DEF ActiveInv
<1>2. QED
  BY <1>1, ActiveInvariant, PTL

-----------------------------------------------------------------------------
(***************************************************************************)
(* The guard's mails.                                                      *)
(***************************************************************************)

(* A message that waits to be sent is about the present status.              *)
PendingIsCurrent(s) == s.pending \in {"none", s.status}

(* Nothing waits to be sent, so the last mail said what the status is.       *)
Told(s) == s.pending = "none" => announced = s.status

(* Unless something was forgotten: what was announced is known to the run    *)
(* under way, and to the file once a save has succeeded.                     *)
AnnouncementKnown ==
    ~forgotten /\ announced # "none" =>
        /\ guard.step # "stopped" => Told(guard.state)
        /\ ~unsaved => file # NoFile /\ Told(file)

Steps == {"stopped", "probing", "observing", "mailing", "saving"}

GuardInv ==
    /\ TypeOKGuard
    /\ PendingIsCurrent(guard.state)
    /\ file # NoFile => PendingIsCurrent(file)
    /\ AnnouncementKnown
    /\ guard.step = "stopped" => ~unsaved

(* A guard from its parts.                                                   *)
LEMMA GuardRecord ==
    ASSUME NEW step \in Steps, NEW endpoint \in {"live", "ready"},
           NEW attempt \in 0..(RetryCount - 1), NEW healthy \in BOOLEAN, NEW s \in States,
           guard' = [step |-> step, endpoint |-> endpoint, attempt |-> attempt,
                     healthy |-> healthy, state |-> s],
           up' \in BOOLEAN, unsaved' \in BOOLEAN, forgotten' \in BOOLEAN, file' = NoFile \/ file' \in States,
           announced' \in {"none", "healthy", "outage"}
    PROVE  TypeOKGuard' /\ guard'.step = step /\ guard'.state = s
  BY DEF TypeOKGuard, Steps

(* A guard that is not running, and what it knows.                           *)
LEMMA IdleGuard ==
    /\ Idle = [step |-> "stopped", endpoint |-> "live", attempt |-> 0, healthy |-> TRUE,
               state |-> NewState]
    /\ NewState \in States /\ PendingIsCurrent(NewState) /\ NoFile \notin States
    /\ "stopped" \in Steps /\ 0 \in 0..(RetryCount - 1)
<1>1. NewState \in States /\ PendingIsCurrent(NewState)
  BY DEF NewState, States, PendingIsCurrent
<1>2. NoFile \notin States
  BY DEF NoFile, States
<1>3. QED
  BY <1>1, <1>2, GuardAssumption DEF Idle, Steps

(* No run, no file and no mail at first.                                     *)
LEMMA InitGuardInv == InitGuard => GuardInv
<1> SUFFICES ASSUME InitGuard
             PROVE  GuardInv
  OBVIOUS
<1> USE DEF InitGuard
<1>1. TypeOKGuard
  BY IdleGuard DEF TypeOKGuard, Steps
<1>2. PendingIsCurrent(guard.state)
  BY IdleGuard
<1>3. QED
  BY <1>1, <1>2 DEF GuardInv, AnnouncementKnown

(* A reading that changes the status leaves nothing to tell only when the    *)
(* guard knew no status, and then nothing had been announced.                *)
LEMMA ObservedIsKnown ==
    ASSUME NEW s \in States, PendingIsCurrent(s), NEW reading \in {"healthy", "outage"}
    PROVE  /\ Observed(s, reading) \in States
           /\ PendingIsCurrent(Observed(s, reading))
           /\ announced # "none" /\ Told(s) => Told(Observed(s, reading))
  BY DEF Observed, States, PendingIsCurrent, Told

(* Every step keeps the invariant.                                           *)
LEMMA NextKeepsGuardInv == GuardInv /\ [NextGuard]_guardVars => GuardInv'
<1> SUFFICES ASSUME GuardInv, [NextGuard]_guardVars
             PROVE  GuardInv'
  OBVIOUS
<1> USE GuardAssumption DEF GuardInv
<1>1. CASE StartGuard
  <2> DEFINE s == IF file = NoFile THEN NewState ELSE file
  <2>1. guard' = [step |-> "probing", endpoint |-> "live", attempt |-> 0, healthy |-> TRUE,
                  state |-> s]
    BY <1>1 DEF StartGuard, Idle
  <2>2. s \in States /\ PendingIsCurrent(s)
    <3>1. CASE file = NoFile
      BY <3>1, IdleGuard
    <3>2. CASE file # NoFile
      BY <3>2 DEF TypeOKGuard
    <3>3. QED
      BY <3>1, <3>2
  <2>3. (announced # "none" /\ ~forgotten) => Told(s)
    BY <1>1 DEF StartGuard, AnnouncementKnown
  <2> HIDE DEF s
  <2>4. TypeOKGuard' /\ guard'.step = "probing" /\ guard'.state = s
    <3>1. TypeOKGuard /\ UNCHANGED <<up, file, announced, unsaved, forgotten>>
      BY <1>1 DEF StartGuard
    <3>2. /\ guard'.step = "probing" /\ guard'.endpoint = "live" /\ guard'.attempt = 0
          /\ guard'.healthy = TRUE /\ guard'.state = s
      BY <2>1
    <3>3. guard' \in [step : {"stopped", "probing", "observing", "mailing", "saving"},
                      endpoint : {"live", "ready"}, attempt : 0..(RetryCount - 1),
                      healthy : BOOLEAN, state : States]
      BY <2>1, <2>2, IdleGuard
    <3>4. QED
      BY <3>1, <3>2, <3>3 DEF TypeOKGuard
  <2>5. AnnouncementKnown'
    BY <1>1, <2>3, <2>4 DEF StartGuard, AnnouncementKnown, Told
  <2>6. QED
    BY <1>1, <2>2, <2>4, <2>5 DEF StartGuard, PendingIsCurrent
<1>2. CASE Probe
  <2> DEFINE next == IF guard.endpoint = "live" THEN "probing" ELSE "observing"
             other == IF guard.endpoint = "live" THEN "ready" ELSE "live"
             answered == up \/ guard.attempt + 1 = RetryCount
  <2>1. guard' = [step |-> IF answered THEN next ELSE "probing",
                  endpoint |-> IF answered THEN other ELSE guard.endpoint,
                  attempt |-> IF answered THEN 0 ELSE guard.attempt + 1,
                  healthy |-> IF answered THEN guard.healthy /\ up ELSE guard.healthy,
                  state |-> guard.state]
    <3>1. CASE answered
      BY <1>2, <3>1 DEF Probe, TypeOKGuard
    <3>2. CASE ~answered
      BY <1>2, <3>2 DEF Probe, TypeOKGuard
    <3>3. QED
      BY <3>1, <3>2
  <2>2. /\ (IF answered THEN next ELSE "probing") \in {"probing", "observing"}
        /\ (IF answered THEN other ELSE guard.endpoint) \in {"live", "ready"}
        /\ (IF answered THEN 0 ELSE guard.attempt + 1) \in 0..(RetryCount - 1)
        /\ (IF answered THEN guard.healthy /\ up ELSE guard.healthy) \in BOOLEAN
        /\ guard.state \in States
    BY DEF TypeOKGuard
  <2> HIDE DEF next, other, answered
  <2>3. TypeOKGuard' /\ guard'.step \in {"probing", "observing"} /\ guard'.state = guard.state
    BY <1>2, <2>1, <2>2, GuardRecord DEF Probe, TypeOKGuard, Steps
  <2>4. AnnouncementKnown'
    BY <1>2, <2>3 DEF Probe, AnnouncementKnown, Told
  <2>5. QED
    BY <1>2, <2>3, <2>4 DEF Probe, PendingIsCurrent
<1>3. CASE Observe
  <2> DEFINE reading == IF guard.healthy THEN "healthy" ELSE "outage"
             s == Observed(guard.state, reading)
  <2>1. guard' = [guard EXCEPT !.step = "mailing", !.healthy = TRUE, !.state = s]
    BY <1>3 DEF Observe
  <2>2. guard.state \in States /\ reading \in {"healthy", "outage"}
    BY DEF TypeOKGuard
  <2> HIDE DEF reading
  <2>3. /\ s \in States /\ PendingIsCurrent(s)
        /\ announced # "none" /\ Told(guard.state) => Told(s)
    BY <2>2, ObservedIsKnown
  <2> HIDE DEF s
  <2>4. TypeOKGuard' /\ guard'.step = "mailing" /\ guard'.state = s
    BY <1>3, <2>1, <2>3 DEF Observe, TypeOKGuard
  <2>5. AnnouncementKnown'
    BY <1>3, <2>3, <2>4 DEF Observe, AnnouncementKnown, Told
  <2>6. QED
    BY <1>3, <2>3, <2>4, <2>5 DEF Observe, PendingIsCurrent
<1>4. CASE SendMail
  <2>1. guard.state.pending = guard.state.status /\ guard.state.pending # "none"
    BY <1>4 DEF SendMail, PendingIsCurrent
  <2>2. PICK s \in States :
          /\ guard' = [guard EXCEPT !.step = "saving", !.state = s]
          /\ s.status = guard.state.status
          /\ \/ s.pending = "none" /\ announced' = guard.state.pending
             \/ s.pending = guard.state.pending
    <3> DEFINE sent == [guard.state EXCEPT !.pending = "none", !.recent = TRUE]
               failed == [guard.state EXCEPT !.recent = TRUE]
    <3>1. /\ sent \in States /\ sent.status = guard.state.status /\ sent.pending = "none"
          /\ failed \in States /\ failed.status = guard.state.status
          /\ failed.pending = guard.state.pending
      BY DEF TypeOKGuard, States
    <3>2. \/ /\ guard' = [guard EXCEPT !.step = "saving", !.state = sent]
             /\ announced' = guard.state.pending
          \/ guard' = [guard EXCEPT !.step = "saving", !.state = failed]
      BY <1>4 DEF SendMail
    <3> HIDE DEF sent, failed
    <3>3. QED
      BY <3>1, <3>2
  <2>3. announced' \in {"none", "healthy", "outage"}
    BY <1>4 DEF SendMail, TypeOKGuard, States
  <2>4. unsaved' = (unsaved \/ announced' # announced) /\ unsaved' \in BOOLEAN
    BY <1>4 DEF SendMail
  <2>5. TypeOKGuard' /\ guard'.step = "saving" /\ guard'.state = s
    BY <1>4, <2>2, <2>3, <2>4 DEF SendMail, TypeOKGuard
  <2>6. AnnouncementKnown'
    BY <1>4, <2>1, <2>2, <2>4, <2>5 DEF SendMail, AnnouncementKnown, Told
  <2>7. QED
    BY <1>4, <2>1, <2>2, <2>5, <2>6 DEF SendMail, PendingIsCurrent
<1>5. CASE SkipMail
  BY <1>5 DEF SkipMail, TypeOKGuard, AnnouncementKnown, Told, PendingIsCurrent
<1>6. CASE Save
  <2>1. /\ guard.step = "saving" /\ up' = up /\ announced' = announced
        /\ guard' = [guard EXCEPT !.step = "probing"] \/ guard' = Idle
        /\ file' = guard.state \/ file' = file
    BY <1>6 DEF Save
  <2>2. PendingIsCurrent(guard.state) /\ guard.state \in States /\ guard.state # NoFile
    BY IdleGuard DEF TypeOKGuard
  <2>3. file' # NoFile => PendingIsCurrent(file')
    BY <2>1, <2>2
  <2>4. file' = NoFile \/ file' \in States
    BY <2>1, <2>2 DEF TypeOKGuard
  <2>5. unsaved' \in BOOLEAN /\ forgotten' \in BOOLEAN
    BY <1>6 DEF Save, RunEnds, TypeOKGuard
  <2>6. /\ TypeOKGuard'
        /\ \/ guard'.step = "stopped" /\ guard'.state = NewState
           \/ guard'.step = "probing" /\ guard'.state = guard.state
    <3>1. CASE guard' = Idle
      BY <2>1, <2>4, <2>5, <3>1, IdleGuard, GuardRecord DEF TypeOKGuard
    <3>2. CASE guard' = [guard EXCEPT !.step = "probing"]
      BY <2>1, <2>4, <2>5, <3>2 DEF TypeOKGuard
    <3>3. QED
      BY <2>1, <3>1, <3>2
  <2>7. PendingIsCurrent(guard'.state)
    BY <2>2, <2>6, IdleGuard
  <2>8. AnnouncementKnown' /\ (guard'.step = "stopped" => ~unsaved')
    <3>1. CASE file' = guard.state /\ unsaved' = FALSE /\ forgotten' = forgotten
      BY <2>1, <2>2, <2>6, <3>1 DEF AnnouncementKnown, Told
    <3>2. CASE /\ guard' = [guard EXCEPT !.step = "probing"]
               /\ file' = file /\ unsaved' = unsaved /\ forgotten' = forgotten
      <4>1. guard'.step = "probing" /\ guard'.state = guard.state
        BY <3>2 DEF TypeOKGuard
      <4>2. QED
        BY <2>1, <3>2, <4>1 DEF AnnouncementKnown, Told
    <3>3. CASE guard' = Idle /\ RunEnds /\ file' = file
      <4>1. guard'.step = "stopped" /\ guard'.state = NewState
        BY <3>3 DEF Idle
      <4>2. QED
        BY <2>1, <3>3, <4>1 DEF RunEnds, AnnouncementKnown, Told
    <3>4. QED
      BY <1>6, <3>1, <3>2, <3>3 DEF Save
  <2>9. QED
    BY <2>3, <2>6, <2>7, <2>8 DEF PendingIsCurrent
<1>7. CASE FiveMinutes
  <2>1. TypeOKGuard'
    BY <1>7 DEF FiveMinutes, TypeOKGuard, States
  <2>2. QED
    BY <1>7, <2>1 DEF FiveMinutes, TypeOKGuard, States, AnnouncementKnown, Told, PendingIsCurrent
<1>8. CASE Kill
  <2>1. /\ unsaved' = FALSE /\ forgotten' \in BOOLEAN
        /\ ~forgotten' => ~forgotten /\ ~unsaved
    BY <1>8 DEF Kill, RunEnds
  <2>2. TypeOKGuard' /\ guard'.step = "stopped" /\ guard'.state = NewState
    BY <1>8, <2>1, IdleGuard, GuardRecord DEF Kill, TypeOKGuard
  <2>3. AnnouncementKnown'
    BY <1>8, <2>1, <2>2 DEF Kill, AnnouncementKnown, Told
  <2>4. ~unsaved'
    BY <2>1
  <2>5. QED
    BY <1>8, <2>2, <2>3, <2>4, IdleGuard DEF Kill, PendingIsCurrent
<1>9. CASE LoseFile
  BY <1>9 DEF LoseFile, TypeOKGuard, AnnouncementKnown, PendingIsCurrent
<1>10. CASE GoDown
  BY <1>10 DEF GoDown, TypeOKGuard, AnnouncementKnown, Told, PendingIsCurrent
<1>11. CASE ComeUp
  BY <1>11 DEF ComeUp, TypeOKGuard, AnnouncementKnown, Told, PendingIsCurrent
<1>12. CASE UNCHANGED guardVars
  BY <1>12 DEF guardVars, TypeOKGuard, AnnouncementKnown, Told, PendingIsCurrent
<1>13. QED
  BY <1>1, <1>2, <1>3, <1>4, <1>5, <1>6, <1>7, <1>8, <1>9, <1>10, <1>11, <1>12 DEF NextGuard

(* The invariant holds in every reachable state.                             *)
THEOREM GuardInvariant == SpecGuard => []GuardInv
  BY InitGuardInv, NextKeepsGuardInv, PTL DEF SpecGuard

(* Types of the guard's step, its attempts, its state and its file.          *)
THEOREM GuardTypeCorrect == SpecGuard => []TypeOKGuard
<1>1. GuardInv => TypeOKGuard
  BY DEF GuardInv
<1>2. QED
  BY <1>1, GuardInvariant, PTL

LEMMA GuardIsAnnounced == GuardInv => AnnouncedIsKnown
  BY DEF GuardInv, AnnouncedIsKnown, AnnouncementKnown, Told, PendingIsCurrent

(* The last mail delivered is what the guard knows, or its correction is     *)
(* waiting, over any number of outages, failed mails, failed saves and       *)
(* kills, unless a run ended with no successful save since a delivery, or    *)
(* the file was lost.                                                        *)
THEOREM MailsAreKnown == SpecGuard => []AnnouncedIsKnown
  BY GuardIsAnnounced, GuardInvariant, PTL

-----------------------------------------------------------------------------
(***************************************************************************)
(* The administration as a whole.                                          *)
(***************************************************************************)

(* What the parts keep; scoring and pairing need it in their scenes only: in *)
(* the others no pairing has begun.                                          *)
AdministrationInv ==
    /\ scene \in {"rooms", "active", "guard", "corrections", "scoring",
                  "pairing", "notes", "login", "accounts", "workspaces", "roster"}
    /\ RoomsInv /\ ActiveInv /\ GuardInv /\ CorrectionsInv /\ NotesInv /\ LoginInv
    /\ AccountsInv /\ WorkspacesInv /\ WithinBounds /\ RosterInv
    /\ scene = "scoring" => TypeOKScoring
    /\ IF scene = "pairing" THEN PairingInv ELSE scope = 0

(* The actions of the parts, each of which leaves the other parts alone.     *)
LEMMA PartsStep ==
    ASSUME [Next]_vars
    PROVE  /\ [NextRooms]_roomsVars /\ [NextActive]_activeVars /\ [NextGuard]_guardVars
           /\ [NextCorrections]_correctionVars /\ [NextScoring]_scoringVars
           /\ [NextPairing]_pairingVars /\ [NextNotes]_notesVars /\ [NextLogin]_loginVars
           /\ [NextAccounts]_accountVars /\ [NextWorkspaces]_workspaceVars
           /\ [NextRoster]_rosterVars /\ scene' = scene
           /\ scene # "pairing" => UNCHANGED pairingVars
<1>1. CASE RoomsScene
  BY <1>1 DEF RoomsScene
<1>2. CASE ActiveScene
  BY <1>2 DEF ActiveScene
<1>3. CASE GuardScene
  BY <1>3 DEF GuardScene
<1>4. CASE CorrectionsScene
  BY <1>4 DEF CorrectionsScene
<1>5. CASE ScoringScene
  BY <1>5 DEF ScoringScene
<1>6. CASE PairingScene
  BY <1>6 DEF PairingScene
<1>7. CASE NotesScene
  BY <1>7 DEF NotesScene
<1>8. CASE LoginScene
  BY <1>8 DEF LoginScene
<1>9. CASE AccountsScene
  BY <1>9 DEF AccountsScene
<1>10. CASE WorkspacesScene
  BY <1>10 DEF WorkspacesScene
<1>11. CASE RosterScene
  BY <1>11 DEF RosterScene
<1>12. CASE UNCHANGED vars
  BY <1>12 DEF vars
<1>13. QED
  BY <1>1, <1>2, <1>3, <1>4, <1>5, <1>6, <1>7, <1>8, <1>9, <1>10, <1>11, <1>12 DEF Next

LEMMA InitAdministrationInv == Init => AdministrationInv
<1> SUFFICES ASSUME Init
             PROVE  AdministrationInv
  OBVIOUS
<1>1. InitAccounts
  <2>1. (CHOOSE secret \in Secrets : TRUE) \in Secrets
    BY AccountsAssumption
  <2>2. {} \in SUBSET MemberAccounts
    OBVIOUS
  <2>3. QED
    BY <2>1, <2>2 DEF Init, InitAccounts
<1>2. /\ RoomsInv /\ ActiveInv /\ GuardInv /\ CorrectionsInv /\ NotesInv /\ LoginInv
      /\ AccountsInv /\ WorkspacesInv /\ WithinBounds /\ RosterInv
  BY <1>1, InitRoomsInv, InitActiveInv, InitGuardInv, InitCorrectionsInv, InitNotesInv, InitLoginInv,
     InitAccountsInv, InitWorkspacesInv, InitBounded, InitRosterInv DEF Init
<1>3. scene = "scoring" => TypeOKScoring
  BY InitScoringTyped DEF Init
<1>4. IF scene = "pairing" THEN PairingInv ELSE scope = 0
  BY InitPairingInv DEF Init, Drawn
<1>5. QED
  BY <1>2, <1>3, <1>4 DEF Init, AdministrationInv

LEMMA AdministrationStep == AdministrationInv /\ [Next]_vars => AdministrationInv'
<1> SUFFICES ASSUME AdministrationInv, [Next]_vars
             PROVE  AdministrationInv'
  OBVIOUS
<1>1. RoomsInv' /\ ActiveInv' /\ GuardInv' /\ CorrectionsInv'
  BY PartsStep, RoomsStep, NextKeepsActiveInv, NextKeepsGuardInv, CorrectionsStep DEF AdministrationInv
<1>2. NotesInv' /\ LoginInv' /\ AccountsInv' /\ RosterInv'
  BY PartsStep, NotesStep, StutterKeepsNotes, LoginStep, AccountsStep, RosterStep DEF AdministrationInv
<1>3. WorkspacesInv' /\ WithinBounds'
  BY PartsStep, WorkspacesStep, StepKeepsBounded DEF AdministrationInv
<1>4. scene' = "scoring" => TypeOKScoring'
  BY PartsStep, ScoringStep DEF AdministrationInv
<1>5. IF scene' = "pairing" THEN PairingInv' ELSE scope' = 0
  <2>1. CASE scene = "pairing"
    BY <2>1, PartsStep, PairingStep DEF AdministrationInv
  <2>2. CASE scene # "pairing"
    BY <2>2, PartsStep DEF AdministrationInv, pairingVars
  <2>3. QED
    BY <2>1, <2>2
<1>6. scene' = scene
  BY PartsStep
<1>7. QED
  BY <1>1, <1>2, <1>3, <1>4, <1>5, <1>6 DEF AdministrationInv

(* No part of the administration disturbs what another one keeps.            *)
THEOREM AdministrationInvariant == Spec => []AdministrationInv
  BY InitAdministrationInv, AdministrationStep, PTL DEF Spec

(* TypeOK: whichever part of the administration is busy is type correct.     *)
THEOREM AdministrationTypeCorrect == Spec => []TypeOK
<1>1. AdministrationInv => TypeOK
  <2> SUFFICES ASSUME AdministrationInv
               PROVE  TypeOK
    OBVIOUS
  <2>1. TypeOKRooms /\ TypeOKActive /\ TypeOKGuard /\ TypeOKLogin /\ TypeOKAccounts /\ TypeOKRoster
    BY DEF AdministrationInv, RoomsInv, ActiveInv, GuardInv, LoginInv, AccountsInv, RosterInv
  <2>2. TypeOKCorrections /\ TypeOKNotes
    BY CorrectionsAreTyped DEF AdministrationInv, NotesInv
  <2>3. TypeOKWorkspaces
    BY WorkspacesAreTyped DEF AdministrationInv
  <2>4. (scene = "scoring" => TypeOKScoring) /\ (scene = "pairing" => TypeOKPairing)
    BY PairingIsTyped DEF AdministrationInv
  <2>5. scene \in {"rooms", "active", "guard", "corrections", "scoring",
                   "pairing", "notes", "login", "accounts", "workspaces", "roster"}
    BY DEF AdministrationInv
  <2>6. QED
    BY <2>1, <2>2, <2>3, <2>4, <2>5 DEF TypeOK
<1>2. QED
  BY <1>1, AdministrationInvariant, PTL

(* What the parts promise one by one holds of the administration as a whole. *)
THEOREM AdministrationIsSafe ==
    Spec => [](/\ SingleActiveUnlessOverlapped /\ AnnouncedIsKnown
               /\ HistoryIsAChain /\ AppliedAsPreviewed /\ SavedNotesAreKept
               /\ LoginBudgetsHold /\ NewPasswordsReachEveryone /\ SavedResultsFit
               /\ AccountsAreOnEveryRoster /\ PairingsAreBest /\ ScoresAgree)
<1>1. AdministrationInv => /\ SingleActiveUnlessOverlapped /\ AnnouncedIsKnown
                           /\ HistoryIsAChain /\ AppliedAsPreviewed
  BY GuardIsAnnounced DEF AdministrationInv, ActiveInv, CorrectionsInv
<1>2. AdministrationInv => /\ SavedNotesAreKept /\ LoginBudgetsHold
                           /\ NewPasswordsReachEveryone /\ SavedResultsFit
  BY NotesAreKept, PasswordsReach DEF AdministrationInv, LoginInv, WorkspacesInv
<1>3. AdministrationInv => AccountsAreOnEveryRoster
  BY RostersList DEF AdministrationInv
<1>4. AdministrationInv => PairingsAreBest
  <2>1. scope = 0 => PairingsAreBest
    BY SMT DEF PairingsAreBest
  <2>2. QED
    BY <2>1, PairedIsBest DEF AdministrationInv
<1>5. AdministrationInv => ScoresAgree
  BY TypedResultsAgree DEF AdministrationInv, ScoresAgree
<1>6. QED
  BY <1>1, <1>2, <1>3, <1>4, <1>5, AdministrationInvariant, PTL

(* LocksKept holds of the administration: no other part generates rooms.     *)
THEOREM AdministrationKeepsLocks == Spec => LocksKept
<1>1. AdministrationInv /\ [Next]_vars => [KeepsLocks]_roomsVars
  BY PartsStep, KeepsLocksStep DEF AdministrationInv
<1>2. QED
  BY <1>1, AdministrationInvariant, PTL DEF Spec, LocksKept
===============================================================================
