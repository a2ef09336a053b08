----------------------------- MODULE Workspaces -----------------------------
(***************************************************************************)
(* The workspaces of an installation and their configuration:              *)
(* assessment_service.py, routes_configurator.py, the workspace routes of  *)
(* routes_platform.py, and what creating a Journee takes from the          *)
(* published definition (services.create_journey under the definition that *)
(* assessment_runtime activated when the request arrived).                 *)
(*                                                                         *)
(* A definition is a value; what matters of it is its structure            *)
(* (structural_signature), which saved results depend on, and its assessor *)
(* categories.  The handlers read, check and commit without a lock, so     *)
(* each is two steps.  A Journee has one evaluator here, from the          *)
(* workspace's directory, which has one entry.                             *)
(***************************************************************************)
EXTENDS Naturals, FiniteSets, Sequences

CONSTANTS
    Systems,        \* the workspaces there can be
    Names,          \* their names
    Definitions,    \* the configurations somebody may publish
    Neutral,        \* the one a new workspace starts from
    Structure,      \* the structural signature of each
    CategoriesOf,   \* the assessor categories of each, as a set
    FallbackOf,     \* the category of each with the best secondary priority
    SavedJournees,  \* the Journees there can be
    MaxVersion,     \* bound on the version of a workspace
    MaxOpen         \* bound on the requests between their two steps

ASSUME WorkspacesAssumption ==
    /\ Neutral \in Definitions
    /\ DOMAIN Structure = Definitions
    /\ CategoriesOf \in [Definitions -> SUBSET {FallbackOf[d] : d \in Definitions}]
    /\ \A d \in Definitions : FallbackOf[d] \in CategoriesOf[d]
    /\ MaxVersion \in Nat \ {0} /\ MaxOpen \in Nat

VARIABLES
    workspace,   \* each workspace there is: name, draft, version, published number
    published,   \* its published definitions, oldest first (AssessmentSystemVersion)
    assessor,    \* the role of its directory entry and of its owner's account
    saved,       \* each Journee there is: its workspace, the structure it was
                 \* created under, its evaluator's role, and whether a publication raced
    requests     \* the requests that read and checked, and have not committed

workspaceVars == <<workspace, published, assessor, saved, requests>>

Roles == {FallbackOf[d] : d \in Definitions}
Here == DOMAIN workspace
SavedIn(w) == {j \in DOMAIN saved : saved[j].system = w}
Published(w) == published[w][workspace[w].published]

\* The workspace a request names, in its path, session, cookie or token, is one
\* there is; the request runs under the definition that is published on arrival.
Selected(w) == w \in Here
Runtime(w) == Published(w)

InitWorkspaces ==
    /\ workspace = <<>>
    /\ published = <<>>
    /\ assessor = <<>>
    /\ saved = <<>>
    /\ requests = {}

\* f without, and with, one more argument.
Without(f, x) == [y \in DOMAIN f \ {x} |-> f[y]]
With(f, x, value) == [y \in DOMAIN f \cup {x} |-> IF y = x THEN value ELSE f[y]]

\* ensure_unique_system_name.
NameIsFree(w, name) ==
    \/ w \in Here /\ workspace[w].name = name
    \/ \A v \in Here \ {w} : workspace[v].name # name

\* Mutant: the impact of a publication is judged against the saved draft.
BlockedMut(w, definition) ==
    SavedIn(w) # {} /\ Structure[workspace[w].draft] # Structure[definition]

\* historical_impact: structural changes are blocked while Journees are saved.
Blocked(w, definition) ==
    SavedIn(w) # {} /\ Structure[Published(w)] # Structure[definition]

\* The requests when these Journees are gone; a later one has another identifier.
Forgotten(journees) == {[r EXCEPT !.known = @ \ journees] : r \in requests}

Admit(request) ==
    /\ Cardinality(requests) < MaxOpen
    /\ request \notin requests
    /\ requests' = requests \cup {request}
    /\ UNCHANGED <<workspace, published, assessor, saved>>

-----------------------------------------------------------------------------
(* Workspaces.                                                             *)

\* create_workspace: the definition is neutral, the owner gets a directory entry.
CreateWorkspace(w, name) ==
    /\ w \notin Here
    /\ NameIsFree(w, name)
    /\ workspace' = With(workspace, w, [name |-> name, draft |-> Neutral, version |-> 1,
                                        published |-> 1])
    /\ published' = With(published, w, <<Neutral>>)
    /\ assessor' = With(assessor, w, FallbackOf[Neutral])
    /\ UNCHANGED <<saved, requests>>

\* Mutant: the Journees of a deleted workspace stay.
RemoveWorkspaceMut(w) ==
    /\ w \in Here
    /\ workspace' = Without(workspace, w)
    /\ published' = Without(published, w)
    /\ assessor' = Without(assessor, w)
    /\ requests' = {r \in requests : r.system # w}
    /\ UNCHANGED saved

\* delete_workspace: everything in it goes with it, and so do its open requests.
RemoveWorkspace(w) ==
    /\ w \in Here
    /\ workspace' = Without(workspace, w)
    /\ published' = Without(published, w)
    /\ assessor' = Without(assessor, w)
    /\ saved' = [j \in DOMAIN saved \ SavedIn(w) |-> saved[j]]
    /\ requests' = {r \in Forgotten(SavedIn(w)) : r.system # w}

-----------------------------------------------------------------------------
(* Configuration.  A request carries the version it is based on; any but   *)
(* the present one is refused (409), so only that one is enumerated.       *)

RequestOf(kind, w, definition, name, known) ==
    [kind |-> kind, system |-> w, definition |-> definition, name |-> name,
     at |-> workspace[w].version, after |-> workspace[w].published, role |-> assessor[w], known |-> known]

\* save_draft, and load_preset, which saves a preset's definition as the draft.
BeginDraft(w, definition, name) ==
    /\ Selected(w)
    /\ workspace[w].version < MaxVersion
    /\ NameIsFree(w, name)
    /\ Admit(RequestOf("draft", w, definition, name, {}))

CommitDraft(r) ==
    /\ r.kind = "draft"
    /\ workspace' = [workspace EXCEPT
         ![r.system] = [name |-> r.name, draft |-> r.definition, version |-> r.at + 1,
                        published |-> workspace[r.system].published]]
    /\ requests' = requests \ {r}
    /\ UNCHANGED <<published, assessor, saved>>

\* publish_definition up to its flush: version, name and impact are checked, the
\* evaluators read.
BeginPublish(w, definition, name) ==
    /\ Selected(w)
    /\ workspace[w].version < MaxVersion
    /\ NameIsFree(w, name)
    /\ ~Blocked(w, definition)
    /\ Admit(RequestOf("publish", w, definition, name, DOMAIN saved))

Configured(role, definition) ==
    IF role \in CategoriesOf[definition] THEN role ELSE FallbackOf[definition]

\* The evaluators a publication puts into its categories: every one it read.
\* The account and directory queries are confined to the workspace, Evaluator
\* is not among the models that _scope_recruitment_queries confines.
Reassigned(r) == r.known \cap DOMAIN saved

\* Somebody else published this number first: the record's key is taken, a 500.
NumberTaken(r) == Len(published[r.system]) > r.after

CommitPublish(r) ==
    /\ r.kind = "publish"
    /\ ~NumberTaken(r)
    /\ published' = [published EXCEPT ![r.system] = Append(@, r.definition)]
    /\ workspace' = [workspace EXCEPT
         ![r.system] = [name |-> r.name, draft |-> r.definition, version |-> r.at + 1,
                        published |-> r.after + 1]]
    /\ assessor' = [assessor EXCEPT ![r.system] = Configured(@, r.definition)]
    /\ saved' = [j \in DOMAIN saved |->
         [system |-> saved[j].system, structure |-> saved[j].structure,
          role |-> IF j \in Reassigned(r) THEN Configured(saved[j].role, r.definition)
                                          ELSE saved[j].role,
          raced |-> saved[j].raced \/ (saved[j].system = r.system /\ j \notin r.known)]]
    /\ requests' = requests \ {r}

RefusePublish(r) ==
    /\ r.kind = "publish"
    /\ NumberTaken(r)
    /\ requests' = requests \ {r}
    /\ UNCHANGED <<workspace, published, assessor, saved>>

\* sync_assessor_directory takes the categories from the definition in the
\* request, which need not be the published one: the one the sheet names, or the
\* fallback when it names none.
SyncAssessors(w, definition) ==
    /\ Selected(w)
    /\ \E role \in CategoriesOf[definition] : assessor' = [assessor EXCEPT ![w] = role]
    /\ UNCHANGED <<workspace, published, saved, requests>>

-----------------------------------------------------------------------------
(* Journees.                                                               *)

\* create_journey: the middleware activates the published definition, the handler
\* reads the directory ...
BeginJournee(w) ==
    /\ Selected(w)
    /\ Admit(RequestOf("journee", w, Runtime(w), workspace[w].name, {}))

\* ... and commits the activities of that definition.
CommitJournee(r, j) ==
    /\ r.kind = "journee"
    /\ j \notin DOMAIN saved
    /\ saved' = With(saved, j,
         [system |-> r.system, structure |-> Structure[r.definition], role |-> r.role,
          raced |-> workspace[r.system].published # r.after])
    /\ requests' = requests \ {r}
    /\ UNCHANGED <<workspace, published, assessor>>

\* delete_empty_draft deletes any Journee.
DeleteJournee(j) ==
    /\ j \in DOMAIN saved
    /\ saved' = Without(saved, j)
    /\ requests' = Forgotten({j})
    /\ UNCHANGED <<workspace, published, assessor>>

NextWorkspaces ==
    \/ \E w \in Systems :
         \/ \E name \in Names : CreateWorkspace(w, name)
         \/ RemoveWorkspace(w)
         \/ \E definition \in Definitions :
              \/ SyncAssessors(w, definition)
              \/ \E name \in Names : \/ BeginDraft(w, definition, name)
                                     \/ BeginPublish(w, definition, name)
         \/ BeginJournee(w)
    \/ \E r \in requests : \/ CommitDraft(r)
                           \/ CommitPublish(r)
                           \/ RefusePublish(r)
                           \/ \E j \in SavedJournees : CommitJournee(r, j)
    \/ \E j \in SavedJournees : DeleteJournee(j)

SpecWorkspaces == InitWorkspaces /\ [][NextWorkspaces]_workspaceVars

-----------------------------------------------------------------------------
TypeOKWorkspaces ==
    /\ Here \subseteq Systems /\ DOMAIN published = Here /\ DOMAIN assessor = Here
    /\ \A w \in Here :
         /\ workspace[w] \in [name : Names, draft : Definitions, version : 1 .. MaxVersion,
                              published : 1 .. Len(published[w])]
         /\ published[w] \in Seq(Definitions)
         /\ assessor[w] \in Roles
    /\ DOMAIN saved \subseteq SavedJournees
    /\ \A j \in DOMAIN saved : /\ saved[j].system \in Here /\ saved[j].role \in Roles
                               /\ saved[j].raced \in BOOLEAN
    /\ Cardinality(requests) <= MaxOpen

\* "Existing saved results remain compatible with this change": a Journee is read
\* under a published definition of the structure it was created with, through any
\* sequence of drafts, publications and Journees.  The exception is a publication
\* and a creation that did not see each other.
SavedResultsFit ==
    \A j \in DOMAIN saved :
        saved[j].raced \/ saved[j].structure = Structure[Published(saved[j].system)]

\* "Keep every root query inside the recruitment selected for this request": what
\* one workspace publishes changes no evaluator of another.
PublicationStaysInside ==
    [][\A r \in requests, j \in DOMAIN saved :
         CommitPublish(r) /\ saved[j].system # r.system => saved'[j] = saved[j]]_workspaceVars
=============================================================================
