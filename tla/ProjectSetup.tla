----------------------------- MODULE ProjectSetup -----------------------------
(***************************************************************************)
(* The developers' projects: ProjectsService creates, shares and edits     *)
(* them.  Two developers have one GitHub App installation in common and    *)
(* work on the same repository; their requests await GitHub and the        *)
(* database between what they read and what they write.                    *)
(***************************************************************************)
EXTENDS ProjectBinding, Naturals

CONSTANTS
  Developers,
  Creations,   \* requests to create a project; each may create the one of its name
  Shares,      \* requests to share a project with the one product manager
  Repo,
  Models,
  CreatedModel \* the default model a project is created with

VARIABLES
  snapshot,    \* what the agents connected publish under the projects' key
  connection,  \* source control connections: the owner of the one a request made
  creation,    \* per request: where it is, whose it is, the connection it uses
  project,     \* the projects' rows
  sharing,     \* per request: where it is, and its project
  accounts,    \* user rows with the product manager's address
  members,     \* projects the product manager is a member of
  editing,     \* per project: the default model in the row that an edit under way has read
  chosen       \* per project: the default model of the last update that was saved

vars == <<snapshot, connection, creation, project, sharing, accounts, members, editing, chosen>>

Init ==
  /\ snapshot = None
  /\ connection = [c \in Creations |-> None]
  /\ creation = [c \in Creations |-> [at |-> "idle", by |-> None, uses |-> None]]
  /\ project = [c \in Creations |-> None]
  /\ sharing = [h \in Shares |-> [at |-> "idle", of |-> None]]
  /\ accounts = 0
  /\ members = {}
  /\ editing = [c \in Creations |-> None]
  /\ chosen = [c \in Creations |-> None]

Advance(c, stage) == creation' = [creation EXCEPT ![c].at = stage]
Turn(h, stage) == sharing' = [sharing EXCEPT ![h].at = stage]

\* External: agents come and go.
Publish ==
  /\ snapshot' \in {None} \cup {Published(d, Repo, Models, {}) : d \in Developers}
  /\ UNCHANGED <<connection, creation, project, sharing, accounts, members, editing, chosen>>
-----------------------------------------------------------------------------
(***************************************************************************)
(* createDeveloperProject.                                                 *)
(***************************************************************************)
\* resolveSourceControlInput looks for an installation that lists the repository;
\* GitHub may answer either way, now and when it is asked again.
ResolveInstallation(c, d) ==
  /\ creation[c].at = "idle"
  /\ \E stage \in {"resolved", "refused"} :
       creation' = [creation EXCEPT ![c].by = d, ![c].at = stage]
  /\ UNCHANGED <<snapshot, connection, project, sharing, accounts, members, editing, chosen>>

\* validateCreateProjectSelection: the repository and the branch once more, then
\* the agent that publishes the key.
ValidateSelection(c) ==
  /\ creation[c].at = "resolved"
  /\ \/ Advance(c, "refused")
     \/ IsConnected(snapshot, [repo |-> Repo, owner |-> creation[c].by]) /\ Advance(c, "valid")
  /\ UNCHANGED <<snapshot, connection, project, sharing, accounts, members, editing, chosen>>

\* findByOwnerAndProviderConnection.
ConnectionsOf(d) == {k \in Creations : connection[k] = d}

FindConnection(c) ==
  /\ creation[c].at = "valid"
  /\ IF ConnectionsOf(creation[c].by) = {}
       THEN Advance(c, "unconnected")
       ELSE \E k \in ConnectionsOf(creation[c].by) :
              creation' = [creation EXCEPT ![c].at = "connected", ![c].uses = k]
  /\ UNCHANGED <<snapshot, connection, project, sharing, accounts, members, editing, chosen>>

\* Nothing makes connections unique: two first projects at once make two.
CreateConnection(c) ==
  /\ creation[c].at = "unconnected"
  /\ connection' = [connection EXCEPT ![c] = creation[c].by]
  /\ creation' = [creation EXCEPT ![c].at = "connected", ![c].uses = c]
  /\ UNCHANGED <<snapshot, project, sharing, accounts, members, editing, chosen>>

CreateProject(c) ==
  /\ creation[c].at = "connected"
  /\ project' = [project EXCEPT ![c] =
       [owner |-> creation[c].by, connection |-> creation[c].uses, model |-> CreatedModel]]
  /\ chosen' = [chosen EXCEPT ![c] = CreatedModel]
  /\ Advance(c, "created")
  /\ UNCHANGED <<snapshot, connection, sharing, accounts, members, editing>>
-----------------------------------------------------------------------------
(***************************************************************************)
(* shareDeveloperProject.                                                  *)
(***************************************************************************)
BeginShare(h, c) ==
  /\ sharing[h].at = "idle" /\ project[c] # None
  /\ sharing' = [sharing EXCEPT ![h] = [at |-> "account", of |-> c]]
  /\ UNCHANGED <<snapshot, connection, creation, project, accounts, members, editing, chosen>>

\* findOrCreatePmUser reads, and creates in a step of its own.
FindAccount(h) ==
  /\ sharing[h].at = "account"
  /\ Turn(h, IF accounts > 0 THEN "member" ELSE "create")
  /\ UNCHANGED <<snapshot, connection, creation, project, accounts, members, editing, chosen>>

\* An address and a kind are unique: the second to create the account fails, and
\* has to be tried again.
CreateAccount(h) ==
  /\ sharing[h].at = "create"
  /\ IF accounts = 0
       THEN accounts' = 1 /\ Turn(h, "member")
       ELSE accounts' = accounts /\ Turn(h, "failed")
  /\ UNCHANGED <<snapshot, connection, creation, project, members, editing, chosen>>

\* An upsert: sharing twice is sharing once.
AddMember(h) ==
  /\ sharing[h].at = "member"
  /\ members' = members \cup {sharing[h].of}
  /\ Turn(h, "done")
  /\ UNCHANGED <<snapshot, connection, creation, project, accounts, editing, chosen>>
-----------------------------------------------------------------------------
(***************************************************************************)
(* updateDeveloperProject and updateExecutionDefaults.                     *)
(***************************************************************************)
BeginEdit(c) ==
  /\ editing[c] = None /\ project[c] # None
  /\ editing' = [editing EXCEPT ![c] = project[c].model]
  /\ UNCHANGED <<snapshot, connection, creation, project, sharing, accounts, members, chosen>>

\* Mutant of SaveMetadata: the row is written as it was read.
SaveMetadataAsRead(c) ==
  /\ editing[c] # None
  /\ project' = [project EXCEPT ![c].model = editing[c]]
  /\ editing' = [editing EXCEPT ![c] = None]
  /\ UNCHANGED <<snapshot, connection, creation, sharing, accounts, members, chosen>>

\* updateMetadata writes the columns it was given, a name or a description, and
\* no other.
SaveMetadata(c) ==
  /\ editing[c] # None
  /\ editing' = [editing EXCEPT ![c] = None]
  /\ UNCHANGED <<snapshot, connection, creation, project, sharing, accounts, members, chosen>>

\* The agent must be connected and publish the model; the row is written right after.
SaveDefaults(c, model) ==
  /\ project[c] # None
  /\ IsConnected(snapshot, [repo |-> Repo, owner |-> project[c].owner])
  /\ Selectable(snapshot, model)
  /\ project' = [project EXCEPT ![c].model = model]
  /\ chosen' = [chosen EXCEPT ![c] = model]
  /\ UNCHANGED <<snapshot, connection, creation, sharing, accounts, members, editing>>

Next ==
  \/ Publish
  \/ \E c \in Creations :
       \/ \E d \in Developers : ResolveInstallation(c, d)
       \/ ValidateSelection(c) \/ FindConnection(c) \/ CreateConnection(c) \/ CreateProject(c)
       \/ BeginEdit(c) \/ SaveMetadata(c) \/ \E model \in Models : SaveDefaults(c, model)
  \/ \E h \in Shares :
       \/ \E c \in Creations : BeginShare(h, c)
       \/ FindAccount(h) \/ CreateAccount(h) \/ AddMember(h)

Spec == Init /\ [][Next]_vars
-----------------------------------------------------------------------------
\* A project reaches GitHub through a connection of its own developer, also when
\* colleagues with the same installation create their projects at the same time.
ConnectionsAreTheOwners ==
  \A c \in Creations : project[c] # None => connection[project[c].connection] = project[c].owner

\* A sharing that was answered has made the person a member, for good, whichever other
\* projects were shared with the same person at once; and that person has one account.
SharesLast ==
  /\ \A h \in Shares : sharing[h].at = "done" => sharing[h].of \in members
  /\ accounts <= 1

\* An edit of the name, which reads the project before it writes, never undoes
\* a choice of the default model that was saved in between.
ChoicesSurviveEdits == \A c \in Creations : project[c] # None => project[c].model = chosen[c]
-----------------------------------------------------------------------------
(***************************************************************************)
(* What the proofs rest on.                                                *)
(***************************************************************************)
CreationStages == {"idle", "resolved", "refused", "valid", "unconnected", "connected", "created"}
CreationStates == [at : CreationStages, by : {None} \cup Developers, uses : {None} \cup Creations]
ProjectRows == [owner : Developers, connection : Creations, model : {CreatedModel} \cup Models]

Domains ==
  /\ connection \in [Creations -> {None} \cup Developers]
  /\ creation \in [Creations -> CreationStates]
  /\ project \in [Creations -> {None} \cup ProjectRows]
  /\ chosen \in [Creations -> {None, CreatedModel} \cup Models]
  /\ sharing \in [Shares -> [at : {"idle", "account", "create", "member", "failed", "done"}, of : {None} \cup Creations]]

\* A request has a connection of its developer from when it is connected, and makes one at most.
RequestsUseTheirOwn ==
  \A c \in Creations :
    /\ creation[c].at # "idle" => creation[c].by \in Developers
    /\ creation[c].at \in {"connected", "created"} =>
         creation[c].uses \in Creations /\ connection[creation[c].uses] = creation[c].by
    /\ connection[c] # None => creation[c].at \in {"connected", "created"}
    /\ project[c] # None =>
         /\ creation[c].at = "created"
         /\ project[c].connection = creation[c].uses /\ project[c].owner = creation[c].by
=============================================================================
