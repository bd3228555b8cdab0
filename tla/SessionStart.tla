----------------------------- MODULE SessionStart -----------------------------
(***************************************************************************)
(* Starting the sessions of one shared project: SessionStartPolicy,        *)
(* SessionsService.createSession, ToolReadinessService, and the listing of *)
(* ProjectsService that offers a project to a product manager.  A request  *)
(* awaits the database several times, while agents come and go, the        *)
(* project is shared and its readiness is reported.                        *)
(***************************************************************************)
EXTENDS ProjectBinding

CONSTANTS
  Starts,          \* requests to start a session
  Owner, Pm,       \* the project's developer and a product manager
  Stranger,        \* another developer, with an agent that has the same key
  Repos, Repo,     \* repositories, and the project's
  Models

VARIABLES
  published,   \* what the agents connected publish under the project's key
  default,     \* the project's default model
  allows,      \* pmCanStartSessions
  shared,      \* the product manager is a member of the project
  readiness,   \* the project's readiness snapshot: "none", "ok" or "failed"
  asked,       \* a readiness check was sent to the agent
  vouched,     \* an agent of the project itself has reported that it is ready
  start,       \* per request: where it is, whose it is, and what it has read
  session,     \* per request: the session it created
  prepared,    \* requests whose session.prepare was sent
  away,        \* requests during which no agent of the project was connected
  earlier      \* requests of the developer that began when the project was shared

vars == <<published, default, allows, shared, readiness, asked, vouched, start, session, prepared, away, earlier>>

Project == [repo |-> Repo, owner |-> Owner]
Connected == IsConnected(published, Project)
NoStart == [at |-> "idle", by |-> None, model |-> None, members |-> {}]
Running == {s \in Starts : start[s].at \notin {"idle", "refused", "done"}}

Publications ==
  {Published(o, r, Models, {}) : o \in {None, Owner, Stranger}, r \in Repos}
    \cup {Published(Owner, Repo, Models, {m}) : m \in Models}

Init ==
  /\ published = None
  /\ default \in Models
  /\ allows \in BOOLEAN
  /\ shared = FALSE
  /\ readiness = "none"
  /\ asked = FALSE
  /\ vouched = FALSE
  /\ start = [s \in Starts |-> NoStart]
  /\ session = [s \in Starts |-> None]
  /\ prepared = {}
  /\ away = {}
  /\ earlier = {}

At(s, stage) == start' = [start EXCEPT ![s].at = stage]
-----------------------------------------------------------------------------
(***************************************************************************)
(* The world around the requests.                                          *)
(***************************************************************************)
\* Agents register and disconnect.
Publish ==
  /\ published' \in Publications \cup {None}
  /\ away' = IF IsConnected(published', Project) THEN away ELSE away \cup Running
  /\ UNCHANGED <<default, allows, shared, readiness, asked, vouched, start, session, prepared, earlier>>

Share ==
  /\ shared' = TRUE
  /\ UNCHANGED <<published, default, allows, readiness, asked, vouched, start, session, prepared, away, earlier>>

\* updateExecutionDefaults: only while the agent is connected, for a model of its own.
UpdateDefaults ==
  /\ Connected
  /\ default' \in {m \in Models : Selectable(published, m)}
  /\ UNCHANGED <<published, allows, shared, readiness, asked, vouched, start, session, prepared, away, earlier>>

\* requestProjectReadinessCheck.
CheckReadiness ==
  /\ Connected
  /\ asked' = TRUE
  /\ UNCHANGED <<published, default, allows, shared, readiness, vouched, start, session, prepared, away, earlier>>

\* Mutant of ReportReadiness: the result is stored for every project with the key.
ReportReadinessOfKey ==
  /\ asked /\ published # None
  /\ readiness' \in {"ok", "failed"}
  /\ asked' = FALSE
  /\ vouched' = (vouched \/ (Connected /\ readiness' = "ok"))
  /\ UNCHANGED <<published, default, allows, shared, start, session, prepared, away, earlier>>

\* persistEvent: a result is stored for the projects with the agent's key that match
\* what it publishes when it is stored.
ReportReadiness ==
  /\ asked /\ published # None
  /\ readiness' \in IF Connected THEN {"ok", "failed"} ELSE {readiness}
  /\ asked' = FALSE
  /\ vouched' = (vouched \/ (Connected /\ readiness' = "ok"))
  /\ UNCHANGED <<published, default, allows, shared, start, session, prepared, away, earlier>>
-----------------------------------------------------------------------------
(***************************************************************************)
(* A request: SessionsService.createSession.                               *)
(***************************************************************************)
\* The developer's branch of assertCanStart, up to its second read.
BeginByDeveloper(s) ==
  /\ start[s] = NoStart
  /\ start' = [start EXCEPT ![s].by = Owner, ![s].model = default,
                 ![s].at = IF CompatibleIfConnected(published, Project) THEN "readiness" ELSE "refused"]
  /\ away' = IF Connected THEN away ELSE away \cup {s}
  /\ earlier' = IF shared THEN earlier \cup {s} ELSE earlier
  /\ UNCHANGED <<published, default, allows, shared, readiness, asked, vouched, session, prepared>>

\* The product manager's branch: the membership, then the agent.
BeginByPm(s) ==
  /\ start[s] = NoStart
  /\ start' = [start EXCEPT ![s].by = Pm, ![s].model = default,
                 ![s].at = IF shared /\ allows THEN "agent" ELSE "refused"]
  /\ away' = IF Connected THEN away ELSE away \cup {s}
  /\ UNCHANGED <<published, default, allows, shared, readiness, asked, vouched, session, prepared, earlier>>

AssertConnected(s) ==
  /\ start[s].at = "agent"
  /\ At(s, IF Connected THEN "readiness" ELSE "refused")
  /\ UNCHANGED <<published, default, allows, shared, readiness, asked, vouched, session, prepared, away, earlier>>

\* What the snapshot read must be: absent will do for the developer.
Ready(user) == readiness = "ok" \/ (user = Owner /\ readiness = "none")

\* The second read, and the selection with the defaults of the project read first.
ReadReadiness(s) ==
  /\ start[s].at = "readiness"
  /\ IF Ready(start[s].by) /\ Selectable(published, start[s].model)
       THEN start' = [start EXCEPT ![s].at = IF start[s].by = Owner THEN "members" ELSE "commit",
                                   ![s].members = {Owner, start[s].by}]
       ELSE At(s, "refused")
  /\ UNCHANGED <<published, default, allows, shared, readiness, asked, vouched, session, prepared, away, earlier>>

\* A developer's session is shared with the project's product managers of this moment.
ReadMembers(s) ==
  /\ start[s].at = "members"
  /\ start' = [start EXCEPT ![s].at = "commit", ![s].members = @ \cup IF shared THEN {Pm} ELSE {}]
  /\ UNCHANGED <<published, default, allows, shared, readiness, asked, vouched, session, prepared, away, earlier>>

\* The unit of work creates the session and its members.
CommitSession(s) ==
  /\ start[s].at = "commit"
  /\ session' = [session EXCEPT ![s] = [model |-> start[s].model, members |-> start[s].members]]
  /\ At(s, "prepare")
  /\ UNCHANGED <<published, default, allows, shared, readiness, asked, vouched, prepared, away, earlier>>

\* prepareSessionIfAgentOnline: without an agent nobody prepares the session, also later.
Prepare(s) ==
  /\ start[s].at = "prepare"
  /\ prepared' = IF Connected THEN prepared \cup {s} ELSE prepared
  /\ At(s, "done")
  /\ UNCHANGED <<published, default, allows, shared, readiness, asked, vouched, session, away, earlier>>

Next ==
  \/ Publish \/ Share \/ UpdateDefaults \/ CheckReadiness \/ ReportReadiness
  \/ \E s \in Starts :
       \/ BeginByDeveloper(s) \/ BeginByPm(s) \/ AssertConnected(s)
       \/ ReadReadiness(s) \/ ReadMembers(s) \/ CommitSession(s) \/ Prepare(s)

Spec == Init /\ [][Next]_vars
-----------------------------------------------------------------------------

\* listSharedProjects: what the dashboard of a product manager offers.
CanStartSession == allows /\ Connected /\ readiness = "ok"

\* The dashboard offers a session of a shared project exactly when a request that met
\* no change on its way would pass the policy: the listing and the policy, written
\* apart, agree (ProjectsService.listSharedProjects, SessionStartPolicy).  The selection
\* of the default model, which only the request looks at, may still refuse it.
OffersAreHonoured ==
  shared => (CanStartSession <=> allows /\ Connected /\ Ready(Pm))

\* The people of a session are its project's: its owner, whoever started it, no product
\* manager the project was not shared with, and of a developer's session each that
\* it was shared with when the request came, whatever was shared or started since.
MembersAreTheProjects ==
  \A s \in Starts : session[s] # None =>
    /\ {Owner, start[s].by} \subseteq session[s].members
    /\ Pm \in session[s].members => shared
    /\ s \in earlier => Pm \in session[s].members

\* A session left without a session.prepare is one during whose request the agent
\* was away: who starts a session beside a connected agent gets it prepared.
UnpreparedWasOffline ==
  \A s \in Starts : start[s].at = "done" /\ s \notin prepared => s \in away

\* A product manager's session was vouched for: an agent that published this project,
\* for its owner and with its repository, has reported that it was ready; a report
\* from another machine with the same key never opens the project.
PmStartsAreVouched ==
  \A s \in Starts : session[s] # None /\ start[s].by = Pm => vouched
-----------------------------------------------------------------------------
(***************************************************************************)
(* What the proofs rest on.                                                *)
(***************************************************************************)
Stages == {"idle", "refused", "agent", "readiness", "members", "commit", "prepare", "done"}
StartRecords == [at : Stages, by : {None, Owner, Pm}, model : {None} \cup Models, members : SUBSET {Owner, Pm}]

Domains ==
  /\ start \in [Starts -> StartRecords]
  /\ session \in [Starts -> {None} \cup [model : {None} \cup Models, members : SUBSET {Owner, Pm}]]
  /\ default \in Models

\* The people a request has read are those of the session it creates.
PeopleAreRead ==
  \A s \in Starts :
    /\ start[s].at \in {"members", "commit", "prepare", "done"} =>
         /\ Owner \in start[s].members /\ start[s].by \in start[s].members
         /\ Pm \in start[s].members => shared
    /\ start[s].at \in {"commit", "prepare", "done"} /\ s \in earlier => Pm \in start[s].members
    /\ s \in earlier => shared /\ start[s].at # "idle" /\ start[s].by = Owner
    /\ start[s].at = "members" => start[s].by = Owner
    /\ start[s].at \in {"agent", "readiness"} => start[s].by \in {Owner, Pm}
    /\ start[s].by = Pm /\ start[s].at \notin {"idle", "refused"} => shared
    /\ session[s] # None => start[s].at \in {"prepare", "done"} /\ session[s].members = start[s].members

\* Whoever meets no connected agent was noted while it ran.
AbsenceIsNoted ==
  /\ Connected \/ Running \subseteq away
  /\ UnpreparedWasOffline

\* A readiness that will do for a product manager was vouched for.
ReadinessIsVouched ==
  /\ readiness = "ok" => vouched
  /\ \A s \in Starts : start[s].by = Pm /\ start[s].at \in {"commit", "prepare", "done"} => vouched
=============================================================================
