-------------------------- MODULE DesktopApplication --------------------------
(***************************************************************************)
(* The desktop application around its agent manager: the window's requests *)
(* and polls (use-desktop-agent.ts), the main process that passes them on  *)
(* and quits (main.ts), and what the manager's operations make of the      *)
(* repository folder they read (project-inspection.ts).  The manager runs  *)
(* them in the order of serialize; each takes effect when it ends.  What   *)
(* it remembers of pairings, profiles and clients is DesktopAgent's; the   *)
(* computer is paired here, and has one project or none.                   *)
(***************************************************************************)
EXTENDS Naturals, Sequences

CONSTANTS
  None,
  FolderManifests  \* what the folder's pairdock.yml may say: of None, "docker", "blank", "public",
                   \* "loopback" and "credentials"

VARIABLES
  application,     \* "on", "quitting" or "gone"
  queued,          \* the operations of serialize; the first one runs
  folder,          \* the repository folder's pairdock.yml; "gone" when there is no folder
  backend,         \* "local" or "remote", as paired
  toolsSeen,       \* state.tools is there
  form,            \* the draft in the project form: its runtime, or None
  saved,           \* the project's saved draft, likewise
  dockerRequired,  \* state.dockerRequired
  checked,         \* state.readiness: what the project's was of, or None
  agentRuntime,    \* None, "idle" or "busy" with commands
  current          \* nothing dockerRequired depends on has changed since it was computed

applicationVars == <<application, queued, folder, backend, toolsSeen, form, saved, dockerRequired, checked,
                     agentRuntime, current>>
projectVars == <<form, saved, dockerRequired, checked, current>>
worldVars == <<folder, backend>>

\* A "docker" manifest has a container and a preparation, "blank" one whose preparation is
\* spaces; three have an address of their own, "credentials" one with a user's name in it;
\* None also stands for one that says nothing of these or does not parse.
Runtimes == {"host", "docker"}
-----------------------------------------------------------------------------
(***************************************************************************)
(* What the settings come to: the folder's manifest as it is now, under    *)
(* the runtime and the commands of the draft.                              *)
(***************************************************************************)

\* loadDesktopProjectConfig: what would prepare the computer itself is dropped.
Loaded(runtime) ==
  [runtime |-> runtime,
   prepare |-> IF folder \in {"docker", "blank"} /\ runtime # "host" THEN folder ELSE None,
   address |-> IF folder \in {"public", "loopback", "credentials"} THEN folder ELSE None]

\* requirePublicPreviews.
Public(preview) ==
  IF backend = "remote" /\ preview.address = "loopback" THEN [preview EXCEPT !.address = None] ELSE preview

\* A container, or the tunnel of a preview without an address (previewUsesDockerTunnel).
UsesDocker(preview) == preview.runtime = "docker" \/ preview.address = None

\* normalizeAgentConfig, of a folder that can be inspected: it refuses what the manifest's
\* schema lets pass, an address with credentials, which also stands for a container's port
\* left to the template, and a blank preparation.
CanBuild(runtime) ==
  LET prepare == Loaded(runtime).prepare IN
  /\ folder \notin {"gone", "credentials"}
  /\ prepare # None => runtime = "docker" /\ prepare # "blank"

\* refreshDockerRequirement: what cannot be inspected is presumed to need it.
Requirement(runtime) == runtime # None /\ (folder = "gone" \/ UsesDocker(Public(Loaded(runtime))))

Operation(kind, by) == [kind |-> kind, by |-> by, draft |-> IF kind = "save" THEN form ELSE None, aborted |-> FALSE]

\* An application opened at login starts the agent by itself.
Init ==
  /\ application = "on"
  /\ folder \in FolderManifests
  /\ backend \in {"local", "remote"}
  /\ toolsSeen = FALSE
  /\ form = None
  /\ saved \in Runtimes \cup {None}
  /\ queued \in {<<>>, <<Operation("start", "launch")>>}
  /\ dockerRequired = Requirement(saved)
  /\ checked = None
  /\ agentRuntime = None
  /\ current = TRUE
-----------------------------------------------------------------------------
(***************************************************************************)
(* The developer, and the agent at work.                                   *)
(***************************************************************************)
On == application # "gone"

EditFolder ==
  /\ On
  /\ folder' \in FolderManifests \cup {"gone"}
  /\ current' = FALSE
  /\ UNCHANGED <<application, queued, backend, toolsSeen, form, saved, dockerRequired, checked, agentRuntime>>

\* The agent takes its first command, or ends its last one.
Work ==
  /\ On /\ agentRuntime # None
  /\ agentRuntime' = IF agentRuntime = "idle" THEN "busy" ELSE "idle"
  /\ UNCHANGED <<application, queued, worldVars, toolsSeen, projectVars>>
-----------------------------------------------------------------------------
(***************************************************************************)
(* The window and the main process.  Of the window's actions one is        *)
(* pending at a time; its polls, and the main process, ask besides.        *)
(***************************************************************************)
Pending(by) == \E i \in DOMAIN queued : queued[i].by = by
Editable == agentRuntime = None   \* requireEditable

\* stop: every login, also one that waits for its turn.
Aborted == [i \in DOMAIN queued |-> [queued[i] EXCEPT !.aborted = queued[i].kind = "login"]]

Act(kind) ==
  /\ On /\ ~Pending("window")
  /\ kind = "save" <=> form # None
  /\ kind \in {"readiness", "start", "remove"} => saved # None
  /\ queued' = Append(IF kind = "stop" THEN Aborted ELSE queued, Operation(kind, "window"))
  /\ UNCHANGED <<application, worldVars, toolsSeen, projectVars, agentRuntime>>

\* readDesktopSnapshot looks for the tools once, and for the end of a pairing.
Poll(kind) ==
  /\ On /\ ~Pending("poll")
  /\ kind = "tools" => ~toolsSeen
  /\ queued' = Append(queued, Operation(kind, "poll"))
  /\ UNCHANGED <<application, worldVars, toolsSeen, projectVars, agentRuntime>>

\* agent:choose-folder: inspectDesktopProject, outside the queue; or the project's own
\* draft, or none.
OpenForm ==
  /\ On /\ ~Pending("window")
  /\ \/ Editable /\ folder # "gone" /\ form' = IF folder \in {"docker", "blank"} THEN "docker" ELSE "host"
     \/ form' \in {saved, None}
  /\ UNCHANGED <<application, queued, worldVars, toolsSeen, saved, dockerRequired, checked, agentRuntime, current>>

\* before-quit.
Quit ==
  /\ application = "on"
  /\ application' = "quitting"
  /\ queued' = Append(Aborted, Operation("stop", "quit"))
  /\ UNCHANGED <<worldVars, toolsSeen, projectVars, agentRuntime>>
-----------------------------------------------------------------------------
(***************************************************************************)
(* The operations, as they end.                                            *)
(***************************************************************************)
Ends(kind) == On /\ queued # <<>> /\ Head(queued).kind = kind /\ queued' = Tail(queued)

\* An operation that fails, for a tool that is missing, say; only a stop of no agent cannot.
\* A quit refused leaves the application as it was.
FailHead ==
  /\ On /\ queued # <<>>
  /\ Head(queued).kind = "stop" => agentRuntime # None
  /\ queued' = Tail(queued)
  /\ toolsSeen' \in {toolsSeen, toolsSeen \/ Head(queued).kind \in {"login", "start"}}
  /\ application' = IF Head(queued).by = "quit" THEN "on" ELSE application
  /\ UNCHANGED <<worldVars, projectVars, agentRuntime>>

EndTools ==
  /\ Ends("tools")
  /\ toolsSeen' = TRUE
  /\ UNCHANGED <<application, worldVars, projectVars, agentRuntime>>

\* The developer has signed in in the browser.
EndLogin ==
  /\ Ends("login") /\ Editable /\ ~Head(queued).aborted
  /\ toolsSeen' = TRUE
  /\ UNCHANGED <<application, worldVars, projectVars, agentRuntime>>

EndReadiness ==
  /\ Ends("readiness") /\ saved # None /\ CanBuild(saved)
  /\ checked' = [draft |-> saved, backend |-> backend]
  /\ UNCHANGED <<application, worldVars, toolsSeen, form, saved, dockerRequired, agentRuntime, current>>

EndStart ==
  /\ Ends("start") /\ agentRuntime = None
  /\ saved # None /\ CanBuild(saved)
  /\ agentRuntime' = "idle"
  /\ toolsSeen' = TRUE
  /\ UNCHANGED <<application, worldVars, projectVars>>

\* preventStopWhileBusy.
EndStop ==
  /\ Ends("stop") /\ agentRuntime # "busy"
  /\ agentRuntime' = None
  /\ application' = IF Head(queued).by = "quit" THEN "gone" ELSE application
  /\ UNCHANGED <<worldVars, toolsSeen, projectVars>>

\* Mutant of Forget: what was checked stays on display.
ForgetNothing == checked' = checked

Forget == checked' = None

\* saveProject closes the form; removeProject; pollPairing, which may name another backend.
EndEdit ==
  /\ \E kind \in {"save", "remove", "pair"} :
       /\ Ends(kind) /\ Editable
       /\ kind = "save" => CanBuild(Head(queued).draft)
       /\ saved' = CASE kind = "save" -> Head(queued).draft [] kind = "remove" -> None [] kind = "pair" -> saved
       /\ form' = IF kind = "save" THEN None ELSE form
       /\ backend' \in IF kind = "pair" THEN {"local", "remote"} ELSE {backend}
  /\ Forget
  /\ UNCHANGED <<application, folder, toolsSeen, agentRuntime>>
  /\ dockerRequired' = Requirement(saved)'
  /\ current' = TRUE

Finish ==
  \/ FailHead \/ EndTools \/ EndLogin \/ EndReadiness \/ EndStart \/ EndStop \/ EndEdit

Next ==
  \/ EditFolder \/ Work \/ OpenForm \/ Quit \/ Finish
  \/ \E kind \in {"tools", "login", "readiness", "start", "stop", "save", "remove"} : Act(kind)
  \/ \E kind \in {"tools", "pair"} : Poll(kind)

\* Nothing bounds a start, which may fill a cache first, a stop that takes previews down,
\* nor a login that waits for the developer; the commands and requests of the rest have limits.
Unlimited ==
  /\ queued # <<>>
  /\ \/ Head(queued).kind = "login" /\ Editable /\ ~Head(queued).aborted
     \/ Head(queued).kind = "start" /\ agentRuntime = None
     \/ Head(queued).kind = "stop" /\ agentRuntime # None

Fairness == WF_applicationVars(~Unlimited /\ Finish)

Spec == Init /\ [][Next]_applicationVars /\ Fairness
-----------------------------------------------------------------------------
\* Whatever becomes of pairdock.yml, the form's runtime and the file's commands fit together:
\* a saved project whose folder is there can be built, unless the file holds a value that is
\* refused by itself, and a host project does not care what the preparation says.
SavedProjectsCanBeBuilt ==
  saved # None /\ folder \notin {"gone", "credentials"} /\ (folder = "blank" => saved = "host") =>
    CanBuild(saved)

\* While the folder is as it was when the window's need for Docker was last computed, a
\* start that can be built asks for Docker exactly when the window does.
DockerWarningIsTrue ==
  saved # None /\ CanBuild(saved) /\ current => (dockerRequired <=> UsesDocker(Public(Loaded(saved))))

\* The readiness on display is of the draft that is saved and of the backend it is paired with.
ReadinessIsOfTheProject == checked # None => checked = [draft |-> saved, backend |-> backend]

\* A quit is answered, by an application that is gone or one that stays, although logins
\* wait in the queue, if it finds no agent running and no start before it.
StartAhead == \E i, j \in DOMAIN queued : i < j /\ queued[i].kind = "start" /\ queued[j].by = "quit"

QuitEnds == application = "quitting" /\ agentRuntime = None /\ ~StartAhead ~> application # "quitting"
-----------------------------------------------------------------------------
(***************************************************************************)
(* What the proofs rest on.                                                *)
(***************************************************************************)
Drafts == Runtimes \cup {None}
Operations ==
  [kind : {"tools", "login", "readiness", "start", "stop", "save", "remove", "pair"},
   by : {"launch", "window", "poll", "quit"}, draft : Drafts, aborted : BOOLEAN]

Domains == form \in Drafts /\ saved \in Drafts /\ queued \in Seq(Operations)

\* The window's need for Docker is of the folder as it was when it was computed.
RequirementIsCurrent == current => (dockerRequired <=> Requirement(saved))
=============================================================================
