----------------------------- MODULE AgentSettings -----------------------------
(***************************************************************************)
(* What an agent runs a project with: the configuration file, the models   *)
(* of Codex's cache and the project's pairdock.yml, read once when the     *)
(* agent starts (loadEnrichedAgentConfig), and the readiness checks of     *)
(* ReadinessRunner, which look at the machine with those settings.  File,  *)
(* manifest and machine change at any time.                                *)
(***************************************************************************)
EXTENDS Naturals

CONSTANTS
  None,
  MaxEdits   \* bound: changes of the file, the manifest and the machine

VARIABLES
  file,      \* agent.json, as to one project and to whether its models are only those of others
  manifest,  \* the project's pairdock.yml, or None
  machine,   \* Docker, and the version of Codex on the PATH and in the ChatGPT application
  catalog,   \* models_cache.json: the client version it is of, 0 when it names none; or None
  running,   \* the settings the agent runs with, or None
  report,    \* the last readiness report says "ok"
  fresh,     \* what still is as the agent's start ("start") and the report ("report") saw it
  edits

settingsVars == <<file, manifest, machine, catalog, running, report, fresh, edits>>

Urls == {None, "loopback", "public"}
\* A sandbox of the file either is plain or says how its container is made.
Previews == [runtime : {None, "host", "docker"}, sandbox : {None, "plain", "container"}, prepare : BOOLEAN, url : Urls]
Manifests == [runtime : {None, "host", "docker"}, sandbox : BOOLEAN, prepare : BOOLEAN, url : Urls]
Versions == 0..2
Minimum == 2   \* MINIMUM_RESTRICTED_CODEX_VERSION

Init ==
  /\ file = [remote |-> TRUE, path |-> TRUE, preview |-> None, checks |-> 3, command |-> None,
             others |-> FALSE]
  /\ manifest = None
  /\ machine \in [docker : {FALSE}, path : 1..2, app : {0}]
  /\ catalog = None
  /\ running = None
  /\ report = FALSE
  /\ fresh = {}
  /\ edits = 0

Edited == edits < MaxEdits /\ edits' = edits + 1

EditFile ==
  /\ Edited
  /\ \/ \E remote \in BOOLEAN : file' = [file EXCEPT !.remote = remote]
     \/ file' = [file EXCEPT !.path = ~@]
     \/ \E preview \in Previews \cup {None} : file' = [file EXCEPT !.preview = preview]
     \/ \E checks \in 0..3 : file' = [file EXCEPT !.checks = checks]
     \/ file' = [file EXCEPT !.others = ~@]
     \/ \E command \in {None, "codex", "custom"} : file' = [file EXCEPT !.command = command]
  /\ UNCHANGED <<manifest, machine, catalog, running, report, fresh>>

EditManifest ==
  /\ Edited
  /\ manifest' \in Manifests \cup {None}
  /\ UNCHANGED <<file, machine, catalog, running, report, fresh>>

ChangeMachine ==
  /\ Edited
  /\ \/ machine' = [machine EXCEPT !.docker = ~@]
     \/ \E version \in Versions, at \in {"path", "app"} : machine' = [machine EXCEPT ![at] = version]
  /\ fresh' = {}
  /\ UNCHANGED <<file, manifest, catalog, running, report>>

\* Another Codex writes its cache.
UpdateCatalog ==
  /\ Edited
  /\ catalog' \in Versions \cup {None}
  /\ UNCHANGED <<file, manifest, machine, running, report, fresh>>
-----------------------------------------------------------------------------
(***************************************************************************)
(* loadAgentConfig: normalizePreviewConfig infers a runtime, and refuses a *)
(* preparation outside a container.                                        *)
(***************************************************************************)
RuntimeOfFile ==
  IF file.preview.runtime = None /\ file.preview.sandbox = "container" THEN "docker" ELSE file.preview.runtime

FileIsValid == file.preview # None /\ file.preview.prepare => RuntimeOfFile = "docker"

PreviewOfFile ==
  IF file.preview = None THEN None
  ELSE [runtime |-> RuntimeOfFile, prepare |-> file.preview.prepare, url |-> file.preview.url]

(***************************************************************************)
(* enrichConfigWithCodexModels.                                            *)
(***************************************************************************)
\* findBestCodexInstallation: the newest, the one on the PATH when they are the same.
BestCommand == IF machine.app > machine.path THEN "app" ELSE "codex"
VersionOf(command) == IF command = "app" THEN machine.app ELSE machine.path

\* A catalog that is newer than every Codex on the machine is not published, nor is any
\* to an agent whose file only has models of others.
CatalogIsPublished ==
  catalog # None /\ ~file.others /\ (catalog = 0 \/ VersionOf(BestCommand) >= catalog)

\* applyCodexCommandToProjects: a command of the project's own stays.
HarnessCommand ==
  IF CatalogIsPublished /\ catalog > 0 /\ file.path /\ file.command \in {None, "codex"} THEN BestCommand
  ELSE IF file.command = None THEN "codex" ELSE file.command

(***************************************************************************)
(* enrichConfigWithProjectManifests.                                       *)
(***************************************************************************)
RuntimeOfManifest ==
  IF manifest.runtime # None THEN manifest.runtime ELSE IF manifest.sandbox THEN "docker" ELSE "host"

PreviewOfManifest == [runtime |-> RuntimeOfManifest, prepare |-> manifest.prepare, url |-> manifest.url]

\* A manifest that cannot be read or breaks the rule is passed over without a word.
ManifestIsRead ==
  /\ file.path
  /\ manifest # None
  /\ manifest.prepare => RuntimeOfManifest = "docker"

Preview == IF ManifestIsRead THEN PreviewOfManifest ELSE PreviewOfFile

\* requirePublicPreviews.
PublicPreview ==
  IF Preview # None /\ file.remote /\ Preview.url = "loopback" THEN [Preview EXCEPT !.url = None] ELSE Preview

Start ==
  /\ running = None
  /\ FileIsValid
  /\ running' = [remote |-> file.remote, path |-> file.path, preview |-> PublicPreview,
                 checks |-> IF ManifestIsRead THEN 3 ELSE file.checks,
                 command |-> HarnessCommand, catalog |-> IF CatalogIsPublished THEN catalog ELSE 0]
  /\ fresh' = fresh \cup {"start"}
  /\ UNCHANGED <<file, manifest, machine, catalog, report, edits>>

Stop ==
  /\ running # None
  /\ running' = None
  /\ report' = FALSE
  /\ fresh' = {}
  /\ UNCHANGED <<file, manifest, machine, catalog, edits>>
-----------------------------------------------------------------------------
(***************************************************************************)
(* ReadinessRunner.run: the required checks; a command that takes too long *)
(* has failed.                                                             *)
(***************************************************************************)
\* Mutant of RequiresDocker: the tunnel is taken for an option.
RequiresDockerToRun == running.preview # None /\ running.preview.runtime = "docker"

\* previewUsesDockerTunnel: without an address of its own a preview has a tunnel.
RequiresDocker ==
  running.preview # None /\ (running.preview.runtime = "docker" \/ running.preview.url = None)

\* Only an executable named "codex" is asked for its version.
HarnessIsUsable == running.command # "custom" => VersionOf(running.command) >= Minimum

\* checkRepository and checkSourceControl, where the path is of a repository with a remote.
RepositoryIsThere == running.path

\* Build, test and lint are all configured.
CommandsAreComplete == running.checks = 3

RunReadiness ==
  /\ running # None
  /\ report' \in {FALSE, /\ RepositoryIsThere
                         /\ HarnessIsUsable
                         /\ RequiresDocker => machine.docker
                         /\ CommandsAreComplete}
  /\ fresh' = fresh \cup {"report"}
  /\ UNCHANGED <<file, manifest, machine, catalog, running, edits>>

Next == EditFile \/ EditManifest \/ ChangeMachine \/ UpdateCatalog \/ Start \/ Stop \/ RunReadiness

SettingsSpec == Init /\ [][Next]_settingsVars
-----------------------------------------------------------------------------
\* CloudflarePreviewTunnelAdapter.open runs Docker unless the preview has an address;
\* PreviewRuntimeRouter does when its runtime is a container.
OpensWithDocker ==
  \/ running.preview.runtime = "docker"
  \/ running.preview.url \notin {"public", "loopback"}

\* While the machine is as a favourable report found it, a preview of the project can
\* start with what the agent runs: Docker is there for whichever of its parts needs it.
ReportsAreTrue ==
  report /\ "report" \in fresh /\ running.preview # None =>
    running.path /\ (OpensWithDocker => machine.docker)

\* An agent of a remote backend never gives a preview an address that only its own
\* computer reaches, wherever that address was written and whichever file won.
AddressesAreReachable ==
  running # None /\ running.remote /\ running.preview # None => running.preview.url # "loopback"

\* What prepares a preview never runs outside a container, whichever of the two files
\* and whichever of its defaults chose the runtime.
PreparationsAreContained ==
  running # None /\ running.preview # None /\ running.preview.prepare => running.preview.runtime = "docker"

\* The models published from the cache are run by a Codex at least as new as the cache,
\* as long as Codex is what it was at the start and the project has no command of its own.
\* A project without a path keeps "codex", and has no turn that would run it.
ModelsHaveTheirClient ==
  running # None /\ running.path /\ "start" \in fresh /\ running.command # "custom" =>
    VersionOf(running.command) >= running.catalog
-----------------------------------------------------------------------------
(***************************************************************************)
(* What the proofs rest on.                                                *)
(***************************************************************************)
RunningPreviews == [runtime : {None, "host", "docker"}, prepare : BOOLEAN, url : Urls]
RunSettings ==
  [remote : BOOLEAN, path : BOOLEAN, preview : RunningPreviews \cup {None}, checks : 0..3,
   command : {"codex", "app", "custom"}, catalog : Versions]
Files ==
  [remote : BOOLEAN, path : BOOLEAN, preview : Previews \cup {None}, checks : 0..3,
   command : {None, "codex", "custom"}, others : BOOLEAN]
Machines == [docker : BOOLEAN, path : Versions, app : Versions]

Domains ==
  /\ file \in Files
  /\ manifest \in Manifests \cup {None}
  /\ machine \in Machines
  /\ catalog \in Versions \cup {None}
  /\ running \in RunSettings \cup {None}
  /\ report \in BOOLEAN
  /\ fresh \subseteq {"start", "report"}

\* A report is of the settings the agent runs with.
ReportsAreOfTheRunning ==
  /\ report => running # None
  /\ report /\ "report" \in fresh => running.path /\ (RequiresDocker => machine.docker)
=============================================================================
