--------------------------- MODULE MCPartsLiveness ---------------------------
(***************************************************************************)
(* Parts of the local agent, of the preview and of the two applications that *)
(* share no state with one another: a behaviour is of the part its initial *)
(* state chooses, so that the state spaces add up instead of multiplying.  *)
(***************************************************************************)
EXTENDS Naturals, Sequences

CONSTANTS
  Sessions, Docker, Pids, Ports, Other, None, MaxStarts, MaxRestarts, MaxOpens, MaxBytes, MaxChunks,
  MaxRequests, Prompts, MaxMessages, MaxRepairs, Elements, Limit, MaxHandshakes,
  MaxConnects, MaxToggles, MaxLoads, MaxFaults, Unread, Existing, Second, Handled, MaxReports, MaxEdits,
  Cursors, MaxPages, FolderManifests, Labels, MaxChildren, LinkedRepositories, Readers, MaxChanges

VARIABLES
  part,  \* the part this behaviour is about
  group, port, ref, step, starts, harmed, restarts,
  box, client, run, phase, attempt, printed, proxy, known, threw, opens, crashes,
  server, connection, response, sent, chunks, delivered, heads, script, timer, requests,
  stage, repairs, active, process, killed, message, queue, pushed, taken, end, temporary, shots, late,
  document, loading, picker, attached, bridge, attempts, retryTimer, toPreview, toPage, selections, sending,
  foreign, toggles,
  outer, purpose, pending, runtime, joining, admitted, inner, tokens, faults, missed,
  exists, readiness, metadata, shownList, listRead, check, update, creation, dismissed, told, mixed,
  codex, reading, ending, outcome, requestId, pageCursors, answers, read,
  application, queued, folder, backend, toolsSeen, form, saved, dockerRequired, checked, agentRuntime,
  current,
  configured, results, at, runs, retrying,
  manager, reads, query, replies, shown, action, failures, lastCheck, done

processVars == <<group, port, ref, step, starts, harmed, restarts>>
tunnelVars == <<box, client, run, phase, attempt, printed, proxy, known, threw, opens, crashes>>
proxyVars == <<server, connection, response, sent, chunks, delivered, heads, script, timer, requests>>
promptVars ==
  <<stage, repairs, active, process, killed, message, queue, pushed, taken, end, temporary, shots, late>>
selectionVars ==
  <<document, loading, picker, attached, bridge, attempts, retryTimer, toPreview, toPage, selections,
  sending, foreign, toggles>>
companionVars == <<outer, purpose, pending, runtime, joining, admitted, inner, tokens, faults, missed>>
projectListVars ==
  <<exists, readiness, metadata, shownList, listRead, check, update, creation, dismissed, told, mixed>>
codexVars == <<codex, reading, ending, outcome, requestId, pageCursors, answers, read>>
applicationVars ==
  <<application, queued, folder, backend, toolsSeen, form, saved, dockerRequired, checked, agentRuntime,
  current>>
checksVars == <<configured, results, at, runs, retrying>>
windowVars == <<manager, reads, query, replies, shown, action, failures, lastCheck, done>>

Process == INSTANCE PreviewProcess
Tunnel == INSTANCE PreviewTunnel
Proxy == INSTANCE PreviewProxy
Turn == INSTANCE PromptTurn
Selection == INSTANCE PreviewSelection
Companion == INSTANCE PreviewCompanion
Projects == INSTANCE DeveloperProjects
Codex == INSTANCE CodexCommands
Application == INSTANCE DesktopApplication
Checks == INSTANCE HostChecks
Window == INSTANCE DesktopWindow

Parts == {"process", "tunnel", "proxy", "turn", "selection",
          "companion", "projects", "codex", "application", "checks", "window"}

\* Bound: one command, and its retry.
MCLabels == <<"build">>

\* The parts that do not move have one initial state.
PartsInit ==
  /\ part \in Parts
  /\ Process!Init /\ Tunnel!Init /\ Proxy!Init /\ Turn!Init /\ Selection!Init
  /\ Companion!Init /\ Projects!Init /\ Codex!Init /\ Application!Init /\ Checks!Init /\ Window!Init
  /\ (part # "application" => queued = <<>> /\ folder = None)
  /\ (part # "window" => manager = [age |-> 0, needs |-> {}])
  /\ (part # "application" => backend = "local" /\ saved = None)

\* Only the part of the behaviour moves.
Rest ==
  /\ part' = part
  /\ IF part = "process" THEN TRUE ELSE UNCHANGED processVars
  /\ IF part = "tunnel" THEN TRUE ELSE UNCHANGED tunnelVars
  /\ IF part = "proxy" THEN TRUE ELSE UNCHANGED proxyVars
  /\ IF part = "turn" THEN TRUE ELSE UNCHANGED promptVars
  /\ IF part = "selection" THEN TRUE ELSE UNCHANGED selectionVars
  /\ IF part = "companion" THEN TRUE ELSE UNCHANGED companionVars
  /\ IF part = "projects" THEN TRUE ELSE UNCHANGED projectListVars
  /\ IF part = "codex" THEN TRUE ELSE UNCHANGED codexVars
  /\ IF part = "application" THEN TRUE ELSE UNCHANGED applicationVars
  /\ IF part = "checks" THEN TRUE ELSE UNCHANGED checksVars
  /\ IF part = "window" THEN TRUE ELSE UNCHANGED windowVars

PartsNext ==
  \/ part = "process" /\ Process!Next /\ Rest
  \/ part = "tunnel" /\ Tunnel!Next /\ Rest
  \/ part = "proxy" /\ Proxy!Next /\ Rest
  \/ part = "turn" /\ Turn!Next /\ Rest
  \/ part = "selection" /\ Selection!Next /\ Rest
  \/ part = "companion" /\ Companion!Next /\ Rest
  \/ part = "projects" /\ Projects!Next /\ Rest
  \/ part = "codex" /\ Codex!Next /\ Rest
  \/ part = "application" /\ Application!Next /\ Rest
  \/ part = "checks" /\ Checks!Next /\ Rest
  \/ part = "window" /\ Window!Next /\ Rest

all ==
  <<part, processVars, tunnelVars, proxyVars, promptVars, selectionVars, companionVars,
  projectListVars, codexVars, applicationVars, checksVars, windowVars>>

\* Each part is scheduled as its own specification says.  A part begins where no action
\* that is fair is enabled, so that those that do not move satisfy theirs.
PartsSpec ==
  /\ PartsInit
  /\ [][PartsNext]_all
  /\ Process!Fairness
  /\ Tunnel!Fairness
  /\ Proxy!Fairness
  /\ Turn!Fairness
  /\ Selection!Fairness
  /\ Companion!Fairness
  /\ Projects!Fairness
  /\ Codex!Fairness
  /\ Application!Fairness
  /\ Checks!Fairness
  /\ Window!Fairness
-----------------------------------------------------------------------------
\* A wait for the health check ends.
\* An opening comes to an end, with a tunnel or without.
\* A page the preview's server never ends is shown all the same
\* (MAX_HTML_BUFFER_MS).
\* A proxy that is asked to close does, whatever its connections are doing.
\* Starting and removing a preview end, whatever the companion answers.
\* A preview that has the script ends up ready to be picked from, unless it is
\* left or selecting becomes impossible; also when the script answers after the last attempt.
\* Where there is no script, the page says so.
PreviewsArrive ==
  /\ Process!WaitEnds
  /\ Tunnel!OpeningEnds
  /\ Proxy!HeldPagesAreShown
  /\ Proxy!ClosingEnds
  /\ Companion!OperationsEnd
  /\ Selection!ScriptsAreFound
  /\ Selection!WaitingEnds

\* A turn ends, also one that another turn's refusal has cancelled.
\* A command ends, whatever it started, unless that left the group and holds its pipes.
\* Every check ends, with a result or an error, whichever of its requests is not answered.
\* The promise of every command that was started is settled.
\* A quit is answered, by an application that is gone or one that stays, although logins
\* wait in the queue, if it finds no agent running and no start before it.
\* An action of the user ends, so that the next one is heard.
WorkEnds ==
  /\ Turn!TurnsEnd
  /\ Checks!ValidationEnds
  /\ Projects!ChecksEnd
  /\ Codex!CommandsEnd
  /\ Application!QuitEnds
  /\ Window!ActionsEnd
=============================================================================
