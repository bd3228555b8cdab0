--------------------------- MODULE PreviewCompanion ---------------------------
(***************************************************************************)
(* The companion of a preview: PreviewCompanionManager as SessionRunner    *)
(* uses it for one session whose preview is itself a PairDock backend.     *)
(* Inside the agent a second agent runtime connects to that backend, with  *)
(* a token made for it, and keeps sessions of its own in a file of its     *)
(* own.  The containers and the file survive the agent's process; the      *)
(* runtime and the manager's maps do not.                                  *)
(***************************************************************************)
EXTENDS Naturals

CONSTANTS
  None,
  MaxFaults     \* bound: operations that fail, and ends of the agent's process

VARIABLES
  outer,        \* where the operation on the session's preview is
  purpose,      \* what a failure of the preview's start leads to: "close" or "suspend"
  pending,      \* the manager's pending token
  runtime,      \* the token of the manager's active runtime
  joining,      \* the token of the runtime being started
  admitted,      \* the token the preview's backend admits, None while it does not run
  inner,        \* the companion's session: "none", "saved" (in its file) or "live"
  tokens,
  faults,
  missed        \* the session was cleaned up with no runtime to clean up the companion's

companionVars == <<outer, purpose, pending, runtime, joining, admitted, inner, tokens, faults, missed>>

Init ==
  /\ outer = "absent"
  /\ purpose = "close"
  /\ pending = None
  /\ runtime = None
  /\ joining = None
  /\ admitted = None
  /\ inner = "none"
  /\ tokens = 0
  /\ faults = 0
  /\ missed = FALSE

Fault == faults < MaxFaults /\ faults' = faults + 1

\* A failed start removes the preview again, or the whole session.
Undoing == IF purpose = "close" THEN "closing" ELSE "removing"
-----------------------------------------------------------------------------
(***************************************************************************)
(* Bringing the preview up: prepareUnlocked and rebuildPreview.            *)
(***************************************************************************)
\* prepare: a token for this start, kept until the runtime is started.
Prepare ==
  /\ outer \in {"absent", "rebuilding"}
  /\ tokens' = tokens + 1
  /\ pending' = tokens + 1
  /\ outer' = "prepared"
  /\ UNCHANGED <<purpose, runtime, joining, admitted, inner, faults, missed>>

\* The companion's configuration cannot be loaded.
FailPrepare ==
  /\ outer \in {"absent", "rebuilding"}
  /\ Fault
  /\ outer' = Undoing
  /\ UNCHANGED <<purpose, pending, runtime, joining, admitted, inner, tokens, missed>>

\* The sandbox starts with the credentials prepare put in its environment.
StartSandbox ==
  /\ outer = "prepared"
  /\ admitted' = tokens
  /\ outer' = "up"
  /\ UNCHANGED <<purpose, pending, runtime, joining, inner, tokens, faults, missed>>

\* start: the runtime pending is taken, unless one is active already.
StartRuntime ==
  /\ outer = "up"
  /\ IF runtime # None \/ pending = None
       THEN /\ outer' = "opening"
            /\ UNCHANGED <<pending, joining>>
       ELSE /\ outer' = "joining"
            /\ joining' = pending
            /\ pending' = None
  /\ UNCHANGED <<purpose, runtime, admitted, inner, tokens, faults, missed>>

\* The companion registers, and recovers the sessions of its file, or suspends them.
Join ==
  /\ outer = "joining"
  /\ joining = admitted
  /\ runtime' = joining
  /\ joining' = None
  /\ inner' \in IF inner = "none" THEN {"none"} ELSE {"live", "saved"}
  /\ outer' = "opening"
  /\ UNCHANGED <<purpose, pending, admitted, tokens, faults, missed>>

\* The first connection fails, or registering does, perhaps with the sessions recovered:
\* the socket is closed and the runtime is never the manager's.
Refuse ==
  /\ outer = "joining"
  /\ Fault
  /\ inner' \in IF inner = "none" THEN {"none"} ELSE {inner, "live"}
  /\ joining' = None
  /\ outer' = Undoing
  /\ UNCHANGED <<purpose, pending, runtime, admitted, tokens, missed>>

OpenTunnel ==
  /\ outer = "opening"
  /\ outer' = "ready"
  /\ UNCHANGED <<purpose, pending, runtime, joining, admitted, inner, tokens, faults, missed>>

\* The sandbox, its healthcheck or the tunnel fails.
FailStart ==
  /\ outer \in {"prepared", "up", "opening"}
  /\ Fault
  /\ outer' = Undoing
  /\ UNCHANGED <<purpose, pending, runtime, joining, admitted, inner, tokens, missed>>
-----------------------------------------------------------------------------
(***************************************************************************)
(* Taking it down.                                                         *)
(***************************************************************************)
\* Mutant of Forget: a runtime that could not be stopped is kept.
ForgetStopped(stopped) ==
  /\ pending' = None
  /\ runtime' = IF stopped THEN None ELSE runtime

\* stop: the maps forget the session, whether or not the runtime could be stopped.
Forget(stopped) ==
  /\ pending' = None
  /\ runtime' = None

\* The runtime stops: its sessions' previews end and its file keeps them.
StopRuntime(next) ==
  /\ Forget(TRUE)
  /\ inner' = IF runtime # None /\ inner = "live" THEN "saved" ELSE inner
  /\ outer' = next
  /\ UNCHANGED <<purpose, joining, admitted, tokens, faults, missed>>

\* The runtime's stop fails: an error among others, and the removal goes on.
FailStopRuntime(next) ==
  /\ runtime # None
  /\ Fault
  /\ Forget(FALSE)
  /\ missed' = (missed \/ next = "cleaning")
  /\ outer' = next
  /\ UNCHANGED <<purpose, joining, admitted, inner, tokens>>

\* removePreviewResources.
Remove == outer = "removing" /\ (StopRuntime("dropping") \/ FailStopRuntime("dropping"))

\* cleanupWorkspace: a runtime that runs cleans up its sessions; without one, nobody does.
CleanUp ==
  /\ outer = "closing"
  /\ \/ /\ Forget(TRUE)
        /\ inner' = IF runtime # None THEN "none" ELSE inner
        /\ missed' = (missed \/ runtime = None)
        /\ outer' = "cleaning"
        /\ UNCHANGED <<purpose, joining, admitted, tokens, faults>>
     \/ FailStopRuntime("cleaning")

\* The tunnel and the sandbox are removed.
StopSandbox ==
  /\ outer \in {"dropping", "cleaning"}
  /\ admitted' = None
  /\ outer' = IF outer = "cleaning" THEN "gone" ELSE "down"
  /\ UNCHANGED <<purpose, pending, runtime, joining, inner, tokens, faults, missed>>

\* The sandbox cannot be stopped: the session stays, to be closed again or recovered.
FailStopSandbox ==
  /\ outer \in {"dropping", "cleaning"}
  /\ Fault
  /\ outer' = "down"
  /\ UNCHANGED <<purpose, pending, runtime, joining, admitted, inner, tokens, missed>>

\* close, and shutdown when the agent stops.
Close ==
  /\ outer \in {"ready", "down"}
  /\ outer' = "closing"
  /\ UNCHANGED <<purpose, pending, runtime, joining, admitted, inner, tokens, faults, missed>>

ShutDown ==
  /\ outer = "ready"
  /\ outer' = "removing"
  /\ UNCHANGED <<purpose, pending, runtime, joining, admitted, inner, tokens, faults, missed>>
-----------------------------------------------------------------------------
(***************************************************************************)
(* The companion's own sessions, and the agent's process.                  *)
(***************************************************************************)
OpenInner ==
  /\ runtime # None /\ runtime = admitted /\ outer = "ready"
  /\ inner' = "live"
  /\ UNCHANGED <<outer, purpose, pending, runtime, joining, admitted, tokens, faults, missed>>

CloseInner ==
  /\ runtime # None /\ runtime = admitted /\ outer = "ready"
  /\ inner' = "none"
  /\ UNCHANGED <<outer, purpose, pending, runtime, joining, admitted, tokens, faults, missed>>

\* The agent's process ends, at any point, and the runtime with it; it starts again, and
\* restore rebuilds the preview of a session it still has.
Restart ==
  /\ outer \notin {"absent", "gone"}
  /\ Fault
  /\ pending' = None /\ runtime' = None /\ joining' = None
  /\ purpose' = "suspend"
  /\ outer' = "reviving"
  /\ UNCHANGED <<admitted, inner, tokens, missed>>

\* rebuildPreview begins with removePreviewResources.
Revive ==
  /\ outer = "reviving"
  /\ admitted' = None
  /\ outer' = "rebuilding"
  /\ UNCHANGED <<purpose, pending, runtime, joining, inner, tokens, faults, missed>>
-----------------------------------------------------------------------------
BringUp == Prepare \/ StartSandbox \/ StartRuntime \/ Join \/ Refuse \/ OpenTunnel
TakeDown == Remove \/ CleanUp \/ StopSandbox \/ FailStopSandbox

Next ==
  \/ BringUp \/ FailPrepare \/ FailStart
  \/ TakeDown \/ Close \/ ShutDown
  \/ OpenInner \/ CloseInner \/ Restart \/ Revive

\* The session's operation, once under way, goes on: every step of it settles.
Fairness == WF_companionVars((outer # "absent" /\ BringUp) \/ TakeDown \/ Revive)

Spec == Init /\ [][Next]_companionVars /\ Fairness
-----------------------------------------------------------------------------
(***************************************************************************)
(* Properties.                                                             *)
(***************************************************************************)
\* The companion's sessions end with the session: once it is gone they are, unless it
\* was cleaned up while no companion ran to do it, or its stop failed.
InnerEndsWithOuter == outer = "gone" /\ inner # "none" => missed

\* A preview that is down has no companion: none goes on without its backend.
NoCompanionWithoutPreview == outer \in {"down", "gone"} => runtime = None /\ joining = None

\* Starting and removing a preview end, whatever the companion answers.
OperationsEnd ==
  outer \notin {"absent", "ready", "down", "gone"} ~> outer \in {"ready", "down", "gone"}
-----------------------------------------------------------------------------
(***************************************************************************)
(* What the proofs rest on.                                                *)
(***************************************************************************)
Domains ==
  /\ outer \in {"absent", "prepared", "up", "joining", "opening", "ready", "removing", "closing", "dropping",
                "cleaning", "down", "gone", "reviving", "rebuilding"}
  /\ purpose \in {"close", "suspend"}
  /\ inner \in {"none", "saved", "live"}
  /\ missed \in BOOLEAN

\* A runtime is being started in one place only, and none is left once the manager has
\* forgotten the session.
RuntimesAreForgotten ==
  /\ joining # None => outer = "joining"
  /\ outer \in {"dropping", "cleaning", "down", "gone", "reviving", "rebuilding"} => runtime = None

CleanedUpOrMissed == outer \in {"cleaning", "gone"} /\ inner # "none" => missed
=============================================================================
